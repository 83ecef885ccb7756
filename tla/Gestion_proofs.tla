--------------------------- MODULE Gestion_proofs ---------------------------
(***************************************************************************)
(* Proofs about parts of a restaurant that share no state, each for any    *)
(* value of its constants.                                                 *)
(*                                                                         *)
(* Carta: two invariants that share the types, one of what the pages hold  *)
(* of each item, and one of the writes that put an item in a category.     *)
(*                                                                         *)
(* Resumen: whoever has the lock counts every payment that the report      *)
(* already shows, so what it writes leaves none of them out.               *)
(*                                                                         *)
(* Comensal: whatever names an order for the page has the lines of that    *)
(* order, and a payment in course has a screen that waits for it, or an    *)
(* answer about it was lost.                                               *)
(*                                                                         *)
(* Mapa: a save that was checked has the row of the restaurant, and what   *)
(* it is going to delete is free, or was opened since; each table that a   *)
(* page loaded is there once, and one that it added has one number         *)
(* everywhere, and a row only if its answer is on its way or was lost.     *)
(*                                                                         *)
(* Trabas: rows have levels, and a charge asks only for rows of higher     *)
(* levels than those that it has; the lists of rows are in order because a *)
(* finite set can be listed in the order of a key.                         *)
(***************************************************************************)
EXTENDS Carta, Resumen, Comensal, Mapa, Trabas, FiniteSetTheorems,
        WellFoundedInduction, TLAPS

-----------------------------------------------------------------------------
(* Carta: the types *)

Fichas == [contenido : Nat \X (Paginas \cup {NoHay}), version : Nat, propia : BOOLEAN]

Listas == [Platos -> Fichas \cup {NoHay}]

Renglones ==
  [estado : {"nuevo", "activo", "archivado", "eliminado"},
   en : Secciones \cup {NoHay},
   contenido : Nat \X (Paginas \cup {NoHay}),
   version : Nat]

TiposRows ==
  /\ plato \in [Platos -> Renglones]
  /\ seccion \in [Secciones -> {"activa", "archivada", "eliminada"}]
  /\ escritura \in [Escrituras ->
       {SinEscritura} \cup
       [que : {"crear", "restaurar", "mover"}, plato : Platos, en : Secciones]]
  /\ archivando \subseteq Secciones
  /\ cartaUsado \in [{"escritos", "bajas", "cargas"} -> Nat]

TiposPaginas ==
  /\ lista \in [Paginas -> Listas]
  /\ carga \in [Paginas ->
       {SinCarga, Pedida} \cup [fase : {"leida"}, lista : Listas]]
  /\ cambio \in [Paginas -> {SinCambio} \cup [plato : Platos, version : Nat]]
  /\ formulario \in [Paginas ->
       {SinFormulario} \cup
       [fase : {"abierto", "leido"}, plato : Platos, ficha : Fichas \cup {NoHay}]]
  /\ \A p \in Paginas : formulario[p].fase # "cerrado" => formulario[p].ficha # NoHay

CartaTipos == TiposRows /\ TiposPaginas

-----------------------------------------------------------------------------
(* Carta: what the pages hold *)

\* A version that came with its content is not newer than the row, and names
\* the content of the row while it is the version of the row.
Fiel(f, r) ==
  f # NoHay /\ f.propia =>
    /\ f.version <= r.version
    /\ f.version = r.version => f.contenido = r.contenido

FichasFieles ==
  /\ \A p \in Paginas, i \in Platos : Fiel(lista[p][i], plato[i])
  /\ \A p \in Paginas : carga[p].fase = "leida" =>
       \A i \in Platos : Fiel(carga[p].lista[i], plato[i])
  /\ \A p \in Paginas : formulario[p].fase # "cerrado" =>
       Fiel(formulario[p].ficha, plato[formulario[p].plato])

PaginasInv == FichasFieles /\ EdicionSinPisar

-----------------------------------------------------------------------------
(* Carta: what comes into a category *)

\* Of a category that is not in the history, no write is under way unless
\* nobody archives it.
DestinosAbiertos ==
  \A x \in Escrituras : escritura[x].que # "nada" =>
    \/ escritura[x].en \in cruzadas
    \/ /\ escritura[x].en \notin archivando
       /\ seccion[escritura[x].en] # "archivada"

\* Two writes about one item are both in the history.
DeAUno ==
  \A x, o \in Escrituras :
    x # o /\ escritura[x].que # "nada" /\ escritura[o].plato = escritura[x].plato =>
      escritura[x].en \in cruzadas

\* An item that is to be restored is where it was when that was asked.
SinMudanza ==
  \A x \in Escrituras : escritura[x].que = "restaurar" =>
    plato[escritura[x].plato].en \in {escritura[x].en} \cup cruzadas

\* What was counted is still so.
CuentaVigente == \A s \in archivando \ cruzadas : Activos(s) = {}

SeccionesInv ==
  DestinosAbiertos /\ DeAUno /\ SinMudanza /\ CuentaVigente /\ ArchivadaSinActivos

-----------------------------------------------------------------------------
(* The rows *)

\* What a write does to the rows.
LEMMA ConHace ==
  ASSUME TiposRows, NEW i \in Platos, NEW r \in Renglones
  PROVE  /\ Con(i, r) \in [Platos -> Renglones]
         /\ Con(i, r)[i] = [r EXCEPT !.version = @ + 1]
         /\ \A j \in Platos \ {i} : Con(i, r)[j] = plato[j]
BY DEF TiposRows, Renglones, Con

\* One more of a bound.
LEMMA UsarHace ==
  ASSUME TiposRows, NEW que \in {"escritos", "bajas", "cargas"}, NEW maximo,
         Usar(que, maximo)
  PROVE  cartaUsado' \in [{"escritos", "bajas", "cargas"} -> Nat]
BY DEF TiposRows, Usar

\* A category is a category, also of a write that has ended.
LEMMA SinEscrituraHace == SinEscritura.que = "nada" /\ SinEscritura.plato = NoHay
                          /\ SinEscritura.en = NoHay
BY DEF SinEscritura

\* The write x, of the item i in the category s.
LEMMA EscrituraTipo ==
  ASSUME TiposRows, NEW x \in Escrituras, escritura[x].que # "nada"
  PROVE  /\ escritura[x] \in [que : {"crear", "restaurar", "mover"},
                              plato : Platos, en : Secciones]
         /\ escritura[x].plato \in Platos
         /\ escritura[x].en \in Secciones
         /\ escritura[x].que \in {"crear", "restaurar", "mover"}
BY SinEscrituraHace DEF TiposRows

LEMMA CartaInicioTipos == CartaInit => CartaTipos
<1> SUFFICES ASSUME CartaInit PROVE CartaTipos
  OBVIOUS
<1>1. \A i \in Platos : plato[i] \in Renglones
  BY CartaAssumption DEF CartaInit, Renglones
<1>2. TiposRows
  BY <1>1 DEF CartaInit, TiposRows
<1>3. SinFormulario.fase = "cerrado"
  BY DEF SinFormulario
<1>4. TiposPaginas
  BY <1>3 DEF CartaInit, TiposPaginas, Listas
<1> QED BY <1>2, <1>4 DEF CartaTipos

\* What the rows and the history of the categories are after a step.
LEMMA EmpezarTipos ==
  ASSUME TiposRows, NEW x \in Escrituras, NEW i \in Platos, NEW s \in Secciones,
         EmpezarEscritura(x, i, s)
  PROVE  TiposRows'
BY DEF TiposRows, EmpezarEscritura

LEMMA TerminarTipos ==
  ASSUME TiposRows, NEW x \in Escrituras, TerminarEscritura(x)
  PROVE  /\ TiposRows'
         /\ \E i \in Platos, r \in Renglones :
              /\ plato' = Con(i, r)
              /\ r.version = plato[i].version /\ r.contenido = plato[i].contenido
<1> DEFINE i == escritura[x].plato
           s == escritura[x].en
<1>1. i \in Platos /\ s \in Secciones
  BY EscrituraTipo DEF TerminarEscritura
<1>2. plato[i] \in Renglones
  BY <1>1 DEF TiposRows
<1> DEFINE r1 == [plato[i] EXCEPT !.estado = "activo", !.en = s]
           r2 == [plato[i] EXCEPT !.estado = "activo"]
           r3 == [plato[i] EXCEPT !.en = s]
<1>6. \A r \in {r1, r2, r3} :
        /\ r \in Renglones
        /\ r.version = plato[i].version /\ r.contenido = plato[i].contenido
  BY <1>1, <1>2 DEF Renglones
<1>7. plato' = Con(i, r1) \/ plato' = Con(i, r2) \/ plato' = Con(i, r3)
  BY Zenon DEF TerminarEscritura
<1>3. PICK r \in Renglones : /\ plato' = Con(i, r)
                             /\ r.version = plato[i].version
                             /\ r.contenido = plato[i].contenido
  <2> HIDE DEF r1, r2, r3, i, s
  <2> QED BY <1>6, <1>7
<1>4. plato' \in [Platos -> Renglones]
  BY <1>1, <1>3, ConHace
<1>5. cartaUsado' \in [{"escritos", "bajas", "cargas"} -> Nat]
  BY UsarHace DEF TerminarEscritura, UnEscrito
<1> QED BY <1>1, <1>3, <1>4, <1>5 DEF TiposRows, TerminarEscritura

\* A row that is written has a new version; one that is not, stays.
Sigue(r, q) == r.version <= q.version /\ (r.version = q.version => r.contenido = q.contenido)

FilasSiguen == \A i \in Platos : Sigue(plato[i], plato'[i])

\* A write of any row is one of those.
LEMMA EscritaSigue ==
  ASSUME TiposRows, NEW i \in Platos, NEW r \in Renglones,
         plato' = Con(i, r), r.version = plato[i].version
  PROVE  plato' \in [Platos -> Renglones] /\ FilasSiguen
<1>1. plato' \in [Platos -> Renglones]
  BY ConHace
<1>2. ASSUME NEW j \in Platos PROVE Sigue(plato[j], plato'[j])
  <2>1. plato[j] \in Renglones
    BY DEF TiposRows
  <2>2. CASE j = i
    <3>1. plato'[i] = [r EXCEPT !.version = @ + 1]
      BY ConHace
    <3>2. plato'[i].version = plato[i].version + 1 /\ plato[i].version \in Nat
      BY <3>1, <2>1, <2>2 DEF Renglones
    <3> QED BY <3>2, <2>2 DEF Sigue
  <2>3. CASE j # i
    <3>1. plato'[j] = plato[j]
      BY <2>3 DEF TiposRows, Con
    <3> QED BY <3>1, <2>1 DEF Sigue, Renglones
  <2> QED BY <2>2, <2>3
<1> QED BY <1>1, <1>2 DEF FilasSiguen

\* So are the rows that nobody writes.
LEMMA QuietasSiguen ==
  ASSUME TiposRows, UNCHANGED plato
  PROVE  FilasSiguen
<1> SUFFICES ASSUME NEW j \in Platos PROVE Sigue(plato[j], plato'[j])
  BY DEF FilasSiguen
<1>1. plato[j] \in Renglones
  BY DEF TiposRows
<1> QED BY <1>1 DEF Sigue, Renglones

LEMMA CategoriasTipos ==
  ASSUME TiposRows,
         \/ \E x \in Escrituras : AbortarEscritura(x)
         \/ \E s \in Secciones : \/ ContarActivos(s) \/ ArchivarSeccion(s)
                                 \/ RestaurarSeccion(s) \/ EliminarSeccion(s)
  PROVE  TiposRows' /\ FilasSiguen
<1>1. UNCHANGED plato
  BY DEF AbortarEscritura, ContarActivos, ArchivarSeccion, RestaurarSeccion, EliminarSeccion
<1>2. ASSUME NEW x \in Escrituras, AbortarEscritura(x) PROVE TiposRows'
  BY <1>2 DEF AbortarEscritura, TiposRows
<1>3. ASSUME NEW s \in Secciones, ContarActivos(s) PROVE TiposRows'
  <2>1. cartaUsado' \in [{"escritos", "bajas", "cargas"} -> Nat]
    BY <1>3, UsarHace DEF ContarActivos
  <2> QED BY <1>3, <2>1 DEF ContarActivos, TiposRows
<1>4. ASSUME NEW s \in Secciones, ArchivarSeccion(s) PROVE TiposRows'
  BY <1>4 DEF ArchivarSeccion, TiposRows
<1>5. ASSUME NEW s \in Secciones, RestaurarSeccion(s) PROVE TiposRows'
  BY <1>5 DEF RestaurarSeccion, TiposRows
<1>6. ASSUME NEW s \in Secciones, EliminarSeccion(s) PROVE TiposRows'
  <2>1. cartaUsado' \in [{"escritos", "bajas", "cargas"} -> Nat]
    BY <1>6, UsarHace DEF EliminarSeccion
  <2> QED BY <1>6, <2>1 DEF EliminarSeccion, TiposRows
<1> QED BY <1>1, <1>2, <1>3, <1>4, <1>5, <1>6, QuietasSiguen

\* The items that are archived, deleted, or written by somebody else.
LEMMA PlatosTipos ==
  ASSUME TiposRows, NEW i \in Platos,
         ArchivarPlato(i) \/ EliminarPlato(i) \/ OtroEscribe(i)
  PROVE  TiposRows' /\ FilasSiguen
<1>1. plato[i] \in Renglones
  BY DEF TiposRows
<1>2. CASE ArchivarPlato(i)
  <2>1. cartaUsado' \in [{"escritos", "bajas", "cargas"} -> Nat]
    BY <1>2, UsarHace DEF ArchivarPlato, UnEscrito
  <2> DEFINE r == [plato[i] EXCEPT !.estado = "archivado"]
  <2>2. r \in Renglones /\ r.version = plato[i].version /\ plato' = Con(i, r)
    BY <1>1, <1>2 DEF ArchivarPlato, Renglones
  <2>3. plato' \in [Platos -> Renglones] /\ FilasSiguen
    <3> HIDE DEF r
    <3> QED BY <2>2, EscritaSigue
  <2> QED BY <1>2, <2>1, <2>3 DEF ArchivarPlato, TiposRows
<1>3. CASE EliminarPlato(i)
  <2>1. plato' \in [Platos -> Renglones]
    BY <1>1, <1>3 DEF EliminarPlato, TiposRows, Renglones
  <2>2. ASSUME NEW j \in Platos PROVE Sigue(plato[j], plato'[j])
    <3>1. plato[j] \in Renglones
      BY DEF TiposRows
    <3>2. plato'[j].version = plato[j].version /\ plato'[j].contenido = plato[j].contenido
      BY <1>3, <3>1 DEF EliminarPlato, TiposRows, Renglones
    <3> QED BY <3>1, <3>2 DEF Sigue, Renglones
  <2> QED BY <1>3, <2>1, <2>2 DEF EliminarPlato, TiposRows, FilasSiguen
<1>4. CASE OtroEscribe(i)
  <2>1. cartaUsado' \in [{"escritos", "bajas", "cargas"} -> Nat]
    BY <1>4, UsarHace DEF OtroEscribe, UnEscrito
  <2>2. plato' \in [Platos -> Renglones] /\ FilasSiguen
    BY <1>1, <1>4, EscritaSigue DEF OtroEscribe
  <2> QED BY <1>4, <2>1, <2>2 DEF OtroEscribe, TiposRows
<1> QED BY <1>2, <1>3, <1>4

\* A page writes the row with its switch, and with its form.
LEMMA CambiarTipos ==
  ASSUME TiposRows, NEW p \in Paginas, NEW i \in Platos, CambiarDisponibilidad(p, i)
  PROVE  TiposRows' /\ FilasSiguen
<1>1. plato[i] \in Renglones
  BY DEF TiposRows
<1>2. cartaUsado' \in [{"escritos", "bajas", "cargas"} -> Nat]
  BY UsarHace DEF CambiarDisponibilidad, UnEscrito
<1>3. plato' \in [Platos -> Renglones] /\ FilasSiguen
  BY <1>1, EscritaSigue DEF CambiarDisponibilidad
<1> QED BY <1>2, <1>3 DEF CambiarDisponibilidad, TiposRows

LEMMA FormularioTipo ==
  ASSUME TiposPaginas, NEW p \in Paginas, formulario[p].fase # "cerrado"
  PROVE  formulario[p].plato \in Platos /\ formulario[p].ficha \in Fichas
<1>1. SinFormulario.fase = "cerrado"
  BY DEF SinFormulario
<1>2. formulario[p] \in [fase : {"abierto", "leido"}, plato : Platos,
                         ficha : Fichas \cup {NoHay}]
  BY <1>1 DEF TiposPaginas
<1> QED BY <1>2 DEF TiposPaginas

LEMMA GuardarTipos ==
  ASSUME CartaTipos, NEW p \in Paginas, GuardarPlato(p)
  PROVE  TiposRows' /\ FilasSiguen
<1> DEFINE i == formulario[p].plato
           r == [plato[i] EXCEPT !.contenido = <<cartaUsado'.escritos, p>>]
<1> USE DEF CartaTipos
<1>1. i \in Platos /\ plato[i] \in Renglones
  BY FormularioTipo DEF GuardarPlato, TiposRows
<1>2. CASE UNCHANGED <<plato, pisado, cartaUsado, carga>>
  BY <1>2, QuietasSiguen DEF GuardarPlato, TiposRows
<1>3. CASE UnEscrito /\ plato' = Con(i, r)
  <2>1. cartaUsado' \in [{"escritos", "bajas", "cargas"} -> Nat]
    BY <1>3, UsarHace DEF UnEscrito
  <2>2. cartaUsado'.escritos \in Nat
    BY <2>1
  <2>3. r \in Renglones /\ r.version = plato[i].version
    BY <1>1, <2>2 DEF Renglones
  <2>4. plato' \in [Platos -> Renglones] /\ FilasSiguen
    <3> HIDE DEF r, i
    <3> QED BY <1>1, <1>3, <2>3, EscritaSigue
  <2> QED BY <2>1, <2>4 DEF GuardarPlato, TiposRows
<1> QED BY <1>2, <1>3 DEF GuardarPlato

\* The rest of what a page does writes nothing.
LEMMA PaginaSolaTipos ==
  ASSUME TiposRows, NEW p \in Paginas,
         \/ PedirCarga(p) \/ LeerCarga(p) \/ RecibirCarga(p) \/ RecibirCambio(p)
         \/ CerrarFormulario(p) \/ LeerPlato(p)
         \/ \E i \in Platos : AbrirFormulario(p, i)
  PROVE  TiposRows' /\ UNCHANGED <<plato, pisado>> /\ UNCHANGED rowVars
<1>1. UNCHANGED rowVars /\ UNCHANGED pisado
  BY DEF PedirCarga, LeerCarga, RecibirCarga, RecibirCambio, CerrarFormulario, LeerPlato,
         AbrirFormulario
<1>2. cartaUsado' \in [{"escritos", "bajas", "cargas"} -> Nat]
  <2>1. CASE PedirCarga(p)
    BY <2>1, UsarHace DEF PedirCarga
  <2>2. CASE UNCHANGED cartaUsado
    BY <2>2 DEF TiposRows
  <2> QED BY <2>1, <2>2 DEF LeerCarga, RecibirCarga, RecibirCambio, CerrarFormulario,
                            LeerPlato, AbrirFormulario
<1> QED BY <1>1, <1>2 DEF rowVars, TiposRows

-----------------------------------------------------------------------------
(* The pages *)

LEMMA PaginasQuietas ==
  ASSUME TiposPaginas, UNCHANGED paginaVars
  PROVE  TiposPaginas'
BY DEF TiposPaginas, paginaVars

\* What the pages are told to take from their lists.
LEMMA RetirarTipos ==
  ASSUME TiposPaginas, NEW i \in Platos, Retirar(i), UNCHANGED <<carga, cambio, formulario>>
  PROVE  TiposPaginas'
<1>1. lista' \in [Paginas -> Listas]
  BY DEF TiposPaginas, Listas, Retirar
<1> QED BY <1>1 DEF TiposPaginas

\* What a page shows of the rows are fichas.
LEMMA MostradosTipo ==
  ASSUME TiposRows
  PROVE  Mostrados \in Listas
<1>1. ASSUME NEW i \in Platos
      PROVE  Mostrados[i] \in Fichas \cup {NoHay}
  BY DEF TiposRows, Renglones, Mostrados, Ficha, Fichas
<1> QED BY <1>1 DEF Mostrados, Listas

LEMMA CargaTipo ==
  ASSUME TiposPaginas, NEW p \in Paginas, carga[p].fase = "leida"
  PROVE  carga[p].lista \in Listas
BY DEF TiposPaginas, SinCarga, Pedida

LEMMA CargarTipos ==
  ASSUME CartaTipos, NEW p \in Paginas,
         PedirCarga(p) \/ LeerCarga(p) \/ RecibirCarga(p)
  PROVE  TiposPaginas'
<1> USE DEF CartaTipos
<1>1. CASE PedirCarga(p)
  BY <1>1 DEF TiposPaginas, PedirCarga
<1>2. CASE LeerCarga(p)
  <2>1. [fase |-> "leida", lista |-> Mostrados] \in [fase : {"leida"}, lista : Listas]
    BY MostradosTipo
  <2>2. carga' \in [Paginas ->
          {SinCarga, Pedida} \cup [fase : {"leida"}, lista : Listas]]
    BY <1>2, <2>1 DEF TiposPaginas, LeerCarga
  <2> QED BY <1>2, <2>2 DEF TiposPaginas, LeerCarga
<1>3. CASE RecibirCarga(p)
  <2>1. carga[p].lista \in Listas
    BY <1>3, CargaTipo DEF RecibirCarga
  <2>2. lista' \in [Paginas -> Listas]
    BY <1>3, <2>1 DEF TiposPaginas, RecibirCarga
  <2> QED BY <1>3, <2>2 DEF TiposPaginas, RecibirCarga
<1> QED BY <1>1, <1>2, <1>3

LEMMA CambioTipos ==
  ASSUME CartaTipos, NEW p \in Paginas, NEW i \in Platos, CambiarDisponibilidad(p, i)
  PROVE  TiposPaginas'
<1>1. plato'[i].version \in Nat
  BY CambiarTipos DEF CartaTipos, TiposRows, Renglones
<1>2. cambio' \in [Paginas -> {SinCambio} \cup [plato : Platos, version : Nat]]
  BY <1>1 DEF CambiarDisponibilidad, CartaTipos, TiposPaginas
<1> QED BY <1>2 DEF CambiarDisponibilidad, CartaTipos, TiposPaginas

\* A version without its content is still a version.
LEMMA RecibirCambioHace ==
  ASSUME CartaTipos, NEW p \in Paginas, RecibirCambio(p)
  PROVE  /\ TiposPaginas'
         /\ \A q \in Paginas, j \in Platos :
              \/ lista'[q][j] = lista[q][j]
              \/ lista'[q][j].propia = FALSE
<1> DEFINE i == cambio[p].plato
           f == Ficha(lista[p][i].contenido, cambio[p].version, FALSE)
<1>1. i \in Platos /\ cambio[p].version \in Nat
  BY DEF RecibirCambio, CartaTipos, TiposPaginas
<1>2. CASE UNCHANGED lista
  BY <1>2 DEF RecibirCambio, CartaTipos, TiposPaginas
<1>3. CASE lista[p][i] # NoHay /\ lista' = [lista EXCEPT ![p][i] = f]
  <2>1. lista[p] \in Listas
    BY DEF CartaTipos, TiposPaginas
  <2>2. lista[p][i] \in Fichas
    BY <1>1, <1>3, <2>1 DEF Listas
  <2>3. f \in Fichas /\ f.propia = FALSE
    BY <1>1, <2>2 DEF Fichas, Ficha
  <2> HIDE DEF f, i
  <2>4. \A q \in Paginas : lista'[q] =
          IF q = p THEN [lista[p] EXCEPT ![i] = f] ELSE lista[q]
    BY <1>3 DEF CartaTipos, TiposPaginas
  <2>5. [lista[p] EXCEPT ![i] = f] \in Listas
    BY <2>1, <2>3 DEF Listas
  <2>6. lista' \in [Paginas -> Listas]
    BY <1>3, <2>5 DEF CartaTipos, TiposPaginas
  <2>7. \A q \in Paginas, j \in Platos :
          lista'[q][j] = lista[q][j] \/ lista'[q][j].propia = FALSE
    BY <2>1, <2>3, <2>4 DEF Listas
  <2> QED BY <2>6, <2>7 DEF RecibirCambio, CartaTipos, TiposPaginas
<1> QED BY <1>2, <1>3 DEF RecibirCambio

LEMMA FormularioTipos ==
  ASSUME CartaTipos, NEW p \in Paginas,
         \/ CerrarFormulario(p) \/ LeerPlato(p)
         \/ \E i \in Platos : AbrirFormulario(p, i)
  PROVE  TiposPaginas'
<1> USE DEF CartaTipos
<1>0. SinFormulario.fase = "cerrado"
  BY DEF SinFormulario
<1>1. CASE CerrarFormulario(p)
  BY <1>0, <1>1 DEF TiposPaginas, CerrarFormulario
<1>2. CASE LeerPlato(p)
  <2>1. formulario[p] \in [fase : {"abierto", "leido"}, plato : Platos,
                           ficha : Fichas \cup {NoHay}]
    BY <1>0, <1>2 DEF TiposPaginas, LeerPlato
  <2>2. formulario[p].ficha # NoHay
    BY <1>2 DEF TiposPaginas, LeerPlato
  <2>3. [formulario[p] EXCEPT !.fase = "leido"] \in
          [fase : {"abierto", "leido"}, plato : Platos, ficha : Fichas \cup {NoHay}]
    BY <2>1
  <2> QED BY <1>2, <2>1, <2>2, <2>3 DEF TiposPaginas, LeerPlato
<1>3. ASSUME NEW i \in Platos, AbrirFormulario(p, i) PROVE TiposPaginas'
  <2>1. lista[p][i] \in Fichas \cup {NoHay} /\ lista[p][i] # NoHay
    BY <1>3 DEF TiposPaginas, AbrirFormulario, Listas
  <2> QED BY <1>0, <1>3, <2>1 DEF TiposPaginas, AbrirFormulario
<1> QED BY <1>1, <1>2, <1>3

LEMMA GuardarTiposPaginas ==
  ASSUME CartaTipos, NEW p \in Paginas, GuardarPlato(p)
  PROVE  TiposPaginas'
<1>1. SinFormulario.fase = "cerrado"
  BY DEF SinFormulario
<1>2. carga' \in [Paginas -> {SinCarga, Pedida} \cup [fase : {"leida"}, lista : Listas]]
  BY DEF GuardarPlato, CartaTipos, TiposPaginas
<1> QED BY <1>1, <1>2 DEF GuardarPlato, CartaTipos, TiposPaginas

-----------------------------------------------------------------------------
(* The types, of every step *)

LEMMA TiposPaso ==
  ASSUME CartaTipos, [CartaNext]_cartaVars
  PROVE  CartaTipos'
<1> USE DEF CartaTipos
<1>1. ASSUME NEW x \in Escrituras, NEW i \in Platos, NEW s \in Secciones,
             EmpezarEscritura(x, i, s)
      PROVE  CartaTipos'
  <2>1. UNCHANGED paginaVars
    BY <1>1 DEF EmpezarEscritura
  <2>2. TiposRows'
    BY <1>1, EmpezarTipos
  <2>3. TiposPaginas'
    BY <2>1, PaginasQuietas
  <2> QED BY <2>2, <2>3
<1>2. ASSUME NEW x \in Escrituras, TerminarEscritura(x)
      PROVE  CartaTipos'
  BY <1>2, TerminarTipos, PaginasQuietas DEF TerminarEscritura
<1>3. ASSUME NEW x \in Escrituras, AbortarEscritura(x)
      PROVE  CartaTipos'
  BY <1>3, CategoriasTipos, PaginasQuietas DEF AbortarEscritura
<1>4. ASSUME NEW s \in Secciones,
             \/ ContarActivos(s) \/ ArchivarSeccion(s)
             \/ RestaurarSeccion(s) \/ EliminarSeccion(s)
      PROVE  CartaTipos'
  <2>1. UNCHANGED paginaVars
    BY <1>4 DEF ContarActivos, ArchivarSeccion, RestaurarSeccion, EliminarSeccion
  <2> QED BY <1>4, <2>1, CategoriasTipos, PaginasQuietas
<1>5. ASSUME NEW i \in Platos, ArchivarPlato(i) \/ EliminarPlato(i)
      PROVE  CartaTipos'
  BY <1>5, PlatosTipos, RetirarTipos DEF ArchivarPlato, EliminarPlato
<1>6. ASSUME NEW i \in Platos, OtroEscribe(i)
      PROVE  CartaTipos'
  BY <1>6, PlatosTipos, PaginasQuietas DEF OtroEscribe
<1>7. ASSUME NEW p \in Paginas,
             PedirCarga(p) \/ LeerCarga(p) \/ RecibirCarga(p)
      PROVE  CartaTipos'
  BY <1>7, PaginaSolaTipos, CargarTipos
<1>8. ASSUME NEW p \in Paginas, RecibirCambio(p)
      PROVE  CartaTipos'
  BY <1>8, PaginaSolaTipos, RecibirCambioHace
<1>9. ASSUME NEW p \in Paginas,
             \/ CerrarFormulario(p) \/ LeerPlato(p)
             \/ \E i \in Platos : AbrirFormulario(p, i)
      PROVE  CartaTipos'
  BY <1>9, PaginaSolaTipos, FormularioTipos
<1>10. ASSUME NEW p \in Paginas, GuardarPlato(p)
       PROVE  CartaTipos'
  BY <1>10, GuardarTipos, GuardarTiposPaginas
<1>11. ASSUME NEW p \in Paginas, NEW i \in Platos, CambiarDisponibilidad(p, i)
       PROVE  CartaTipos'
  BY <1>11, CambiarTipos, CambioTipos
<1>12. CASE UNCHANGED cartaVars
  BY <1>12, PaginasQuietas DEF cartaVars, rowVars, TiposRows
<1> QED BY <1>1, <1>2, <1>3, <1>4, <1>5, <1>6, <1>7, <1>8, <1>9, <1>10, <1>11, <1>12
        DEF CartaNext

\* Every row, page, form and pending write of the menu has its type
\* (menu-admin.service.ts, admin/menu/page.tsx).
THEOREM TiposDeLaCarta == CartaSpec => []CartaTipos
<1>1. CartaInit => CartaTipos
  BY CartaInicioTipos
<1>2. CartaTipos /\ [CartaNext]_cartaVars => CartaTipos'
  BY TiposPaso
<1> QED BY <1>1, <1>2, PTL DEF CartaSpec

-----------------------------------------------------------------------------
(* What a form knows *)

\* A ficha that is true of a row is true of what comes after it.
LEMMA FielSigue ==
  ASSUME NEW f \in Fichas \cup {NoHay}, NEW r \in Renglones, NEW q \in Renglones,
         Fiel(f, r), Sigue(r, q)
  PROVE  Fiel(f, q)
BY DEF Fiel, Sigue, Fichas, Renglones

\* Whatever is written, what the pages held and keep is still true.
LEMMA FielesSiguen ==
  ASSUME CartaTipos, CartaTipos', FichasFieles, FilasSiguen
  PROVE  /\ \A p \in Paginas, i \in Platos : Fiel(lista[p][i], plato'[i])
         /\ \A p \in Paginas : carga[p].fase = "leida" =>
              \A i \in Platos : Fiel(carga[p].lista[i], plato'[i])
         /\ \A p \in Paginas : formulario[p].fase # "cerrado" =>
              Fiel(formulario[p].ficha, plato'[formulario[p].plato])
<1>1. \A i \in Platos : /\ plato[i] \in Renglones /\ plato'[i] \in Renglones
                        /\ Sigue(plato[i], plato'[i])
  BY DEF CartaTipos, TiposRows, FilasSiguen
<1>2. ASSUME NEW p \in Paginas, NEW i \in Platos
      PROVE  Fiel(lista[p][i], plato'[i])
  <2>1. lista[p][i] \in Fichas \cup {NoHay}
    BY DEF CartaTipos, TiposPaginas, Listas
  <2> QED BY <1>1, <2>1, FielSigue DEF FichasFieles
<1>3. ASSUME NEW p \in Paginas, carga[p].fase = "leida", NEW i \in Platos
      PROVE  Fiel(carga[p].lista[i], plato'[i])
  <2>1. carga[p].lista[i] \in Fichas \cup {NoHay}
    BY <1>3, CargaTipo DEF CartaTipos, Listas
  <2> QED BY <1>1, <1>3, <2>1, FielSigue DEF FichasFieles
<1>4. ASSUME NEW p \in Paginas, formulario[p].fase # "cerrado"
      PROVE  Fiel(formulario[p].ficha, plato'[formulario[p].plato])
  <2>1. formulario[p].plato \in Platos /\ formulario[p].ficha \in Fichas
    BY <1>4, FormularioTipo DEF CartaTipos
  <2> QED BY <1>1, <1>4, <2>1, FielSigue DEF FichasFieles
<1> QED BY <1>2, <1>3, <1>4

\* What is read of the rows is true of them.
LEMMA MostradosFieles ==
  ASSUME TiposRows, NEW i \in Platos
  PROVE  Fiel(Mostrados[i], plato[i])
<1>1. plato[i].version \in Nat
  BY DEF TiposRows, Renglones
<1> QED BY <1>1 DEF Mostrados, Fiel, Ficha

\* A step after which the pages hold no more than they did.
LEMMA MenosFichas ==
  ASSUME CartaTipos, CartaTipos', FichasFieles, FilasSiguen,
         \A p \in Paginas, i \in Platos :
           lista'[p][i] = lista[p][i] \/ lista'[p][i] = NoHay \/ lista'[p][i].propia = FALSE,
         \A p \in Paginas : carga'[p].fase = "leida" => carga'[p] = carga[p],
         \A p \in Paginas : formulario'[p].fase # "cerrado" =>
           /\ formulario[p].fase # "cerrado"
           /\ formulario'[p].ficha = formulario[p].ficha
           /\ formulario'[p].plato = formulario[p].plato
  PROVE  FichasFieles'
<1>1. \A p \in Paginas, i \in Platos : Fiel(lista'[p][i], plato'[i])
  BY FielesSiguen DEF Fiel
<1>2. \A p \in Paginas : carga'[p].fase = "leida" =>
        \A i \in Platos : Fiel(carga'[p].lista[i], plato'[i])
  BY FielesSiguen
<1>3. \A p \in Paginas : formulario'[p].fase # "cerrado" =>
        Fiel(formulario'[p].ficha, plato'[formulario'[p].plato])
  BY FielesSiguen
<1> QED BY <1>1, <1>2, <1>3 DEF FichasFieles

\* The form that wrote is closed, and its page asks for the menu again.
LEMMA GuardarFiel ==
  ASSUME CartaTipos, CartaTipos', PaginasInv, NEW p \in Paginas, GuardarPlato(p)
  PROVE  PaginasInv'
<1> DEFINE f == formulario[p]
           i == f.plato
<1>1. i \in Platos /\ f.ficha \in Fichas /\ f.ficha # NoHay
  BY FormularioTipo DEF GuardarPlato, CartaTipos, TiposPaginas
<1>2. FichasFieles'
  <2>1. Pedida.fase = "pedida" /\ SinFormulario.fase = "cerrado"
    BY DEF Pedida, SinFormulario
  <2>2. \A q \in Paginas : carga'[q].fase = "leida" => carga'[q] = carga[q]
    BY <2>1 DEF GuardarPlato, CartaTipos, TiposPaginas
  <2>3. \A q \in Paginas : formulario'[q].fase # "cerrado" => formulario'[q] = formulario[q]
    BY <2>1 DEF GuardarPlato, CartaTipos, TiposPaginas
  <2>4. UNCHANGED lista /\ FilasSiguen
    BY GuardarTipos DEF GuardarPlato
  <2> QED BY <2>2, <2>3, <2>4, MenosFichas DEF PaginasInv
<1>3. EdicionSinPisar'
  <2>1. CASE UNCHANGED pisado
    BY <2>1 DEF PaginasInv, EdicionSinPisar
  <2>2. CASE /\ EsLaDelFormulario(i, f)
             /\ plato[i].contenido \notin {f.ficha.contenido} \cup (Nat \X {p})
             /\ pisado' = pisado \cup {IF f.ficha.propia THEN "cargada" ELSE "switch"}
    <3>1. Fiel(f.ficha, plato[i])
      BY DEF PaginasInv, FichasFieles, GuardarPlato
    <3>2. ~ f.ficha.propia
      BY <1>1, <2>2, <3>1 DEF EsLaDelFormulario, Fiel
    <3> QED BY <2>2, <3>2 DEF PaginasInv, EdicionSinPisar
  <2> QED BY <2>1, <2>2 DEF GuardarPlato
<1> QED BY <1>2, <1>3 DEF PaginasInv

\* What a page does besides.
LEMMA PaginaSolaFiel ==
  ASSUME CartaTipos, CartaTipos', PaginasInv, NEW p \in Paginas,
         \/ PedirCarga(p) \/ LeerCarga(p) \/ RecibirCarga(p) \/ RecibirCambio(p)
         \/ CerrarFormulario(p) \/ LeerPlato(p)
         \/ \E i \in Platos : AbrirFormulario(p, i)
  PROVE  PaginasInv'
<1>1. UNCHANGED <<plato, pisado>> /\ FilasSiguen
  BY PaginaSolaTipos, QuietasSiguen DEF CartaTipos
<1>2. EdicionSinPisar'
  BY <1>1 DEF PaginasInv, EdicionSinPisar
<1>3. Pedida.fase = "pedida" /\ SinFormulario.fase = "cerrado" /\ SinCarga.fase = "nada"
  BY DEF Pedida, SinFormulario, SinCarga
<1> USE DEF PaginasInv
<1>4. CASE PedirCarga(p)
  <2>1. \A q \in Paginas : carga'[q].fase = "leida" => carga'[q] = carga[q]
    BY <1>3, <1>4 DEF PedirCarga, CartaTipos, TiposPaginas
  <2>2. UNCHANGED <<lista, formulario>>
    BY <1>4 DEF PedirCarga
  <2> QED BY <1>1, <1>2, <2>1, <2>2, MenosFichas
<1>5. CASE LeerCarga(p)
  <2>1. \A q \in Paginas : carga'[q].fase = "leida" =>
          carga'[q] = carga[q] \/ carga'[q].lista = Mostrados
    BY <1>5 DEF LeerCarga, CartaTipos, TiposPaginas
  <2>2. \A i \in Platos : Fiel(Mostrados[i], plato'[i])
    BY <1>1, MostradosFieles DEF CartaTipos
  <2>3. \A q \in Paginas : carga'[q].fase = "leida" =>
          \A i \in Platos : Fiel(carga'[q].lista[i], plato'[i])
    BY <2>1, <2>2, FielesSiguen, <1>1
  <2>4. UNCHANGED <<lista, formulario>>
    BY <1>5 DEF LeerCarga
  <2> QED BY <1>1, <1>2, <2>3, <2>4 DEF FichasFieles
<1>6. CASE RecibirCarga(p)
  <2>1. \A q \in Paginas : carga'[q].fase = "leida" => carga'[q] = carga[q]
    BY <1>3, <1>6 DEF RecibirCarga, CartaTipos, TiposPaginas
  <2>2. \A q \in Paginas :
          lista'[q] = lista[q] \/ (carga[q].fase = "leida" /\ lista'[q] = carga[q].lista)
    BY <1>6 DEF RecibirCarga, CartaTipos, TiposPaginas
  <2>3. \A q \in Paginas, i \in Platos : Fiel(lista'[q][i], plato'[i])
    BY <1>1, <2>2 DEF FichasFieles
  <2>4. UNCHANGED formulario
    BY <1>6 DEF RecibirCarga
  <2> QED BY <1>1, <1>2, <2>1, <2>3, <2>4 DEF FichasFieles
<1>7. CASE RecibirCambio(p)
  <2>1. UNCHANGED <<carga, formulario>>
    BY <1>7 DEF RecibirCambio
  <2> QED BY <1>1, <1>2, <1>7, <2>1, RecibirCambioHace, MenosFichas
<1>8. CASE CerrarFormulario(p)
  BY <1>1, <1>2, <1>3, <1>8, MenosFichas DEF CerrarFormulario, CartaTipos, TiposPaginas
<1>9. CASE LeerPlato(p)
  <2>1. \A q \in Paginas : /\ formulario'[q].ficha = formulario[q].ficha
                           /\ formulario'[q].plato = formulario[q].plato
                           /\ formulario[q].fase = "cerrado" => formulario'[q].fase = "cerrado"
    <3>1. formulario[p].fase = "abierto"
      BY <1>9 DEF LeerPlato
    <3>2. formulario[p] \in [fase : {"abierto", "leido"}, plato : Platos,
                             ficha : Fichas \cup {NoHay}]
      BY <1>3, <3>1 DEF CartaTipos, TiposPaginas
    <3>3. \A q \in Paginas : formulario'[q] =
            IF q = p THEN [formulario[p] EXCEPT !.fase = "leido"] ELSE formulario[q]
      BY <1>9 DEF LeerPlato, CartaTipos, TiposPaginas
    <3> QED BY <3>1, <3>2, <3>3
  <2>2. UNCHANGED <<lista, carga>>
    BY <1>9 DEF LeerPlato
  <2> QED BY <1>1, <1>2, <2>1, <2>2, MenosFichas
<1>10. ASSUME NEW i \in Platos, AbrirFormulario(p, i) PROVE PaginasInv'
  <2>1. \A q \in Paginas : formulario'[q].fase # "cerrado" =>
          \/ formulario'[q] = formulario[q]
          \/ formulario'[q].plato = i /\ formulario'[q].ficha = lista[q][i]
    BY <1>10 DEF AbrirFormulario, CartaTipos, TiposPaginas
  <2>2. UNCHANGED <<lista, carga>>
    BY <1>10 DEF AbrirFormulario
  <2> QED BY <1>1, <1>2, <2>1, <2>2 DEF FichasFieles
<1> QED BY <1>4, <1>5, <1>6, <1>7, <1>8, <1>9, <1>10

\* The steps that write rows, and put nothing in a page.
LEMMA FilasFiel ==
  ASSUME CartaTipos, CartaTipos', PaginasInv, FilasSiguen,
         UNCHANGED <<carga, formulario, pisado>>,
         UNCHANGED lista \/ \E i \in Platos : Retirar(i)
  PROVE  PaginasInv'
<1>1. EdicionSinPisar'
  BY DEF PaginasInv, EdicionSinPisar
<1>2. \A p \in Paginas, j \in Platos : lista'[p][j] = lista[p][j] \/ lista'[p][j] = NoHay
  <2>1. ASSUME NEW i \in Platos, Retirar(i), NEW p \in Paginas, NEW j \in Platos
        PROVE  lista'[p][j] = lista[p][j] \/ lista'[p][j] = NoHay
    BY <2>1 DEF Retirar, CartaTipos, TiposPaginas, Listas
  <2> QED BY <2>1
<1> QED BY <1>1, <1>2, MenosFichas DEF PaginasInv

LEMMA PaginasInvPaso ==
  ASSUME CartaTipos, CartaTipos', PaginasInv, [CartaNext]_cartaVars
  PROVE  PaginasInv'
<1>1. ASSUME NEW x \in Escrituras,
             \/ \E i \in Platos, s \in Secciones : EmpezarEscritura(x, i, s)
             \/ TerminarEscritura(x) \/ AbortarEscritura(x)
      PROVE  PaginasInv'
  <2>1. FilasSiguen
    <3>1. CASE TerminarEscritura(x)
      <4>1. PICK i \in Platos, r \in Renglones :
              plato' = Con(i, r) /\ r.version = plato[i].version
        BY <3>1, TerminarTipos DEF CartaTipos
      <4> QED BY <4>1, EscritaSigue DEF CartaTipos
    <3>2. CASE UNCHANGED plato
      BY <3>2, QuietasSiguen DEF CartaTipos
    <3> QED BY <1>1, <3>1, <3>2 DEF EmpezarEscritura, AbortarEscritura
  <2>2. UNCHANGED <<paginaVars, pisado>>
    BY <1>1 DEF EmpezarEscritura, TerminarEscritura, AbortarEscritura
  <2> QED BY <2>1, <2>2, FilasFiel DEF paginaVars
<1>2. ASSUME NEW s \in Secciones,
             \/ ContarActivos(s) \/ ArchivarSeccion(s)
             \/ RestaurarSeccion(s) \/ EliminarSeccion(s)
      PROVE  PaginasInv'
  <2>1. UNCHANGED <<paginaVars, pisado>>
    BY <1>2 DEF ContarActivos, ArchivarSeccion, RestaurarSeccion, EliminarSeccion
  <2>2. FilasSiguen
    BY <1>2, CategoriasTipos DEF CartaTipos
  <2> QED BY <2>1, <2>2, FilasFiel DEF paginaVars
<1>3. ASSUME NEW i \in Platos, ArchivarPlato(i) \/ EliminarPlato(i) \/ OtroEscribe(i)
      PROVE  PaginasInv'
  <2>1. FilasSiguen
    BY <1>3, PlatosTipos DEF CartaTipos
  <2>2. /\ UNCHANGED <<carga, formulario, pisado>>
        /\ UNCHANGED lista \/ Retirar(i)
    BY <1>3 DEF ArchivarPlato, EliminarPlato, OtroEscribe, paginaVars
  <2> QED BY <2>1, <2>2, FilasFiel
<1>4. ASSUME NEW p \in Paginas, NEW i \in Platos, CambiarDisponibilidad(p, i)
      PROVE  PaginasInv'
  BY <1>4, CambiarTipos, FilasFiel DEF CambiarDisponibilidad, CartaTipos
<1>5. ASSUME NEW p \in Paginas, GuardarPlato(p) PROVE PaginasInv'
  BY <1>5, GuardarFiel
<1>6. CASE UNCHANGED cartaVars
  BY <1>6, QuietasSiguen, FilasFiel DEF cartaVars, rowVars, paginaVars, CartaTipos
<1> QED BY <1>1, <1>2, <1>3, <1>4, <1>5, <1>6, PaginaSolaFiel DEF CartaNext

LEMMA PaginasInicio == CartaInit => PaginasInv
<1>1. SinCarga.fase = "nada" /\ SinFormulario.fase = "cerrado"
  BY DEF SinCarga, SinFormulario
<1> SUFFICES ASSUME CartaInit PROVE PaginasInv
  OBVIOUS
<1>2. \A p \in Paginas, i \in Platos : lista[p][i] = NoHay
  BY DEF CartaInit
<1>3. \A p \in Paginas : carga[p].fase = "nada" /\ formulario[p].fase = "cerrado"
  BY <1>1 DEF CartaInit
<1>4. FichasFieles
  BY <1>2, <1>3 DEF FichasFieles, Fiel
<1>5. EdicionSinPisar
  BY DEF CartaInit, EdicionSinPisar
<1> QED BY <1>4, <1>5 DEF PaginasInv

\* A form whose version came with its content never writes over an edit that
\* it did not show: whatever others wrote, between its read and its write too.
THEOREM NoPisaLoAjeno == CartaSpec => []EdicionSinPisar
<1>1. CartaInit => PaginasInv
  BY PaginasInicio
<1>2. CartaTipos /\ CartaTipos' /\ PaginasInv /\ [CartaNext]_cartaVars => PaginasInv'
  BY PaginasInvPaso
<1>3. PaginasInv => EdicionSinPisar
  BY DEF PaginasInv
<1> QED BY <1>1, <1>2, <1>3, TiposDeLaCarta, PTL DEF CartaSpec

-----------------------------------------------------------------------------
(* What comes into a category *)

LEMMA SeccionesInicio == CartaInit => SeccionesInv
<1> SUFFICES ASSUME CartaInit PROVE SeccionesInv
  OBVIOUS
<1>1. \A x \in Escrituras : escritura[x].que = "nada"
  BY SinEscrituraHace DEF CartaInit
<1>2. \A s \in Secciones : seccion[s] # "archivada"
  BY DEF CartaInit
<1>3. archivando = {}
  BY DEF CartaInit
<1> QED BY <1>1, <1>2, <1>3 DEF SeccionesInv, DestinosAbiertos, DeAUno, SinMudanza,
                                CuentaVigente, ArchivadaSinActivos

\* No item changes its category, or becomes active.
NadieEntra ==
  \A i \in Platos : /\ plato'[i].en = plato[i].en
                    /\ plato'[i].estado = "activo" => plato[i].estado = "activo"

LEMMA NadieEntraMenos ==
  ASSUME NadieEntra, NEW s \in Secciones, Activos(s) = {}
  PROVE  Activos(s)' = {}
BY DEF NadieEntra, Activos

LEMMA SinEntradas ==
  ASSUME CartaTipos, SeccionesInv, NadieEntra,
         UNCHANGED <<escritura, archivando, seccion, cruzadas>>
  PROVE  SeccionesInv'
<1> USE DEF SeccionesInv
<1>1. DestinosAbiertos' /\ DeAUno'
  BY DEF DestinosAbiertos, DeAUno
<1>2. SinMudanza'
  <2>1. ASSUME NEW x \in Escrituras, escritura[x].que = "restaurar"
        PROVE  plato'[escritura[x].plato].en \in {escritura[x].en} \cup cruzadas
    BY <2>1, EscrituraTipo DEF NadieEntra, SinMudanza, CartaTipos
  <2> QED BY <2>1 DEF SinMudanza
<1>3. CuentaVigente' /\ ArchivadaSinActivos'
  BY NadieEntraMenos DEF CuentaVigente, ArchivadaSinActivos, CartaTipos, TiposRows
<1> QED BY <1>1, <1>2, <1>3

\* A write of a row that keeps its category, and does not make it active.
LEMMA EscritaNoEntra ==
  ASSUME TiposRows, NEW i \in Platos, NEW r \in Renglones, plato' = Con(i, r),
         r.en = plato[i].en, r.estado = "activo" => plato[i].estado = "activo"
  PROVE  NadieEntra
<1>1. plato'[i] = [r EXCEPT !.version = @ + 1]
  BY ConHace
<1>2. plato'[i].en = plato[i].en /\ plato'[i].estado = r.estado
  BY <1>1 DEF Renglones
<1>3. \A j \in Platos \ {i} : plato'[j] = plato[j]
  BY DEF TiposRows, Con
<1> QED BY <1>2, <1>3 DEF NadieEntra

\* A write that begins: the category is active, and if others are about the
\* same item, all of them go to the history.
LEMMA EmpezarSecciones ==
  ASSUME CartaTipos, SeccionesInv, NEW x \in Escrituras, NEW i \in Platos,
         NEW s \in Secciones, EmpezarEscritura(x, i, s)
  PROVE  SeccionesInv'
<1> USE DEF SeccionesInv
<1>1. /\ UNCHANGED <<plato, seccion, archivando>>
      /\ cruzadas \subseteq cruzadas' /\ {s} \cap archivando \subseteq cruzadas'
      /\ seccion[s] = "activa"
  BY DEF EmpezarEscritura
<1>2. /\ escritura'[x].plato = i /\ escritura'[x].en = s /\ escritura'[x].que # "nada"
      /\ escritura'[x].que = "restaurar" => plato[i].en = s
      /\ \A y \in Escrituras \ {x} : escritura'[y] = escritura[y]
  BY DEF EmpezarEscritura, CartaTipos, TiposRows
<1>3. EscriturasDe(i) # {} => s \in cruzadas' /\ \A o \in EscriturasDe(i) : escritura[o].en \in cruzadas'
  BY DEF EmpezarEscritura
<1>4. DestinosAbiertos'
  BY <1>1, <1>2 DEF DestinosAbiertos
<1>5. DeAUno'
  <2> SUFFICES ASSUME NEW y \in Escrituras, NEW o \in Escrituras, y # o,
                      escritura'[y].que # "nada",
                      escritura'[o].plato = escritura'[y].plato
               PROVE  escritura'[y].en \in cruzadas'
    BY DEF DeAUno
  <2>1. CASE y = x
    BY <1>2, <1>3, <2>1 DEF EscriturasDe
  <2>2. CASE o = x
    BY <1>2, <1>3, <2>2 DEF EscriturasDe
  <2>3. CASE y # x /\ o # x
    BY <1>1, <1>2, <2>3 DEF DeAUno
  <2> QED BY <2>1, <2>2, <2>3
<1>6. SinMudanza'
  BY <1>1, <1>2 DEF SinMudanza
<1>7. CuentaVigente' /\ ArchivadaSinActivos'
  BY <1>1 DEF CuentaVigente, ArchivadaSinActivos, Activos
<1> QED BY <1>4, <1>5, <1>6, <1>7

\* A write that ends.  Where its item becomes active is in the history, or
\* nobody archives it.
LEMMA TerminarSecciones ==
  ASSUME CartaTipos, SeccionesInv, NEW x \in Escrituras, TerminarEscritura(x)
  PROVE  SeccionesInv'
<1> DEFINE i == escritura[x].plato
           s == escritura[x].en
<1> USE DEF SeccionesInv
<1>1. i \in Platos /\ s \in Secciones /\ escritura[x].que # "nada"
  BY EscrituraTipo DEF TerminarEscritura, CartaTipos
<1>2. /\ UNCHANGED <<seccion, archivando, cruzadas>>
      /\ escritura'[x].que = "nada" /\ escritura'[x].plato = NoHay
      /\ \A y \in Escrituras \ {x} : escritura'[y] = escritura[y]
  BY SinEscrituraHace DEF TerminarEscritura, CartaTipos, TiposRows
<1>3. \A j \in Platos \ {i} : plato'[j] = plato[j]
  BY <1>1 DEF TerminarEscritura, CartaTipos, TiposRows, Con
<1>4. plato'[i].en = s \/ (plato'[i].en = plato[i].en /\ escritura[x].que = "restaurar")
  <2>1. plato[i] \in Renglones
    BY <1>1 DEF CartaTipos, TiposRows
  <2>2. PICK r \in Renglones :
          /\ plato' = Con(i, r)
          /\ r.en = s \/ (r.en = plato[i].en /\ escritura[x].que = "restaurar")
    <3> DEFINE r1 == [plato[i] EXCEPT !.estado = "activo", !.en = s]
               r2 == [plato[i] EXCEPT !.estado = "activo"]
               r3 == [plato[i] EXCEPT !.en = s]
    <3>1. /\ r1 \in Renglones /\ r1.en = s
          /\ r2 \in Renglones /\ r2.en = plato[i].en
          /\ r3 \in Renglones /\ r3.en = s
      BY <1>1, <2>1 DEF Renglones
    <3>2. \/ plato' = Con(i, r1)
          \/ plato' = Con(i, r2) /\ escritura[x].que = "restaurar"
          \/ plato' = Con(i, r3)
      BY DEF TerminarEscritura
    <3> HIDE DEF r1, r2, r3, i, s
    <3> QED BY <3>1, <3>2
  <2>3. plato'[i] = [r EXCEPT !.version = @ + 1]
    BY <1>1, <2>2, ConHace DEF CartaTipos
  <2> QED BY <2>2, <2>3 DEF Renglones
<1> HIDE DEF i, s
<1>5. plato'[i].en \in {s} \cup cruzadas
  BY <1>4 DEF SinMudanza, i, s
<1>6. s \in cruzadas \/ (s \notin archivando /\ seccion[s] # "archivada")
  BY <1>1 DEF DestinosAbiertos, i, s
<1>7. DestinosAbiertos'
  BY <1>2 DEF DestinosAbiertos
<1>8. DeAUno'
  <2> SUFFICES ASSUME NEW y \in Escrituras, NEW o \in Escrituras, y # o,
                      escritura'[y].que # "nada",
                      escritura'[o].plato = escritura'[y].plato
               PROVE  escritura'[y].en \in cruzadas'
    BY DEF DeAUno
  <2>1. y # x /\ escritura'[y] = escritura[y]
    BY <1>2
  <2>2. escritura[y].plato \in Platos
    BY <2>1, EscrituraTipo DEF CartaTipos
  <2>3. o # x
    BY <1>2, <2>1, <2>2, CartaAssumption
  <2> QED BY <1>2, <2>1, <2>3 DEF DeAUno
<1>9. SinMudanza'
  <2> SUFFICES ASSUME NEW y \in Escrituras, escritura'[y].que = "restaurar"
               PROVE  plato'[escritura'[y].plato].en \in {escritura'[y].en} \cup cruzadas'
    BY DEF SinMudanza
  <2>1. y # x /\ escritura'[y] = escritura[y]
    BY <1>2
  <2>2. escritura[y].plato \in Platos
    BY <2>1, EscrituraTipo DEF CartaTipos
  <2>3. CASE escritura[y].plato = i
    \* The other one is about the same item: both are in the history.
    <3>1. s \in cruzadas
      BY <1>1, <2>1, <2>3 DEF DeAUno, i, s
    <3> QED BY <1>2, <1>5, <2>1, <2>3, <3>1
  <2>4. CASE escritura[y].plato # i
    BY <1>2, <1>3, <2>1, <2>2, <2>4 DEF SinMudanza
  <2> QED BY <2>3, <2>4
<1>10. \A t \in Secciones \ cruzadas :
         Activos(t) = {} /\ (t \in archivando \/ seccion[t] = "archivada") => Activos(t)' = {}
  BY <1>3, <1>5, <1>6 DEF Activos
<1> QED BY <1>2, <1>7, <1>8, <1>9, <1>10
        DEF CuentaVigente, ArchivadaSinActivos, CartaTipos, TiposRows

\* A write that is rolled back.
LEMMA AbortarSecciones ==
  ASSUME CartaTipos, SeccionesInv, NEW x \in Escrituras, AbortarEscritura(x)
  PROVE  SeccionesInv'
<1> USE DEF SeccionesInv
<1>1. /\ UNCHANGED <<plato, seccion, archivando, cruzadas>>
      /\ escritura'[x].que = "nada" /\ escritura'[x].plato = NoHay
      /\ \A y \in Escrituras \ {x} : escritura'[y] = escritura[y]
  BY SinEscrituraHace DEF AbortarEscritura, CartaTipos, TiposRows
<1>2. DestinosAbiertos' /\ SinMudanza'
  BY <1>1 DEF DestinosAbiertos, SinMudanza
<1>3. DeAUno'
  <2> SUFFICES ASSUME NEW y \in Escrituras, NEW o \in Escrituras, y # o,
                      escritura'[y].que # "nada",
                      escritura'[o].plato = escritura'[y].plato
               PROVE  escritura'[y].en \in cruzadas'
    BY DEF DeAUno
  <2>1. y # x /\ escritura'[y] = escritura[y]
    BY <1>1
  <2>2. escritura[y].plato \in Platos
    BY <2>1, EscrituraTipo DEF CartaTipos
  <2>3. o # x
    BY <1>1, <2>1, <2>2, CartaAssumption
  <2> QED BY <1>1, <2>1, <2>3 DEF DeAUno
<1>4. CuentaVigente' /\ ArchivadaSinActivos'
  BY <1>1 DEF CuentaVigente, ArchivadaSinActivos, Activos
<1> QED BY <1>2, <1>3, <1>4

\* A category that is counted, archived, restored or deleted.
LEMMA CategoriasSecciones ==
  ASSUME CartaTipos, SeccionesInv, NEW s \in Secciones,
         \/ ContarActivos(s) \/ ArchivarSeccion(s)
         \/ RestaurarSeccion(s) \/ EliminarSeccion(s)
  PROVE  SeccionesInv'
<1> USE DEF SeccionesInv
<1>1. UNCHANGED <<plato, escritura>> /\ cruzadas \subseteq cruzadas'
  BY DEF ContarActivos, ArchivarSeccion, RestaurarSeccion, EliminarSeccion
<1>2. DeAUno' /\ SinMudanza'
  BY <1>1 DEF DeAUno, SinMudanza
<1>3. \A t \in Secciones : Activos(t)' = Activos(t)
  BY <1>1 DEF Activos
<1>4. \A x \in Escrituras : escritura[x].que # "nada" => escritura[x].en \in Secciones
  BY EscrituraTipo DEF CartaTipos
<1>5. CASE ContarActivos(s)
  <2>1. /\ UNCHANGED seccion /\ archivando' = archivando \cup {s}
        /\ \A x \in Escrituras : escritura[x].en = s => s \in cruzadas'
        /\ Activos(s) = {}
    BY <1>5 DEF ContarActivos, SinActivos
  <2>2. DestinosAbiertos'
    BY <1>1, <1>4, <2>1 DEF DestinosAbiertos
  <2> QED BY <1>1, <1>2, <1>3, <2>1, <2>2 DEF CuentaVigente, ArchivadaSinActivos, CartaTipos,
                                              TiposRows
<1>6. CASE ArchivarSeccion(s)
  <2>1. /\ UNCHANGED cruzadas /\ archivando' = archivando \ {s} /\ s \in archivando
        /\ \A t \in Secciones :
             seccion'[t] = seccion[t] \/ (t = s /\ seccion'[t] = "archivada")
    BY <1>6 DEF ArchivarSeccion, CartaTipos, TiposRows
  <2>2. DestinosAbiertos'
    BY <1>1, <1>4, <2>1 DEF DestinosAbiertos
  <2> QED BY <1>1, <1>2, <1>3, <2>1, <2>2 DEF CuentaVigente, ArchivadaSinActivos, CartaTipos,
                                              TiposRows
<1>7. CASE RestaurarSeccion(s) \/ EliminarSeccion(s)
  <2>1. /\ UNCHANGED <<cruzadas, archivando>>
        /\ \A t \in Secciones : seccion'[t] = seccion[t] \/ seccion'[t] # "archivada"
    BY <1>7 DEF RestaurarSeccion, EliminarSeccion, CartaTipos, TiposRows
  <2>2. DestinosAbiertos'
    BY <1>1, <1>4, <2>1 DEF DestinosAbiertos
  <2> QED BY <1>1, <1>2, <1>3, <2>1, <2>2 DEF CuentaVigente, ArchivadaSinActivos, CartaTipos,
                                              TiposRows
<1> QED BY <1>5, <1>6, <1>7

\* The rest puts nothing in a category.
LEMMA OtrosSecciones ==
  ASSUME CartaTipos, SeccionesInv,
         \/ \E i \in Platos : ArchivarPlato(i) \/ EliminarPlato(i) \/ OtroEscribe(i)
         \/ \E p \in Paginas, i \in Platos : CambiarDisponibilidad(p, i)
         \/ \E p \in Paginas : GuardarPlato(p)
         \/ UNCHANGED rowVars
  PROVE  SeccionesInv'
<1>1. UNCHANGED <<escritura, archivando, seccion, cruzadas>>
  BY DEF ArchivarPlato, EliminarPlato, OtroEscribe, CambiarDisponibilidad, GuardarPlato,
         rowVars
<1>2. \A i \in Platos : plato[i] \in Renglones
  BY DEF CartaTipos, TiposRows
<1>3. CASE UNCHANGED plato
  BY <1>1, <1>3, SinEntradas DEF NadieEntra
<1>4. ASSUME NEW i \in Platos, ArchivarPlato(i) PROVE NadieEntra
  <2> DEFINE r == [plato[i] EXCEPT !.estado = "archivado"]
  <2>1. /\ r \in Renglones /\ r.en = plato[i].en /\ r.estado = "archivado"
        /\ plato' = Con(i, r)
    BY <1>2, <1>4 DEF ArchivarPlato, Renglones
  <2> HIDE DEF r
  <2> QED BY <2>1, EscritaNoEntra DEF CartaTipos
<1>5. ASSUME NEW i \in Platos, EliminarPlato(i) PROVE NadieEntra
  <2> SUFFICES ASSUME NEW j \in Platos
               PROVE  /\ plato'[j].en = plato[j].en
                      /\ plato'[j].estado = "activo" => plato[j].estado = "activo"
    BY DEF NadieEntra
  <2>1. CASE j = i
    BY <1>2, <1>5, <2>1 DEF EliminarPlato, CartaTipos, TiposRows, Renglones
  <2>2. CASE j # i
    BY <1>5, <2>2 DEF EliminarPlato, CartaTipos, TiposRows
  <2> QED BY <2>1, <2>2
<1>6. ASSUME NEW i \in Platos,
             OtroEscribe(i) \/ \E p \in Paginas : CambiarDisponibilidad(p, i)
      PROVE  NadieEntra
  BY <1>2, <1>6, EscritaNoEntra DEF OtroEscribe, CambiarDisponibilidad, CartaTipos
<1>7. ASSUME NEW p \in Paginas, GuardarPlato(p), ~ UNCHANGED plato PROVE NadieEntra
  <2> DEFINE i == formulario[p].plato
             r == [plato[i] EXCEPT !.contenido = <<cartaUsado'.escritos, p>>]
  <2>1. i \in Platos
    BY <1>7, FormularioTipo DEF GuardarPlato, CartaTipos
  <2>2. UnEscrito /\ plato' = Con(i, r)
    BY <1>7 DEF GuardarPlato
  <2>3. cartaUsado'.escritos \in Nat
    BY <2>2, UsarHace DEF UnEscrito, CartaTipos
  <2>4. r \in Renglones /\ r.en = plato[i].en /\ r.estado = plato[i].estado
    BY <1>2, <2>1, <2>3 DEF Renglones
  <2> HIDE DEF i, r
  <2> QED BY <2>1, <2>2, <2>4, EscritaNoEntra DEF CartaTipos
<1> QED BY <1>1, <1>3, <1>4, <1>5, <1>6, <1>7, SinEntradas DEF rowVars

LEMMA SeccionesInvPaso ==
  ASSUME CartaTipos, SeccionesInv, [CartaNext]_cartaVars
  PROVE  SeccionesInv'
<1>1. ASSUME NEW p \in Paginas,
             \/ PedirCarga(p) \/ LeerCarga(p) \/ RecibirCarga(p) \/ RecibirCambio(p)
             \/ CerrarFormulario(p) \/ LeerPlato(p)
             \/ \E i \in Platos : AbrirFormulario(p, i)
      PROVE  SeccionesInv'
  BY <1>1, PaginaSolaTipos, OtrosSecciones DEF CartaTipos
<1>2. CASE UNCHANGED cartaVars
  BY <1>2, OtrosSecciones DEF cartaVars
<1> QED BY <1>1, <1>2, EmpezarSecciones, TerminarSecciones, AbortarSecciones,
           CategoriasSecciones, OtrosSecciones DEF CartaNext

\* An archived category has an active item only if something came in while it
\* was being archived, or two writes were about the same item.
THEOREM ArchivadaQuedaVacia == CartaSpec => []ArchivadaSinActivos
<1>1. CartaInit => SeccionesInv
  BY SeccionesInicio
<1>2. CartaTipos /\ SeccionesInv /\ [CartaNext]_cartaVars => SeccionesInv'
  BY SeccionesInvPaso
<1>3. SeccionesInv => ArchivadaSinActivos
  BY DEF SeccionesInv
<1> QED BY <1>1, <1>2, <1>3, TiposDeLaCarta, PTL DEF CartaSpec

-----------------------------------------------------------------------------
(* Resumen: the invariant *)

Cobradas == {"APROBADO", "REEMBOLSADO"}

ConTurno == {"ventas", "platos", "commit"}

UnosCalculos ==
  [paso : {"no", "pedido", "espera"} \cup ConTurno, ventana : SUBSET Horas,
   cuenta : SUBSET Ventas, sirve : SUBSET (Horas \X Comprados)]

ResumenTipos ==
  /\ ahora \in Horas
  /\ venta \in [Ventas ->
       [estado : {"NUEVA", "PENDIENTE", "RECHAZADO"} \cup Cobradas, hora : 0 .. ahora]]
  /\ porHora \in [Horas -> SUBSET Ventas]
  /\ platos \in [Horas -> SUBSET Comprados]
  /\ turno \in Calculistas \cup {SinCandado}
  /\ calculo \in [Calculistas -> UnosCalculos]
  /\ vueltas \in [Jobs -> Nat]
  /\ vista \subseteq Ventas
  /\ retomadas \subseteq Ventas

\* Who has the lock calculates, and nobody else does.
ElDelTurno == \A k \in Calculistas : calculo[k].paso \in ConTurno <=> turno = k

\* Who asked for a calculation, or saw it done, was charged, and its order is
\* paid.
PidioCobrada ==
  \A v \in Ventas : v \in vista \/ calculo[v].paso # "no" =>
    venta[v].estado \in Cobradas /\ CompradoDe[v] \in cerrados

\* What the report promises to count.
Firmes == Aprobadas \ retomadas

\* The window of a payment has its hour, while that is the hour or the one
\* before.
VentanaAlcanza ==
  \A v \in Ventas :
    calculo[v].paso \notin {"no", "pedido"} /\ ahora - venta[v].hora <= 1 =>
      venta[v].hora \in calculo[v].ventana

\* What a calculation has read has what the report shows, and its own.
NoOlvida ==
  \A k \in Calculistas, v \in Ventas :
    /\ v \in Firmes /\ v \in vista \cup {k} /\ venta[v].hora \in calculo[k].ventana =>
         /\ calculo[k].paso \in {"platos", "commit"} => v \in calculo[k].cuenta
         /\ calculo[k].paso = "commit" /\ CobradoUnaVez(v) =>
              <<venta[v].hora, CompradoDe[v]>> \in calculo[k].sirve

ResumenInv == ElDelTurno /\ PidioCobrada /\ VentanaAlcanza /\ NoOlvida /\ CobradoSeVe

LEMMA ResumenInicio == ResumenInit => ResumenTipos /\ ResumenInv
<1> SUFFICES ASSUME ResumenInit PROVE ResumenTipos /\ ResumenInv
  OBVIOUS
<1>1. SinCalculo \in UnosCalculos /\ SinCalculo.paso = "no"
  BY DEF SinCalculo, UnCalculo, UnosCalculos
<1>2. 0 \in Horas
  BY ResumenAssumption DEF Horas
<1>3. ResumenTipos
  BY <1>1, <1>2 DEF ResumenInit, ResumenTipos, Cobradas
<1>4. ElDelTurno
  BY <1>1, ResumenAssumption DEF ResumenInit, ElDelTurno, ConTurno, Calculistas
<1>5. \A k \in Calculistas : calculo[k].paso = "no"
  BY <1>1 DEF ResumenInit
<1>6. PidioCobrada /\ VentanaAlcanza /\ NoOlvida /\ CobradoSeVe
  BY <1>5 DEF ResumenInit, PidioCobrada, VentanaAlcanza, NoOlvida, CobradoSeVe, Firmes,
              Aprobadas, Calculistas
<1> QED BY <1>3, <1>4, <1>6 DEF ResumenInv

\* What a calculation found in the rows.
LEMMA CuentaTipo ==
  ASSUME ResumenTipos, NEW k \in Calculistas
  PROVE  /\ UNION {CuentaEn(h) : h \in calculo[k].ventana} \subseteq Ventas
         /\ \A v \in Aprobadas : venta[v].hora \in calculo[k].ventana =>
              v \in UNION {CuentaEn(h) : h \in calculo[k].ventana}
BY DEF CuentaEn, Aprobadas

\* The dishes of an order that was paid for once are in the hour of its
\* payment.
LEMMA SirveTipo ==
  ASSUME ResumenTipos, NEW k \in Calculistas, NEW S,
         S = {hc \in calculo[k].ventana \X Comprados : hc[2] \in PlatosEn(hc[1])}
  PROVE  /\ S \subseteq Horas \X Comprados
         /\ \A v \in Aprobadas :
              venta[v].hora \in calculo[k].ventana /\ CobradoUnaVez(v) =>
                <<venta[v].hora, CompradoDe[v]>> \in S
<1>1. calculo[k].ventana \subseteq Horas
  BY DEF ResumenTipos, UnosCalculos
<1>2. S \subseteq Horas \X Comprados
  BY <1>1
<1>3. ASSUME NEW v \in Aprobadas, venta[v].hora \in calculo[k].ventana, CobradoUnaVez(v)
      PROVE  <<venta[v].hora, CompradoDe[v]>> \in S
  <2>1. v \in Ventas /\ CompradoDe[v] \in Comprados /\ venta[v].hora \in Nat
    BY ResumenAssumption DEF Aprobadas, ResumenTipos
  <2>2. v \in CuentaEn(venta[v].hora) \cap DelPedido(CompradoDe[v])
    BY <1>3, <2>1 DEF CuentaEn, DelPedido
  <2>3. \A w \in Aprobadas \cap DelPedido(CompradoDe[v]) : w = v
    BY <1>3 DEF CobradoUnaVez, Aprobadas
  <2>4. CompradoDe[v] \in PlatosEn(venta[v].hora)
    BY <2>1, <2>2, <2>3 DEF PlatosEn
  <2> QED BY <1>3, <2>1, <2>4
<1> QED BY <1>2, <1>3

\* A calculation that takes another step.
LEMMA CalculoTipo ==
  ASSUME ResumenTipos, NEW k \in Calculistas
  PROVE  /\ calculo[k].ventana \subseteq Horas
         /\ calculo[k].cuenta \subseteq Ventas
         /\ calculo[k].sirve \subseteq Horas \X Comprados
         /\ calculo[k] \in UnosCalculos
BY DEF ResumenTipos, UnosCalculos

-----------------------------------------------------------------------------
(* Resumen: the steps of the payments *)

Ventillas == [estado : {"NUEVA", "PENDIENTE", "RECHAZADO"} \cup Cobradas, hora : 0 .. ahora]

\* The step of a payment: it writes its row, and may ask for a calculation.
\* What is approved by it, and is not taken back from a refund, had asked for
\* none.
LEMMA VentaPaso ==
  ASSUME ResumenTipos, ResumenInv, NEW v \in Ventas,
         Reservar(v) \/ Rechazar(v) \/ Aprobar(v) \/ Reembolsar(v)
  PROVE  /\ UNCHANGED <<ahora, porHora, platos, turno, vueltas, vista>>
         /\ venta' \in [Ventas -> Ventillas]
         /\ \A w \in Ventas \ {v} : venta'[w] = venta[w]
         /\ cerrados \subseteq cerrados'
         /\ retomadas \subseteq retomadas' /\ retomadas' \subseteq Ventas
         /\ venta[v].estado \in Cobradas =>
              venta'[v].estado \in Cobradas /\ venta'[v].hora = venta[v].hora
         /\ venta'[v].estado = "APROBADO" /\ v \notin retomadas' =>
              v \notin vista /\ calculo[v].paso = "no"
         /\ \/ UNCHANGED calculo
            \/ /\ calculo' = [calculo EXCEPT ![v].paso = "pedido"]
               /\ venta'[v].estado = "APROBADO" /\ CompradoDe[v] \in cerrados'
               /\ v \notin vista /\ calculo[v].paso = "no"
<1>1. venta[v] \in Ventillas /\ ahora \in 0 .. ahora /\ retomadas \subseteq Ventas
  BY DEF ResumenTipos, Ventillas, Horas
<1>2. CASE Reservar(v)
  <2>1. [estado |-> "PENDIENTE", hora |-> ahora] \in Ventillas
    BY <1>1 DEF Ventillas
  <2> QED BY <1>1, <1>2, <2>1 DEF Reservar, ResumenTipos, Ventillas, Cobradas
<1>3. CASE Rechazar(v)
  <2>1. [venta[v] EXCEPT !.estado = "RECHAZADO"] \in Ventillas
    BY <1>1 DEF Ventillas
  <2> QED BY <1>1, <1>3, <2>1 DEF Rechazar, ResumenTipos, Ventillas, Cobradas
<1>4. CASE Aprobar(v)
  <2>1. [venta[v] EXCEPT !.estado = "APROBADO"] \in Ventillas
    BY <1>1 DEF Ventillas, Cobradas
  <2>2. /\ venta' = [venta EXCEPT ![v].estado = "APROBADO"]
        /\ UNCHANGED <<ahora, porHora, platos, turno, vueltas, vista>>
        /\ venta[v].estado \in {"PENDIENTE", "RECHAZADO", "REEMBOLSADO"}
    BY <1>4 DEF Aprobar
  <2>3. /\ venta' \in [Ventas -> Ventillas]
        /\ \A w \in Ventas \ {v} : venta'[w] = venta[w]
        /\ venta'[v].estado = "APROBADO" /\ venta'[v].hora = venta[v].hora
    BY <1>1, <2>1, <2>2 DEF ResumenTipos, Ventillas
  <2>4. CASE CompradoDe[v] \notin cerrados
    <3>1. v \notin vista /\ calculo[v].paso = "no"
      BY <2>4 DEF ResumenInv, PidioCobrada
    <3>2. /\ cerrados' = cerrados \cup {CompradoDe[v]}
          /\ calculo' = [calculo EXCEPT ![v].paso = "pedido"]
          /\ UNCHANGED retomadas
      BY <1>4, <2>4 DEF Aprobar
    <3> QED BY <1>1, <2>2, <2>3, <3>1, <3>2 DEF Cobradas
  <2>5. CASE CompradoDe[v] \in cerrados
    <3>1. /\ retomadas' = retomadas \cup {w \in {v} : venta[w].estado = "REEMBOLSADO"}
          /\ UNCHANGED <<cerrados, calculo>>
      BY <1>4, <2>5 DEF Aprobar
    <3>2. v \in retomadas' \/ venta[v].estado \notin Cobradas
      BY <2>2, <3>1 DEF Cobradas
    <3>3. venta[v].estado \notin Cobradas => v \notin vista /\ calculo[v].paso = "no"
      BY DEF ResumenInv, PidioCobrada
    <3> QED BY <1>1, <2>2, <2>3, <3>1, <3>2, <3>3 DEF Cobradas
  <2> QED BY <2>4, <2>5
<1>5. CASE Reembolsar(v)
  <2>1. [venta[v] EXCEPT !.estado = "REEMBOLSADO"] \in Ventillas
    BY <1>1 DEF Ventillas, Cobradas
  <2>2. venta'[v] = [venta[v] EXCEPT !.estado = "REEMBOLSADO"]
    BY <1>5 DEF Reembolsar, ResumenTipos
  <2> QED BY <1>1, <1>5, <2>1, <2>2 DEF Reembolsar, ResumenTipos, Ventillas, Cobradas
<1> QED BY <1>2, <1>3, <1>4, <1>5

LEMMA VentaTipos ==
  ASSUME ResumenTipos, ResumenInv, NEW v \in Ventas,
         Reservar(v) \/ Rechazar(v) \/ Aprobar(v) \/ Reembolsar(v)
  PROVE  ResumenTipos'
<1>1. calculo' \in [Calculistas -> UnosCalculos]
  <2>1. CASE UNCHANGED calculo
    BY <2>1 DEF ResumenTipos
  <2>2. CASE calculo' = [calculo EXCEPT ![v].paso = "pedido"]
    <3>1. v \in Calculistas /\ calculo[v] \in UnosCalculos
      BY CalculoTipo DEF Calculistas
    <3>2. [calculo[v] EXCEPT !.paso = "pedido"] \in UnosCalculos
      BY <3>1 DEF UnosCalculos
    <3> QED BY <2>2, <3>1, <3>2 DEF ResumenTipos
  <2> QED BY <2>1, <2>2, VentaPaso
<1>2. UNCHANGED <<ahora, porHora, platos, turno, vueltas, vista>>
      /\ venta' \in [Ventas -> Ventillas] /\ retomadas' \subseteq Ventas
  BY VentaPaso
<1> QED BY <1>1, <1>2 DEF ResumenTipos, Ventillas

\* Nothing that was charged stops being so, or changes its hour.
LEMMA VentaResumen ==
  ASSUME ResumenTipos, ResumenInv, NEW v \in Ventas,
         Reservar(v) \/ Rechazar(v) \/ Aprobar(v) \/ Reembolsar(v)
  PROVE  ResumenInv'
<1> USE DEF ResumenInv
<1>1. UNCHANGED <<ahora, porHora, platos, turno, vista>>
      /\ cerrados \subseteq cerrados' /\ retomadas \subseteq retomadas'
  BY VentaPaso
<1>2. \A w \in Ventas : venta[w].estado \in Cobradas =>
        venta'[w].estado \in Cobradas /\ venta'[w].hora = venta[w].hora
  BY VentaPaso
<1>3. \A w \in Ventas : venta'[w].estado = "APROBADO" /\ w \notin retomadas' =>
        \/ venta'[w] = venta[w] /\ w # v
        \/ w = v /\ v \notin vista /\ calculo[v].paso = "no"
  BY VentaPaso
<1>4. \A k \in Calculistas :
        \/ calculo'[k] = calculo[k]
        \/ /\ k = v /\ calculo'[k].paso = "pedido" /\ venta'[v].estado = "APROBADO"
           /\ CompradoDe[v] \in cerrados'
           /\ v \notin vista /\ calculo[v].paso = "no"
  <2>1. CASE UNCHANGED calculo
    BY <2>1
  <2>2. CASE /\ calculo' = [calculo EXCEPT ![v].paso = "pedido"]
             /\ venta'[v].estado = "APROBADO" /\ CompradoDe[v] \in cerrados'
             /\ v \notin vista /\ calculo[v].paso = "no"
    <3>1. calculo[v] \in UnosCalculos /\ v \in Calculistas
      BY CalculoTipo DEF Calculistas
    <3>2. calculo'[v].paso = "pedido" /\ \A k \in Calculistas \ {v} : calculo'[k] = calculo[k]
      BY <2>2, <3>1 DEF ResumenTipos, UnosCalculos
    <3> QED BY <2>2, <3>2
  <2> QED BY <2>1, <2>2, VentaPaso
<1>6. \A w \in Ventas : CobradoUnaVez(w)' => CobradoUnaVez(w)
  BY <1>2 DEF CobradoUnaVez, DelPedido, Cobradas
<1>7. ElDelTurno'
  BY <1>1, <1>4 DEF ElDelTurno, ConTurno, Calculistas
<1>8. PidioCobrada'
  BY <1>1, <1>2, <1>4 DEF PidioCobrada, Cobradas, Calculistas
<1>9. VentanaAlcanza'
  BY <1>1, <1>2, <1>4 DEF VentanaAlcanza, PidioCobrada, Calculistas
<1>10. \A w \in Ventas : w \in Firmes' =>
         \/ w \in Firmes /\ venta'[w].hora = venta[w].hora
         \/ w = v /\ v \notin vista /\ calculo[v].paso = "no"
  BY <1>1, <1>3 DEF Firmes, Aprobadas
<1>11. NoOlvida'
  <2> SUFFICES ASSUME NEW k \in Calculistas, NEW w \in Ventas,
                      w \in Firmes', w \in vista \cup {k},
                      venta'[w].hora \in calculo'[k].ventana
               PROVE  /\ calculo'[k].paso \in {"platos", "commit"} => w \in calculo'[k].cuenta
                      /\ calculo'[k].paso = "commit" /\ CobradoUnaVez(w)' =>
                           <<venta'[w].hora, CompradoDe[w]>> \in calculo'[k].sirve
    BY <1>1 DEF NoOlvida
  <2>1. CASE calculo'[k] = calculo[k] /\ w \in Firmes /\ venta'[w].hora = venta[w].hora
    BY <1>6, <2>1 DEF NoOlvida
  <2>2. CASE calculo'[k].paso = "pedido"
    BY <2>2
  <2>3. CASE w = v /\ v \notin vista /\ calculo[v].paso = "no"
    BY <1>4, <2>3
  <2> QED BY <1>4, <1>10, <2>1, <2>2, <2>3
<1>12. CobradoSeVe'
  BY <1>1, <1>6, <1>10 DEF CobradoSeVe, Firmes, Aprobadas, ResumenTipos
<1> QED BY <1>7, <1>8, <1>9, <1>11, <1>12

LEMMA CancelarResumen ==
  ASSUME ResumenTipos, ResumenInv, NEW c \in Comprados, CancelarPedido(c)
  PROVE  ResumenTipos' /\ ResumenInv'
<1>1. UNCHANGED <<ahora, venta, porHora, platos, turno, calculo, vueltas, vista, retomadas>>
      /\ cerrados \subseteq cerrados'
  BY DEF CancelarPedido
<1> USE DEF ResumenInv
<1>2. ResumenTipos'
  BY <1>1 DEF ResumenTipos
<1>3. ElDelTurno' /\ PidioCobrada' /\ VentanaAlcanza'
  BY <1>1 DEF ElDelTurno, PidioCobrada, VentanaAlcanza
<1>4. NoOlvida' /\ CobradoSeVe'
  BY <1>1 DEF NoOlvida, CobradoSeVe, CobradoUnaVez, Firmes, Aprobadas
<1> QED BY <1>2, <1>3, <1>4

-----------------------------------------------------------------------------
(* Resumen: the clock and the calculations *)

LEMMA HoraResumen ==
  ASSUME ResumenTipos, ResumenInv, PasaUnaHora
  PROVE  ResumenTipos' /\ ResumenInv'
<1> USE DEF ResumenInv
<1>1. /\ ahora \in Nat /\ ahora' = ahora + 1 /\ ahora' \in Horas
      /\ UNCHANGED <<venta, porHora, platos, turno, calculo, vueltas, vista, cerrados, retomadas>>
  BY ResumenAssumption DEF PasaUnaHora, ResumenTipos, Horas
<1>2. \A v \in Ventas : venta[v].hora \in 0 .. ahora
  BY DEF ResumenTipos
<1>3. ResumenTipos'
  <2>1. [estado : {"NUEVA", "PENDIENTE", "RECHAZADO"} \cup Cobradas, hora : 0 .. ahora]
          \subseteq
        [estado : {"NUEVA", "PENDIENTE", "RECHAZADO"} \cup Cobradas, hora : 0 .. ahora']
    BY <1>1
  <2> QED BY <1>1, <2>1 DEF ResumenTipos
<1>4. VentanaAlcanza'
  <2>1. \A v \in Ventas : ahora' - venta[v].hora <= 1 => ahora - venta[v].hora <= 1
    BY <1>1, <1>2
  <2> QED BY <1>1, <2>1 DEF VentanaAlcanza
<1>5. ElDelTurno' /\ PidioCobrada' /\ NoOlvida' /\ CobradoSeVe'
  BY <1>1 DEF ElDelTurno, PidioCobrada, NoOlvida, CobradoSeVe, CobradoUnaVez, Firmes, Aprobadas
<1> QED BY <1>3, <1>4, <1>5

\* A calculation that moves, while the rest stays.
LEMMA CalculoPaso ==
  ASSUME ResumenTipos, NEW k \in Calculistas, NEW nuevo \in UnosCalculos,
         calculo' = [calculo EXCEPT ![k] = nuevo]
  PROVE  /\ calculo' \in [Calculistas -> UnosCalculos]
         /\ calculo'[k] = nuevo
         /\ \A o \in Calculistas \ {k} : calculo'[o] = calculo[o]
BY DEF ResumenTipos

\* A calculation is asked for: the window has the hours that are recent then.
LEMMA PedirResumen ==
  ASSUME ResumenTipos, ResumenInv,
         \/ \E v \in Ventas : RecalcularRecientes(v)
         \/ \E j \in Jobs : CorrerResumen(j)
  PROVE  ResumenTipos' /\ ResumenInv'
<1> USE DEF ResumenInv
<1> DEFINE Pide(k, n) ==
      /\ calculo' = [calculo EXCEPT ![k] = UnCalculo("espera", VentanaReciente(n), {}, {})]
      /\ calculo[k].paso \in {"no", "pedido"}
      /\ k \in Ventas => n = 2 /\ calculo[k].paso # "no"
      /\ UNCHANGED <<ahora, venta, porHora, platos, turno, vista, cerrados, retomadas>>
      /\ vueltas' \in [Jobs -> Nat]
<1>1. PICK k \in Calculistas, n \in Nat : Pide(k, n)
  <2>1. ASSUME NEW v \in Ventas, RecalcularRecientes(v) PROVE Pide(v, 2)
    BY <2>1 DEF RecalcularRecientes, HORAS_AL_COBRAR, ResumenTipos
  <2>2. ASSUME NEW j \in Jobs, CorrerResumen(j) PROVE Pide(j, VentanaHoras)
    <3>1. vueltas' \in [Jobs -> Nat]
      BY <2>2 DEF CorrerResumen, ResumenTipos
    <3>2. j \notin Ventas
      BY ResumenAssumption
    <3> QED BY <2>2, <3>1, <3>2 DEF CorrerResumen
  <2> HIDE DEF Pide
  <2> QED BY <2>1, <2>2, ResumenAssumption DEF Calculistas
<1> DEFINE nuevo == UnCalculo("espera", VentanaReciente(n), {}, {})
<1>2. /\ nuevo \in UnosCalculos
      /\ nuevo.paso = "espera" /\ nuevo.ventana = VentanaReciente(n)
  BY DEF VentanaReciente, UnCalculo, UnosCalculos
<1>3. /\ calculo' \in [Calculistas -> UnosCalculos]
      /\ calculo'[k].paso = "espera" /\ calculo'[k].ventana = VentanaReciente(n)
      /\ \A o \in Calculistas \ {k} : calculo'[o] = calculo[o]
  <2> HIDE DEF nuevo
  <2> QED BY <1>1, <1>2, CalculoPaso DEF nuevo
<1>4. ResumenTipos'
  BY <1>1, <1>3 DEF ResumenTipos
<1>5. ElDelTurno'
  BY <1>1, <1>3 DEF ElDelTurno, ConTurno
<1>6. PidioCobrada'
  BY <1>1, <1>3 DEF PidioCobrada, Calculistas
<1>7. VentanaAlcanza'
  <2> SUFFICES ASSUME NEW v \in Ventas, calculo'[v].paso \notin {"no", "pedido"},
                      ahora - venta[v].hora <= 1
               PROVE  venta[v].hora \in calculo'[v].ventana
    BY <1>1 DEF VentanaAlcanza
  <2>1. v \in Calculistas /\ ahora \in Horas /\ venta[v].hora \in 0 .. ahora
    BY DEF Calculistas, ResumenTipos
  <2>2. CASE v = k
    <3>1. ahora \in Nat /\ venta[v].hora \in Horas /\ venta[v].hora > ahora - 2
      BY <2>1, ResumenAssumption DEF Horas
    <3>2. venta[v].hora \in VentanaReciente(2)
      BY <2>1, <3>1 DEF VentanaReciente
    <3> QED BY <1>1, <1>3, <2>2, <3>2
  <2>3. CASE v # k
    BY <1>3, <2>1, <2>3 DEF VentanaAlcanza
  <2> QED BY <2>2, <2>3
<1>8. NoOlvida'
  BY <1>1, <1>3 DEF NoOlvida, Firmes, Aprobadas, CobradoUnaVez
<1>9. CobradoSeVe'
  BY <1>1 DEF CobradoSeVe, Firmes, Aprobadas, CobradoUnaVez
<1> QED BY <1>4, <1>5, <1>6, <1>7, <1>8, <1>9

\* The lock is free, and one takes it.
LEMMA TomarResumen ==
  ASSUME ResumenTipos, ResumenInv, NEW k \in Calculistas, TomarCandado(k)
  PROVE  ResumenTipos' /\ ResumenInv'
<1> USE DEF ResumenInv
<1> DEFINE nuevo == [calculo[k] EXCEPT !.paso = "ventas"]
<1>1. /\ UNCHANGED <<ahora, venta, porHora, platos, vueltas, vista, cerrados, retomadas>>
      /\ turno = SinCandado /\ turno' = k /\ calculo[k].paso = "espera"
      /\ calculo' = [calculo EXCEPT ![k] = nuevo]
  BY DEF TomarCandado, HayLugar
<1>2. nuevo \in UnosCalculos /\ nuevo.paso = "ventas" /\ nuevo.ventana = calculo[k].ventana
  BY CalculoTipo DEF UnosCalculos, ConTurno
<1> HIDE DEF nuevo
<1>3. /\ calculo' \in [Calculistas -> UnosCalculos]
      /\ calculo'[k].paso = "ventas" /\ calculo'[k].ventana = calculo[k].ventana
      /\ \A o \in Calculistas \ {k} : calculo'[o] = calculo[o]
  BY <1>1, <1>2, CalculoPaso
<1>4. ResumenTipos'
  BY <1>1, <1>3 DEF ResumenTipos
<1>5. ElDelTurno'
  BY <1>1, <1>3, ResumenAssumption DEF ElDelTurno, ConTurno, Calculistas
<1>6. PidioCobrada' /\ VentanaAlcanza'
  BY <1>1, <1>3 DEF PidioCobrada, VentanaAlcanza, Calculistas
<1>7. NoOlvida'
  BY <1>1, <1>3 DEF NoOlvida, Firmes, Aprobadas, CobradoUnaVez
<1>8. CobradoSeVe'
  BY <1>1 DEF CobradoSeVe, Firmes, Aprobadas, CobradoUnaVez
<1> QED BY <1>4, <1>5, <1>6, <1>7, <1>8

\* It reads the payments, and then the dishes.
LEMMA VentasResumen ==
  ASSUME ResumenTipos, ResumenInv, NEW k \in Calculistas, CalcularVentas(k)
  PROVE  ResumenTipos' /\ ResumenInv'
<1> USE DEF ResumenInv
<1> DEFINE cuenta == UNION {CuentaEn(h) : h \in calculo[k].ventana}
           nuevo == [calculo[k] EXCEPT !.paso = "platos", !.cuenta = cuenta]
<1>1. /\ UNCHANGED <<ahora, venta, porHora, platos, turno, vueltas, vista, cerrados, retomadas>>
      /\ calculo[k].paso = "ventas"
      /\ calculo' = [calculo EXCEPT ![k] = nuevo]
  BY DEF CalcularVentas, ResumenTipos
<1> HIDE DEF cuenta
<1>2. cuenta \subseteq Ventas
      /\ \A v \in Aprobadas : venta[v].hora \in calculo[k].ventana => v \in cuenta
  BY CuentaTipo DEF cuenta
<1>3. /\ nuevo \in UnosCalculos /\ nuevo.paso = "platos"
      /\ nuevo.ventana = calculo[k].ventana /\ nuevo.cuenta = cuenta
  BY <1>2, CalculoTipo DEF UnosCalculos, ConTurno
<1> HIDE DEF nuevo
<1>4. /\ calculo' \in [Calculistas -> UnosCalculos]
      /\ calculo'[k].paso = "platos" /\ calculo'[k].ventana = calculo[k].ventana
      /\ calculo'[k].cuenta = cuenta
      /\ \A o \in Calculistas \ {k} : calculo'[o] = calculo[o]
  BY <1>1, <1>3, CalculoPaso
<1>5. ResumenTipos'
  BY <1>1, <1>4 DEF ResumenTipos
<1>6. ElDelTurno' /\ PidioCobrada' /\ VentanaAlcanza'
  BY <1>1, <1>4 DEF ElDelTurno, PidioCobrada, VentanaAlcanza, ConTurno, Calculistas
<1>7. NoOlvida'
  BY <1>1, <1>2, <1>4 DEF NoOlvida, Firmes, Aprobadas, CobradoUnaVez
<1>8. CobradoSeVe'
  BY <1>1 DEF CobradoSeVe, Firmes, Aprobadas, CobradoUnaVez
<1> QED BY <1>5, <1>6, <1>7, <1>8

LEMMA PlatosResumen ==
  ASSUME ResumenTipos, ResumenInv, NEW k \in Calculistas, CalcularPlatos(k)
  PROVE  ResumenTipos' /\ ResumenInv'
<1> USE DEF ResumenInv
<1> DEFINE sirve == {hc \in calculo[k].ventana \X Comprados : hc[2] \in PlatosEn(hc[1])}
           nuevo == [calculo[k] EXCEPT !.paso = "commit", !.sirve = sirve]
<1>1. /\ UNCHANGED <<ahora, venta, porHora, platos, turno, vueltas, vista, cerrados, retomadas>>
      /\ calculo[k].paso = "platos"
      /\ calculo' = [calculo EXCEPT ![k] = nuevo]
  BY DEF CalcularPlatos, ResumenTipos
<1> HIDE DEF sirve
<1>2. /\ sirve \subseteq Horas \X Comprados
      /\ \A v \in Aprobadas :
           venta[v].hora \in calculo[k].ventana /\ CobradoUnaVez(v) =>
             <<venta[v].hora, CompradoDe[v]>> \in sirve
  BY SirveTipo DEF sirve
<1>3. /\ nuevo \in UnosCalculos /\ nuevo.paso = "commit"
      /\ nuevo.ventana = calculo[k].ventana /\ nuevo.sirve = sirve
      /\ nuevo.cuenta = calculo[k].cuenta
  BY <1>2, CalculoTipo DEF UnosCalculos, ConTurno
<1> HIDE DEF nuevo
<1>4. /\ calculo' \in [Calculistas -> UnosCalculos]
      /\ calculo'[k].paso = "commit" /\ calculo'[k].ventana = calculo[k].ventana
      /\ calculo'[k].sirve = sirve /\ calculo'[k].cuenta = calculo[k].cuenta
      /\ \A o \in Calculistas \ {k} : calculo'[o] = calculo[o]
  BY <1>1, <1>3, CalculoPaso
<1>5. ResumenTipos'
  BY <1>1, <1>4 DEF ResumenTipos
<1>6. ElDelTurno' /\ PidioCobrada' /\ VentanaAlcanza'
  BY <1>1, <1>4 DEF ElDelTurno, PidioCobrada, VentanaAlcanza, ConTurno, Calculistas
<1>7. NoOlvida'
  BY <1>1, <1>2, <1>4 DEF NoOlvida, Firmes, Aprobadas, CobradoUnaVez
<1>8. CobradoSeVe'
  BY <1>1 DEF CobradoSeVe, Firmes, Aprobadas, CobradoUnaVez
<1> QED BY <1>5, <1>6, <1>7, <1>8

\* A calculation that ends leaves the lock.
LEMMA SueltaResumen ==
  ASSUME ResumenTipos, ResumenInv, NEW k \in Calculistas, calculo[k].paso # "no",
         turno' = Suelto(k), calculo' = [calculo EXCEPT ![k] = SinCalculo]
  PROVE  /\ turno' \in Calculistas \cup {SinCandado}
         /\ calculo' \in [Calculistas -> UnosCalculos]
         /\ calculo'[k].paso = "no"
         /\ \A o \in Calculistas \ {k} : calculo'[o] = calculo[o]
         /\ ElDelTurno'
<1>1. SinCalculo \in UnosCalculos /\ SinCalculo.paso = "no"
  BY DEF SinCalculo, UnCalculo, UnosCalculos
<1>2. /\ calculo' \in [Calculistas -> UnosCalculos]
      /\ calculo'[k].paso = "no"
      /\ \A o \in Calculistas \ {k} : calculo'[o] = calculo[o]
  BY <1>1, CalculoPaso
<1>3. ElDelTurno'
  BY <1>2, ResumenAssumption DEF Suelto, ResumenInv, ElDelTurno, ConTurno, Calculistas
<1> QED BY <1>2, <1>3 DEF Suelto, ResumenTipos

LEMMA FallarResumen ==
  ASSUME ResumenTipos, ResumenInv, NEW k \in Calculistas, FallarCalculo(k)
  PROVE  ResumenTipos' /\ ResumenInv'
<1>1. /\ UNCHANGED <<ahora, venta, porHora, platos, vueltas, vista, cerrados, retomadas>>
      /\ turno' \in Calculistas \cup {SinCandado}
      /\ calculo' \in [Calculistas -> UnosCalculos]
      /\ calculo'[k].paso = "no"
      /\ \A o \in Calculistas \ {k} : calculo'[o] = calculo[o]
      /\ ElDelTurno'
  BY SueltaResumen DEF FallarCalculo
<1> USE DEF ResumenInv
<1>2. ResumenTipos'
  BY <1>1 DEF ResumenTipos
<1>3. PidioCobrada' /\ VentanaAlcanza'
  BY <1>1 DEF PidioCobrada, VentanaAlcanza, Calculistas
<1>4. NoOlvida'
  BY <1>1 DEF NoOlvida, Firmes, Aprobadas, CobradoUnaVez
<1>5. CobradoSeVe'
  BY <1>1 DEF CobradoSeVe, Firmes, Aprobadas, CobradoUnaVez
<1> QED BY <1>1, <1>2, <1>3, <1>4, <1>5

\* What is written: of the hours of the window, what was read; of the other
\* ones, what there was.
LEMMA ConfirmarResumen ==
  ASSUME ResumenTipos, ResumenInv, NEW k \in Calculistas, ConfirmarCalculo(k)
  PROVE  ResumenTipos' /\ ResumenInv'
<1>1. /\ UNCHANGED <<ahora, venta, vueltas, cerrados, retomadas>>
      /\ turno' \in Calculistas \cup {SinCandado}
      /\ calculo' \in [Calculistas -> UnosCalculos]
      /\ calculo'[k].paso = "no"
      /\ \A o \in Calculistas \ {k} : calculo'[o] = calculo[o]
      /\ ElDelTurno'
      /\ calculo[k].paso = "commit" /\ turno = k
  BY SueltaResumen DEF ConfirmarCalculo, ResumenInv, ElDelTurno, ConTurno
<1>2. /\ vista' \subseteq Ventas
      /\ \A v \in vista' : \/ v \in vista
                           \/ v = k /\ v \in Ventas /\ ahora - venta[v].hora <= 1
  BY DEF ConfirmarCalculo, ResumenTipos
<1> USE DEF ResumenInv
<1>3. ResumenTipos'
  <2>1. calculo[k].cuenta \subseteq Ventas
    BY CalculoTipo
  <2>2. porHora' \in [Horas -> SUBSET Ventas]
    BY <2>1 DEF ConfirmarCalculo, ResumenTipos
  <2>3. platos' \in [Horas -> SUBSET Comprados]
    BY DEF ConfirmarCalculo, ResumenTipos
  <2> QED BY <1>1, <1>2, <2>2, <2>3 DEF ResumenTipos
<1>4. PidioCobrada' /\ VentanaAlcanza'
  BY <1>1, <1>2 DEF PidioCobrada, VentanaAlcanza, Calculistas
<1>5. NoOlvida'
  \* Nobody else has read anything.
  <2>1. \A o \in Calculistas : calculo'[o].paso \notin {"platos", "commit"}
    BY <1>1 DEF ElDelTurno, ConTurno
  <2> QED BY <2>1 DEF NoOlvida
<1>6. CobradoSeVe'
  <2> SUFFICES ASSUME NEW v \in vista', v \in Firmes
               PROVE  /\ v \in porHora'[venta[v].hora]
                      /\ CobradoUnaVez(v) => CompradoDe[v] \in platos'[venta[v].hora]
    BY <1>1 DEF CobradoSeVe, Firmes, Aprobadas, CobradoUnaVez
  <2>1. v \in Ventas /\ venta[v].hora \in Horas /\ CompradoDe[v] \in Comprados
    BY ResumenAssumption DEF Firmes, Aprobadas, ResumenTipos, Horas
  <2>2. CASE venta[v].hora \in calculo[k].ventana
    <3>1. /\ v \in calculo[k].cuenta
          /\ CobradoUnaVez(v) => <<venta[v].hora, CompradoDe[v]>> \in calculo[k].sirve
      BY <1>1, <1>2, <2>1, <2>2 DEF NoOlvida
    <3> QED BY <2>1, <2>2, <3>1 DEF ConfirmarCalculo
  <2>3. CASE venta[v].hora \notin calculo[k].ventana
    <3>1. v \in vista
      BY <1>1, <1>2, <2>3 DEF VentanaAlcanza
    <3> QED BY <2>1, <2>3, <3>1 DEF ConfirmarCalculo, CobradoSeVe, Firmes
  <2> QED BY <2>2, <2>3
<1> QED BY <1>1, <1>3, <1>4, <1>5, <1>6

LEMMA ResumenPaso ==
  ASSUME ResumenTipos, ResumenInv, [ResumenNext]_resumenVars
  PROVE  ResumenTipos' /\ ResumenInv'
<1>1. CASE UNCHANGED resumenVars
  BY <1>1 DEF resumenVars, ResumenTipos, ResumenInv, ElDelTurno, PidioCobrada, VentanaAlcanza,
              NoOlvida, CobradoSeVe, Firmes, Aprobadas, CobradoUnaVez
<1> QED BY <1>1, VentaTipos, VentaResumen, CancelarResumen, HoraResumen, PedirResumen, TomarResumen,
           VentasResumen, PlatosResumen, FallarResumen, ConfirmarResumen DEF ResumenNext

\* A sale stays in the report, whatever calculations are written after the one
\* that its payment asked for.
THEOREM LoCobradoQueda == ResumenSpec => []CobradoSeVe
<1>1. ResumenInit => ResumenTipos /\ ResumenInv
  BY ResumenInicio
<1>2. ResumenTipos /\ ResumenInv /\ [ResumenNext]_resumenVars => (ResumenTipos /\ ResumenInv)'
  BY ResumenPaso
<1>3. ResumenInv => CobradoSeVe
  BY DEF ResumenInv
<1> QED BY <1>1, <1>2, <1>3, PTL DEF ResumenSpec

-----------------------------------------------------------------------------
(* The diner's page: the invariant *)

CarritosYVacio == Carritos \cup {Vacio}
EncargosYNinguno == Encargos \cup {0}

UnGuardado ==
  [pedido : EncargosYNinguno, lineas : CarritosYVacio, firma : CarritosYVacio,
   aprobado : BOOLEAN]

UnIntento ==
  [paso : {"no", "enviado", "cobrando", "respondido", "terminado"},
   pedido : EncargosYNinguno, lineas : CarritosYVacio,
   respuesta : {"no", "aprobado", "rechazado", "verificando", "error"},
   atento : BOOLEAN]

UnaPagina ==
  [vista : {"carta", "pago", "aprobado"}, carrito : CarritosYVacio,
   porPagar : [pedido : EncargosYNinguno, firma : CarritosYVacio],
   aprobado : [pedido : EncargosYNinguno, lineas : CarritosYVacio],
   pantalla : {"formulario", "procesando", "verificando", "esperandoEfectivo",
               "aprobado", "rechazado", "error"},
   medios : {"no", "tarjeta", "todos"},
   apertura : {"no", "pide", "formulario", "verificando", "efectivo"},
   envio : [paso : {"no", "pide", "creado"}, lineas : CarritosYVacio,
            pedido : EncargosYNinguno],
   retoma : [paso : {"no", "pide", "pago", "aprobado", "descartar"}, de : UnGuardado],
   aviso : [paso : {"no", "pide", "avisado", "perdido"}, pedido : EncargosYNinguno]]

ComensalTipos ==
  /\ abierta \in BOOLEAN
  /\ encargo \in [Encargos ->
       [lineas : CarritosYVacio, estado : {"no", "PENDIENTE_PAGO", "CANCELADO", "PAGADO"},
        pago : {"no", "PENDIENTE", "APROBADO", "RECHAZADO"}, avisado : BOOLEAN]]
  /\ pagina \in UnaPagina
  /\ guardado \in UnGuardado
  /\ intento \in [Intentos -> UnIntento]

\* The order exists, and its lines are these, unless its cart was changed while
\* it was being sent.
Suyo(o, lineas) ==
  /\ o \in Encargos /\ encargo[o].estado # "no"
  /\ o \in movidos \/ encargo[o].lineas = lineas

\* It can still be answered.
IntentoVivo(i) == intento[i].paso \in {"enviado", "cobrando", "respondido"}

\* Whatever names an order has its lines: the page and what it saved,
LineasPagina ==
  /\ Actual # 0 => Suyo(Actual, pagina.porPagar.firma)
  /\ EnPago => Suyo(Actual, pagina.carrito)
  /\ pagina.vista = "aprobado" => Suyo(pagina.aprobado.pedido, pagina.aprobado.lineas)
  /\ guardado.pedido # 0 => /\ Suyo(guardado.pedido, guardado.lineas)
                            /\ Suyo(guardado.pedido, guardado.firma)
  /\ pagina.retoma.paso # "no" =>
       LET g == pagina.retoma.de
       IN  g.pedido # 0 /\ Suyo(g.pedido, g.lineas) /\ Suyo(g.pedido, g.firma)
  /\ pagina.envio.paso = "creado" =>
       LET e == pagina.envio
       IN  Suyo(e.pedido, e.lineas) /\ encargo[e.pedido].lineas = e.lineas
  /\ pagina.aviso.paso # "no" => pagina.aviso.pedido \in Encargos

\* and the payments.
LineasIntentos ==
  \A i \in Intentos : IntentoVivo(i) =>
    /\ intento[i].pedido \in Encargos /\ encargo[intento[i].pedido].estado # "no"
    /\ intento[i].atento => Suyo(intento[i].pedido, intento[i].lineas)
    /\ intento[i].paso = "respondido" => intento[i].respuesta # "no"

\* What a state of an order says of its payment.
EncargosBien ==
  \A o \in Encargos :
    /\ encargo[o].pago = "PENDIENTE" => encargo[o].estado = "PENDIENTE_PAGO"
    /\ encargo[o].estado = "CANCELADO" => ~abierta
    /\ encargo[o].estado = "PAGADO" => encargo[o].pago = "APROBADO"

\* A payment that can still be answered is of the order that the screen waits
\* for, and there is no other one of that order.
IntentosBien ==
  \A i \in Intentos : IntentoVivo(i) /\ intento[i].pedido \notin cruzados =>
    /\ intento[i].atento /\ EnPago /\ Actual = intento[i].pedido
    /\ pagina.pantalla = "procesando"
    /\ encargo[intento[i].pedido].pago = "PENDIENTE" =>
         \/ intento[i].paso = "cobrando"
         \/ intento[i].paso = "respondido" /\ intento[i].respuesta = "verificando"
    /\ \A k \in Intentos : IntentoVivo(k) /\ intento[k].pedido = intento[i].pedido => k = i

\* What the screen shows of an order while it is paid: it waits, or it has not
\* been told yet.
PantallaBien ==
  EnPago /\ Actual \notin cruzados =>
    /\ pagina.apertura # "no" => pagina.medios = "no" /\ pagina.pantalla = "formulario"
    /\ encargo[Actual].pago = "PENDIENTE" =>
         \/ pagina.pantalla \in {"procesando", "verificando"}
         \/ pagina.apertura \in {"pide", "verificando"}

\* The notice to the waiter is of the screen that is open.
AvisoBien ==
  pagina.aviso.paso \in {"pide", "avisado"} =>
    EnPago /\ (Actual \in cruzados \/ pagina.medios = "todos")

ComensalInv ==
  /\ ComensalTipos /\ LineasPagina /\ LineasIntentos /\ EncargosBien /\ IntentosBien
  /\ PantallaBien /\ AvisoBien
-----------------------------------------------------------------------------
(* The diner's page: what groups of steps keep *)

\* The orders that there are keep their lines.
LineasQuietas ==
  \A o \in Encargos : encargo[o].estado # "no" =>
    encargo'[o].estado # "no" /\ encargo'[o].lineas = encargo[o].lineas

\* The screen that waits for a payment goes on waiting, or an answer was lost.
EsperaQuieta ==
  EnPago /\ pagina.pantalla = "procesando" /\ Actual \notin cruzados' =>
    /\ pagina'.vista = "pago" /\ pagina'.porPagar.pedido = pagina.porPagar.pedido
    /\ pagina'.pantalla = "procesando"

\* A step of the page, which keeps the orders and the payments.
LEMMA PaginaMueve ==
  ASSUME ComensalInv, UNCHANGED <<abierta, encargo, intento>>,
         cruzados \subseteq cruzados', movidos \subseteq movidos',
         pagina' \in UnaPagina, guardado' \in UnGuardado,
         EsperaQuieta, LineasPagina', PantallaBien', AvisoBien'
  PROVE  ComensalInv'
<1>1. ComensalTipos' /\ EncargosBien'
  BY DEF ComensalInv, ComensalTipos, EncargosBien
<1>2. LineasIntentos'
  BY DEF ComensalInv, LineasIntentos, IntentoVivo, Suyo
<1>3. IntentosBien'
  <2>1. SUFFICES ASSUME NEW i \in Intentos, IntentoVivo(i), intento[i].pedido \notin cruzados'
                 PROVE  EnPago' /\ Actual' = intento[i].pedido /\ pagina'.pantalla = "procesando"
    BY DEF ComensalInv, IntentosBien, IntentoVivo
  <2>2. EnPago /\ Actual = intento[i].pedido /\ pagina.pantalla = "procesando"
    BY <2>1 DEF ComensalInv, IntentosBien
  <2> QED BY <2>1, <2>2 DEF EsperaQuieta, EnPago, Actual
<1> QED BY <1>1, <1>2, <1>3 DEF ComensalInv

\* What a step of the backend leaves of the page: all but the order that is
\* sent and the notice.
SigueLaPagina ==
  /\ pagina' \in UnaPagina
  /\ pagina'.vista = pagina.vista /\ pagina'.carrito = pagina.carrito
  /\ pagina'.porPagar = pagina.porPagar /\ pagina'.aprobado = pagina.aprobado
  /\ pagina'.pantalla = pagina.pantalla /\ pagina'.medios = pagina.medios
  /\ pagina'.apertura = pagina.apertura /\ pagina'.retoma = pagina.retoma

\* The order that was created, and has not arrived yet.
EnvioBien ==
  pagina.envio.paso = "creado" =>
    /\ Suyo(pagina.envio.pedido, pagina.envio.lineas)
    /\ encargo[pagina.envio.pedido].lineas = pagina.envio.lineas

\* A step of the orders, in which no payment begins.
LEMMA EncargosMueven ==
  ASSUME ComensalInv, UNCHANGED <<guardado, intento, movidos, cruzados>>,
         ComensalTipos', EncargosBien', LineasQuietas, SigueLaPagina,
         EnvioBien',
         pagina'.aviso.paso # "no" => pagina'.aviso.pedido \in Encargos,
         pagina'.aviso.paso \in {"pide", "avisado"} => pagina.aviso.paso \in {"pide", "avisado"},
         \A o \in Encargos : encargo'[o].pago = "PENDIENTE" => encargo[o].pago = "PENDIENTE"
  PROVE  ComensalInv'
<1>1. LineasPagina'
  <2>1. /\ Actual' # 0 => Suyo(Actual, pagina.porPagar.firma)'
        /\ EnPago' => Suyo(Actual, pagina.carrito)'
        /\ pagina'.vista = "aprobado" => Suyo(pagina.aprobado.pedido, pagina.aprobado.lineas)'
    BY DEF ComensalInv, LineasPagina, LineasQuietas, SigueLaPagina, Suyo, Actual, EnPago
  <2>2. /\ guardado'.pedido # 0 => /\ Suyo(guardado.pedido, guardado.lineas)'
                                   /\ Suyo(guardado.pedido, guardado.firma)'
        /\ pagina'.retoma.paso # "no" =>
             /\ pagina'.retoma.de.pedido # 0
             /\ Suyo(pagina.retoma.de.pedido, pagina.retoma.de.lineas)'
             /\ Suyo(pagina.retoma.de.pedido, pagina.retoma.de.firma)'
    BY DEF ComensalInv, LineasPagina, LineasQuietas, SigueLaPagina, Suyo
  <2> QED BY <2>1, <2>2 DEF LineasPagina, EnvioBien, Suyo, Actual, EnPago
<1>2. LineasIntentos'
  BY DEF ComensalInv, LineasIntentos, LineasQuietas, Suyo, IntentoVivo
<1>3. IntentosBien'
  <2>1. SUFFICES ASSUME NEW i \in Intentos, IntentoVivo(i), intento[i].pedido \notin cruzados
                 PROVE  encargo'[intento[i].pedido].pago = "PENDIENTE" =>
                          encargo[intento[i].pedido].pago = "PENDIENTE"
    BY DEF ComensalInv, IntentosBien, IntentoVivo, EnPago, Actual, SigueLaPagina
  <2> QED BY <2>1 DEF ComensalInv, LineasIntentos
<1>4. PantallaBien'
  <2>1. EnPago => Actual \in Encargos
    BY DEF ComensalInv, LineasPagina, Suyo
  <2> QED BY <2>1 DEF ComensalInv, PantallaBien, EnPago, Actual, SigueLaPagina
<1>5. AvisoBien'
  BY DEF ComensalInv, AvisoBien, EnPago, Actual, SigueLaPagina
<1> QED BY <1>1, <1>2, <1>3, <1>4, <1>5 DEF ComensalInv

\* A step of one payment, which goes on or ends.
LEMMA IntentoMueve ==
  ASSUME ComensalInv, NEW i \in Intentos,
         UNCHANGED <<abierta, encargo, pagina, guardado, movidos, cruzados>>,
         intento' \in [Intentos -> UnIntento],
         \A k \in Intentos \ {i} : intento'[k] = intento[k],
         IntentoVivo(i),
         IntentoVivo(i)' =>
           /\ intento'[i].pedido = intento[i].pedido /\ intento'[i].atento = intento[i].atento
           /\ intento'[i].atento => intento'[i].lineas = intento[i].lineas
           /\ intento'[i].paso = "respondido" => intento'[i].respuesta # "no"
           /\ \/ encargo[intento[i].pedido].pago # "PENDIENTE"
              \/ intento'[i].paso = "cobrando"
              \/ intento'[i].paso = "respondido" /\ intento'[i].respuesta = "verificando"
              \/ intento[i].pedido \in cruzados
  PROVE  ComensalInv'
<1>1. ComensalTipos' /\ EncargosBien' /\ PantallaBien' /\ AvisoBien'
  BY DEF ComensalInv, ComensalTipos, EncargosBien, PantallaBien, AvisoBien, EnPago, Actual
<1>2. LineasPagina'
  BY DEF ComensalInv, LineasPagina, Suyo, Actual, EnPago
<1>3. \A k \in Intentos : IntentoVivo(k)' =>
        /\ IntentoVivo(k) /\ intento'[k].pedido = intento[k].pedido
        /\ intento'[k].atento = intento[k].atento
        /\ intento'[k].atento => intento'[k].lineas = intento[k].lineas
        /\ intento'[k].paso = "respondido" => intento'[k].respuesta # "no"
  BY DEF IntentoVivo, ComensalInv, LineasIntentos
<1>4. LineasIntentos'
  BY <1>3 DEF ComensalInv, LineasIntentos, Suyo
<1>5. IntentosBien'
  <2>1. SUFFICES ASSUME NEW k \in Intentos, IntentoVivo(k)', intento[k].pedido \notin cruzados
                 PROVE  /\ intento[k].atento /\ EnPago /\ Actual = intento[k].pedido
                        /\ pagina.pantalla = "procesando"
                        /\ encargo[intento[k].pedido].pago = "PENDIENTE" =>
                             \/ intento'[k].paso = "cobrando"
                             \/ /\ intento'[k].paso = "respondido"
                                /\ intento'[k].respuesta = "verificando"
                        /\ \A j \in Intentos : IntentoVivo(j) /\ intento[j].pedido = intento[k].pedido => j = k
    BY <1>3 DEF IntentosBien, EnPago, Actual
  <2>2. CASE k = i
    BY <1>3, <2>1, <2>2 DEF ComensalInv, IntentosBien
  <2>3. CASE k # i
    BY <1>3, <2>1, <2>3 DEF ComensalInv, IntentosBien
  <2> QED BY <2>2, <2>3
<1> QED BY <1>1, <1>2, <1>4, <1>5 DEF ComensalInv

\* A step of the page that ends a payment, or lets go of it.
LEMMA IntentoTermina ==
  ASSUME ComensalInv, NEW i \in Intentos, UNCHANGED <<abierta, encargo, movidos>>,
         intento' \in [Intentos -> UnIntento],
         \A k \in Intentos \ {i} : intento'[k] = intento[k],
         IntentoVivo(i)' => /\ IntentoVivo(i) /\ intento'[i].pedido = intento[i].pedido
                            /\ ~intento'[i].atento /\ intento'[i].paso = "enviado"
                            /\ intento'[i].pedido \in cruzados',
         cruzados \subseteq cruzados',
         EnPago => \/ Actual \in cruzados'
                   \/ IntentoVivo(i) /\ Actual = intento[i].pedido,
         pagina' \in UnaPagina, guardado' \in UnGuardado,
         LineasPagina', PantallaBien', AvisoBien'
  PROVE  ComensalInv'
<1>1. ComensalTipos' /\ EncargosBien'
  BY DEF ComensalInv, ComensalTipos, EncargosBien
<1>2. \A k \in Intentos : IntentoVivo(k)' =>
        /\ IntentoVivo(k) /\ intento'[k].pedido = intento[k].pedido
        /\ intento'[k].atento => k # i
  BY DEF IntentoVivo
<1>3. LineasIntentos'
  BY <1>2 DEF ComensalInv, LineasIntentos, Suyo
<1>4. IntentosBien'
  <2>1. SUFFICES ASSUME NEW k \in Intentos, IntentoVivo(k)', intento'[k].pedido \notin cruzados'
                 PROVE  FALSE
    BY DEF IntentosBien
  <2>2. k # i /\ IntentoVivo(k) /\ intento'[k].pedido = intento[k].pedido
    BY <1>2, <2>1
  <2>3. EnPago /\ Actual = intento[k].pedido
    BY <2>1, <2>2 DEF ComensalInv, IntentosBien
  <2>4. IntentoVivo(i) /\ intento[i].pedido = intento[k].pedido
    BY <2>1, <2>2, <2>3
  <2> QED BY <2>1, <2>2, <2>4 DEF ComensalInv, IntentosBien
<1> QED BY <1>1, <1>3, <1>4 DEF ComensalInv
-----------------------------------------------------------------------------
(* The diner's page: the steps of the page alone *)

LEMMA AgregarBien ==
  ASSUME ComensalInv, Agregar
  PROVE  ComensalInv'
<1>1. pagina \in UnaPagina /\ guardado \in UnGuardado
  BY DEF ComensalInv, ComensalTipos
<1>2. /\ UNCHANGED <<abierta, encargo, intento, movidos>> /\ cruzados \subseteq cruzados'
      /\ guardado' \in UnGuardado
  BY <1>1 DEF Agregar
<1>3. pagina' \in UnaPagina
  BY <1>1 DEF Agregar, UnaPagina, CarritosYVacio, EncargosYNinguno, Actual, EnPago
<1>4. EsperaQuieta
  BY <1>1 DEF Agregar, UnaPagina, EsperaQuieta, EnPago, Actual
<1>5. LineasPagina'
  BY <1>1, <1>2 DEF ComensalInv, Agregar, UnaPagina, LineasPagina, Suyo, EnPago, Actual
<1>6. PantallaBien'
  BY <1>1, <1>2 DEF ComensalInv, Agregar, UnaPagina, PantallaBien, EnPago, Actual
<1>7. AvisoBien'
  BY <1>1, <1>2 DEF ComensalInv, Agregar, UnaPagina, AvisoBien, PantallaBien, EnPago, Actual
<1> QED BY <1>2, <1>3, <1>4, <1>5, <1>6, <1>7, PaginaMueve

LEMMA VaciarBien ==
  ASSUME ComensalInv, Vaciar
  PROVE  ComensalInv'
<1>1. pagina \in UnaPagina /\ guardado \in UnGuardado
  BY DEF ComensalInv, ComensalTipos
<1>2. /\ UNCHANGED <<abierta, encargo, intento, movidos>> /\ cruzados \subseteq cruzados'
      /\ guardado' \in UnGuardado
  BY <1>1 DEF Vaciar
<1>3. pagina' \in UnaPagina
  BY <1>1 DEF Vaciar, UnaPagina, CarritosYVacio, EncargosYNinguno, Actual, EnPago
<1>4. EsperaQuieta
  BY <1>1 DEF Vaciar, UnaPagina, EsperaQuieta, EnPago, Actual
<1>5. LineasPagina'
  BY <1>1, <1>2 DEF ComensalInv, Vaciar, UnaPagina, LineasPagina, Suyo, EnPago, Actual
<1>6. PantallaBien'
  BY <1>1, <1>2 DEF ComensalInv, Vaciar, UnaPagina, PantallaBien, EnPago, Actual
<1>7. AvisoBien'
  BY <1>1, <1>2 DEF ComensalInv, Vaciar, UnaPagina, AvisoBien, PantallaBien, EnPago, Actual
<1> QED BY <1>2, <1>3, <1>4, <1>5, <1>6, <1>7, PaginaMueve

\* The cart is the one that the order was made with.
LEMMA ContinuarConElMismoBien ==
  ASSUME ComensalInv, ContinuarConElMismo
  PROVE  ComensalInv'
<1>1. pagina \in UnaPagina /\ guardado \in UnGuardado
  BY DEF ComensalInv, ComensalTipos
<1>2. /\ UNCHANGED <<abierta, encargo, intento, movidos>> /\ cruzados \subseteq cruzados'
      /\ guardado' \in UnGuardado
  BY <1>1 DEF ContinuarConElMismo
<1>3. pagina' \in UnaPagina
  BY <1>1 DEF ContinuarConElMismo, UnaPagina, CarritosYVacio, EncargosYNinguno, Actual, EnPago, PuedeContinuar, SeReusa, Abre
<1>4. EsperaQuieta
  BY <1>1 DEF ContinuarConElMismo, UnaPagina, EsperaQuieta, EnPago, Actual, PuedeContinuar, SeReusa, Abre
<1>5. LineasPagina'
  BY <1>1, <1>2 DEF ComensalInv, ContinuarConElMismo, UnaPagina, LineasPagina, Suyo, EnPago, Actual, PuedeContinuar, SeReusa, Abre
<1>6. PantallaBien'
  BY <1>1, <1>2 DEF ComensalInv, ContinuarConElMismo, UnaPagina, PantallaBien, EnPago, Actual, PuedeContinuar, SeReusa, Abre
<1>7. AvisoBien'
  BY <1>1, <1>2 DEF ComensalInv, ContinuarConElMismo, UnaPagina, AvisoBien, PantallaBien, EnPago, Actual, PuedeContinuar, SeReusa, Abre
<1> QED BY <1>2, <1>3, <1>4, <1>5, <1>6, <1>7, PaginaMueve

LEMMA ContinuarAlPagoBien ==
  ASSUME ComensalInv, ContinuarAlPago
  PROVE  ComensalInv'
<1>1. pagina \in UnaPagina /\ guardado \in UnGuardado
  BY DEF ComensalInv, ComensalTipos
<1>2. /\ UNCHANGED <<abierta, encargo, intento, movidos>> /\ cruzados \subseteq cruzados'
      /\ guardado' \in UnGuardado
  BY <1>1 DEF ContinuarAlPago
<1>3. pagina' \in UnaPagina
  BY <1>1 DEF ContinuarAlPago, UnaPagina, CarritosYVacio, EncargosYNinguno, Actual, EnPago, PuedeContinuar, SeReusa
<1>4. EsperaQuieta
  BY <1>1 DEF ContinuarAlPago, UnaPagina, EsperaQuieta, EnPago, Actual, PuedeContinuar, SeReusa
<1>5. LineasPagina'
  BY <1>1, <1>2 DEF ComensalInv, ContinuarAlPago, UnaPagina, LineasPagina, Suyo, EnPago, Actual, PuedeContinuar, SeReusa
<1>6. PantallaBien'
  BY <1>1, <1>2 DEF ComensalInv, ContinuarAlPago, UnaPagina, PantallaBien, EnPago, Actual, PuedeContinuar, SeReusa
<1>7. AvisoBien'
  BY <1>1, <1>2 DEF ComensalInv, ContinuarAlPago, UnaPagina, AvisoBien, PantallaBien, EnPago, Actual, PuedeContinuar, SeReusa
<1> QED BY <1>2, <1>3, <1>4, <1>5, <1>6, <1>7, PaginaMueve

LEMMA FallaEncargoBien ==
  ASSUME ComensalInv, FallaEncargo
  PROVE  ComensalInv'
<1>1. pagina \in UnaPagina /\ guardado \in UnGuardado
  BY DEF ComensalInv, ComensalTipos
<1>2. /\ UNCHANGED <<abierta, encargo, intento, movidos>> /\ cruzados \subseteq cruzados'
      /\ guardado' \in UnGuardado
  BY <1>1 DEF FallaEncargo
<1>3. pagina' \in UnaPagina
  BY <1>1 DEF FallaEncargo, UnaPagina, CarritosYVacio, EncargosYNinguno, Actual, EnPago, SinEnvio
<1>4. EsperaQuieta
  BY <1>1 DEF FallaEncargo, UnaPagina, EsperaQuieta, EnPago, Actual, SinEnvio
<1>5. LineasPagina'
  BY <1>1, <1>2 DEF ComensalInv, FallaEncargo, UnaPagina, LineasPagina, Suyo, EnPago, Actual, SinEnvio
<1>6. PantallaBien'
  BY <1>1, <1>2 DEF ComensalInv, FallaEncargo, UnaPagina, PantallaBien, EnPago, Actual, SinEnvio
<1>7. AvisoBien'
  BY <1>1, <1>2 DEF ComensalInv, FallaEncargo, UnaPagina, AvisoBien, PantallaBien, EnPago, Actual, SinEnvio
<1> QED BY <1>2, <1>3, <1>4, <1>5, <1>6, <1>7, PaginaMueve

LEMMA ConsultarGuardadoBien ==
  ASSUME ComensalInv, ConsultarGuardado
  PROVE  ComensalInv'
<1>1. pagina \in UnaPagina /\ guardado \in UnGuardado
  BY DEF ComensalInv, ComensalTipos
<1>2. /\ UNCHANGED <<abierta, encargo, intento, movidos>> /\ cruzados \subseteq cruzados'
      /\ guardado' \in UnGuardado
  BY <1>1 DEF ConsultarGuardado
<1>3. pagina' \in UnaPagina
  BY <1>1 DEF ConsultarGuardado, UnaPagina, CarritosYVacio, EncargosYNinguno, Actual, EnPago, Retoma
<1>4. EsperaQuieta
  BY <1>1 DEF ConsultarGuardado, UnaPagina, EsperaQuieta, EnPago, Actual
<1>5. LineasPagina'
  <2>1. /\ pagina'.retoma.de = pagina.retoma.de /\ pagina.retoma.paso # "no"
        /\ pagina'.vista = pagina.vista /\ pagina'.porPagar = pagina.porPagar
        /\ pagina'.carrito = pagina.carrito /\ pagina'.aprobado = pagina.aprobado
        /\ pagina'.envio = pagina.envio /\ pagina'.aviso = pagina.aviso
    BY <1>1 DEF ConsultarGuardado, UnaPagina
  <2>2. UNCHANGED <<encargo, movidos, guardado>>
    BY DEF ConsultarGuardado
  <2> QED BY <2>1, <2>2 DEF ComensalInv, LineasPagina, Suyo, EnPago, Actual
<1>6. PantallaBien'
  BY <1>1, <1>2 DEF ComensalInv, ConsultarGuardado, UnaPagina, PantallaBien, EnPago, Actual, Retoma
<1>7. AvisoBien'
  BY <1>1, <1>2 DEF ComensalInv, ConsultarGuardado, UnaPagina, AvisoBien, PantallaBien, EnPago, Actual, Retoma
<1> QED BY <1>2, <1>3, <1>4, <1>5, <1>6, <1>7, PaginaMueve

LEMMA ConservarGuardadoBien ==
  ASSUME ComensalInv, ConservarGuardado
  PROVE  ComensalInv'
<1>1. pagina \in UnaPagina /\ guardado \in UnGuardado
  BY DEF ComensalInv, ComensalTipos
<1>2. /\ UNCHANGED <<abierta, encargo, intento, movidos>> /\ cruzados \subseteq cruzados'
      /\ guardado' \in UnGuardado
  BY <1>1 DEF ConservarGuardado, NadaGuardado, UnGuardado, EncargosYNinguno, CarritosYVacio
<1>3. pagina' \in UnaPagina
  BY <1>1 DEF ConservarGuardado, UnaPagina, CarritosYVacio, EncargosYNinguno, Actual, EnPago, SinRetoma, NadaGuardado, UnGuardado
<1>4. EsperaQuieta
  BY <1>1 DEF ConservarGuardado, UnaPagina, EsperaQuieta, EnPago, Actual, SinRetoma, NadaGuardado
<1>5. LineasPagina'
  BY <1>1, <1>2 DEF ComensalInv, ConservarGuardado, UnaPagina, LineasPagina, Suyo, EnPago, Actual, SinRetoma, NadaGuardado
<1>6. PantallaBien'
  BY <1>1, <1>2 DEF ComensalInv, ConservarGuardado, UnaPagina, PantallaBien, EnPago, Actual, SinRetoma, NadaGuardado
<1>7. AvisoBien'
  BY <1>1, <1>2 DEF ComensalInv, ConservarGuardado, UnaPagina, AvisoBien, PantallaBien, EnPago, Actual, SinRetoma, NadaGuardado
<1> QED BY <1>2, <1>3, <1>4, <1>5, <1>6, <1>7, PaginaMueve

LEMMA ConsultarAlAbrirBien ==
  ASSUME ComensalInv, ConsultarAlAbrir
  PROVE  ComensalInv'
<1>1. pagina \in UnaPagina /\ guardado \in UnGuardado
  BY DEF ComensalInv, ComensalTipos
<1>2. /\ UNCHANGED <<abierta, encargo, intento, movidos>> /\ cruzados \subseteq cruzados'
      /\ guardado' \in UnGuardado
  BY <1>1 DEF ConsultarAlAbrir
<1>3. pagina' \in UnaPagina
  BY <1>1 DEF ConsultarAlAbrir, UnaPagina, CarritosYVacio, EncargosYNinguno, Actual, EnPago, PantallaAlAbrir, Retoma
<1>4. EsperaQuieta
  BY <1>1 DEF ConsultarAlAbrir, UnaPagina, EsperaQuieta, EnPago, Actual, PantallaAlAbrir, Retoma
<1>5. LineasPagina'
  BY <1>1, <1>2 DEF ComensalInv, ConsultarAlAbrir, UnaPagina, LineasPagina, Suyo, EnPago, Actual, PantallaAlAbrir, Retoma
<1>6. PantallaBien'
  <2>1. EnPago /\ Actual \in Encargos
    BY DEF ComensalInv, LineasPagina, Suyo, ConsultarAlAbrir, EnPago
  <2>2. encargo[Actual].pago = "PENDIENTE" => PantallaAlAbrir(Actual) = "verificando"
    BY <2>1 DEF ComensalInv, EncargosBien, PantallaAlAbrir
  <2>3. /\ pagina'.apertura = PantallaAlAbrir(Actual) /\ UNCHANGED <<encargo, cruzados>>
        /\ pagina'.vista = pagina.vista /\ pagina'.porPagar = pagina.porPagar
        /\ pagina'.pantalla = pagina.pantalla /\ pagina'.medios = pagina.medios
    BY <1>1 DEF ConsultarAlAbrir, UnaPagina
  <2>4. pagina.apertura # "no"
    BY DEF ConsultarAlAbrir
  <2> QED BY <2>1, <2>2, <2>3, <2>4 DEF ComensalInv, PantallaBien, EnPago, Actual
<1>7. AvisoBien'
  BY <1>1, <1>2 DEF ComensalInv, ConsultarAlAbrir, UnaPagina, AvisoBien, PantallaBien, EnPago, Actual, PantallaAlAbrir, Retoma
<1> QED BY <1>2, <1>3, <1>4, <1>5, <1>6, <1>7, PaginaMueve

LEMMA AplicarAperturaBien ==
  ASSUME ComensalInv, AplicarApertura
  PROVE  ComensalInv'
<1>1. pagina \in UnaPagina /\ guardado \in UnGuardado
  BY DEF ComensalInv, ComensalTipos
<1>2. /\ UNCHANGED <<abierta, encargo, intento, movidos>> /\ cruzados \subseteq cruzados'
      /\ guardado' \in UnGuardado
  BY <1>1 DEF AplicarApertura
<1>3. pagina' \in UnaPagina
  BY <1>1 DEF AplicarApertura, UnaPagina, CarritosYVacio, EncargosYNinguno, Actual, EnPago
<1>4. EsperaQuieta
  BY <1>1, <1>2 DEF ComensalInv, AplicarApertura, UnaPagina, EsperaQuieta, PantallaBien,
       EnPago, Actual
<1>5. LineasPagina'
  BY <1>1, <1>2 DEF ComensalInv, AplicarApertura, UnaPagina, LineasPagina, Suyo, EnPago, Actual
<1>6. PantallaBien'
  BY <1>1, <1>2 DEF ComensalInv, AplicarApertura, UnaPagina, PantallaBien, EnPago, Actual
<1>7. AvisoBien'
  BY <1>1, <1>2 DEF ComensalInv, AplicarApertura, UnaPagina, AvisoBien, PantallaBien, EnPago, Actual
<1> QED BY <1>2, <1>3, <1>4, <1>5, <1>6, <1>7, PaginaMueve

LEMMA FallaAperturaBien ==
  ASSUME ComensalInv, FallaApertura
  PROVE  ComensalInv'
<1>1. pagina \in UnaPagina /\ guardado \in UnGuardado
  BY DEF ComensalInv, ComensalTipos
<1>2. /\ UNCHANGED <<abierta, encargo, intento, movidos>> /\ cruzados \subseteq cruzados'
      /\ guardado' \in UnGuardado
  BY <1>1 DEF FallaApertura
<1>3. pagina' \in UnaPagina
  BY <1>1 DEF FallaApertura, UnaPagina, CarritosYVacio, EncargosYNinguno, Actual, EnPago
<1>4. EsperaQuieta
  BY <1>1 DEF FallaApertura, UnaPagina, EsperaQuieta, EnPago, Actual
<1>5. LineasPagina'
  BY <1>1, <1>2 DEF ComensalInv, FallaApertura, UnaPagina, LineasPagina, Suyo, EnPago, Actual
<1>6. PantallaBien'
  BY <1>1, <1>2 DEF ComensalInv, FallaApertura, UnaPagina, PantallaBien, EnPago, Actual
<1>7. AvisoBien'
  BY <1>1, <1>2 DEF ComensalInv, FallaApertura, UnaPagina, AvisoBien, PantallaBien, EnPago, Actual
<1> QED BY <1>2, <1>3, <1>4, <1>5, <1>6, <1>7, PaginaMueve

LEMMA ConsultarCanceladoBien ==
  ASSUME ComensalInv, ConsultarCancelado
  PROVE  ComensalInv'
<1>1. pagina \in UnaPagina /\ guardado \in UnGuardado
  BY DEF ComensalInv, ComensalTipos
<1>2. /\ UNCHANGED <<abierta, encargo, intento, movidos>> /\ cruzados \subseteq cruzados'
      /\ guardado' \in UnGuardado
  BY <1>1 DEF ConsultarCancelado
<1>3. pagina' \in UnaPagina
  BY <1>1 DEF ConsultarCancelado, UnaPagina, CarritosYVacio, EncargosYNinguno, Actual, EnPago
<1>4. EsperaQuieta
  BY <1>1 DEF ConsultarCancelado, UnaPagina, EsperaQuieta, EnPago, Actual
<1>5. LineasPagina'
  BY <1>1, <1>2 DEF ComensalInv, ConsultarCancelado, UnaPagina, LineasPagina, Suyo, EnPago, Actual
<1>6. PantallaBien'
  BY <1>1, <1>2 DEF ComensalInv, ConsultarCancelado, UnaPagina, PantallaBien, EnPago, Actual
<1>7. AvisoBien'
  BY <1>1, <1>2 DEF ComensalInv, ConsultarCancelado, UnaPagina, AvisoBien, PantallaBien, EnPago, Actual
<1> QED BY <1>2, <1>3, <1>4, <1>5, <1>6, <1>7, PaginaMueve

LEMMA AvisarAlMozoBien ==
  ASSUME ComensalInv, AvisarAlMozo
  PROVE  ComensalInv'
<1>1. pagina \in UnaPagina /\ guardado \in UnGuardado
  BY DEF ComensalInv, ComensalTipos
<1>2. /\ UNCHANGED <<abierta, encargo, intento, movidos>> /\ cruzados \subseteq cruzados'
      /\ guardado' \in UnGuardado
  BY <1>1 DEF AvisarAlMozo
<1>3. pagina' \in UnaPagina
  BY <1>1 DEF AvisarAlMozo, UnaPagina, CarritosYVacio, EncargosYNinguno, Actual, EnPago
<1>4. EsperaQuieta
  BY <1>1 DEF AvisarAlMozo, UnaPagina, EsperaQuieta, EnPago, Actual
<1>5. LineasPagina'
  BY <1>1, <1>2 DEF ComensalInv, AvisarAlMozo, UnaPagina, LineasPagina, Suyo, EnPago, Actual
<1>6. PantallaBien'
  BY <1>1, <1>2 DEF ComensalInv, AvisarAlMozo, UnaPagina, PantallaBien, EnPago, Actual
<1>7. AvisoBien'
  BY <1>1, <1>2 DEF ComensalInv, AvisarAlMozo, UnaPagina, AvisoBien, PantallaBien, EnPago, Actual
<1> QED BY <1>2, <1>3, <1>4, <1>5, <1>6, <1>7, PaginaMueve

\* What the screen was doing when the waiter is told is noted.
LEMMA LlegaAvisoBien ==
  ASSUME ComensalInv, LlegaAviso
  PROVE  ComensalInv'
<1>1. pagina \in UnaPagina /\ guardado \in UnGuardado
  BY DEF ComensalInv, ComensalTipos
<1>2. /\ UNCHANGED <<abierta, encargo, intento, movidos>> /\ cruzados \subseteq cruzados'
      /\ guardado' \in UnGuardado
  BY <1>1 DEF LlegaAviso
<1>3. pagina' \in UnaPagina
  BY <1>1 DEF LlegaAviso, UnaPagina, CarritosYVacio, EncargosYNinguno, Actual, EnPago, SinAviso
<1>4. EsperaQuieta
  BY <1>1 DEF LlegaAviso, UnaPagina, EsperaQuieta, EnPago, Actual, SinAviso
<1>5. LineasPagina'
  BY <1>1, <1>2 DEF ComensalInv, LlegaAviso, UnaPagina, LineasPagina, Suyo, EnPago, Actual, SinAviso
<1>6. PantallaBien'
  BY <1>1, <1>2 DEF ComensalInv, LlegaAviso, UnaPagina, PantallaBien, AvisoBien, EnPago,
       Actual, SinAviso
<1>7. AvisoBien'
  BY <1>1, <1>2 DEF ComensalInv, LlegaAviso, UnaPagina, AvisoBien, PantallaBien, EnPago, Actual, SinAviso
<1> QED BY <1>2, <1>3, <1>4, <1>5, <1>6, <1>7, PaginaMueve

LEMMA FallaAvisoBien ==
  ASSUME ComensalInv, FallaAviso
  PROVE  ComensalInv'
<1>1. pagina \in UnaPagina /\ guardado \in UnGuardado
  BY DEF ComensalInv, ComensalTipos
<1>2. /\ UNCHANGED <<abierta, encargo, intento, movidos>> /\ cruzados \subseteq cruzados'
      /\ guardado' \in UnGuardado
  BY <1>1 DEF FallaAviso
<1>3. pagina' \in UnaPagina
  BY <1>1 DEF FallaAviso, UnaPagina, CarritosYVacio, EncargosYNinguno, Actual, EnPago, SinAviso
<1>4. EsperaQuieta
  BY <1>1 DEF FallaAviso, UnaPagina, EsperaQuieta, EnPago, Actual, SinAviso
<1>5. LineasPagina'
  BY <1>1, <1>2 DEF ComensalInv, FallaAviso, UnaPagina, LineasPagina, Suyo, EnPago, Actual, SinAviso
<1>6. PantallaBien'
  BY <1>1, <1>2 DEF ComensalInv, FallaAviso, UnaPagina, PantallaBien, EnPago, Actual, SinAviso
<1>7. AvisoBien'
  BY <1>1, <1>2 DEF ComensalInv, FallaAviso, UnaPagina, AvisoBien, PantallaBien, EnPago, Actual, SinAviso
<1> QED BY <1>2, <1>3, <1>4, <1>5, <1>6, <1>7, PaginaMueve

LEMMA PagarConTarjetaBien ==
  ASSUME ComensalInv, PagarConTarjeta
  PROVE  ComensalInv'
<1>1. pagina \in UnaPagina /\ guardado \in UnGuardado
  BY DEF ComensalInv, ComensalTipos
<1>2. /\ UNCHANGED <<abierta, encargo, intento, movidos>> /\ cruzados \subseteq cruzados'
      /\ guardado' \in UnGuardado
  BY <1>1 DEF PagarConTarjeta
<1>3. pagina' \in UnaPagina
  BY <1>1 DEF PagarConTarjeta, UnaPagina, CarritosYVacio, EncargosYNinguno, Actual, EnPago
<1>4. EsperaQuieta
  BY <1>1 DEF PagarConTarjeta, UnaPagina, EsperaQuieta, EnPago, Actual
<1>5. LineasPagina'
  BY <1>1, <1>2 DEF ComensalInv, PagarConTarjeta, UnaPagina, LineasPagina, Suyo, EnPago, Actual
<1>6. PantallaBien'
  BY <1>1, <1>2 DEF ComensalInv, PagarConTarjeta, UnaPagina, PantallaBien, EnPago, Actual
<1>7. AvisoBien'
  BY <1>1, <1>2 DEF ComensalInv, PagarConTarjeta, UnaPagina, AvisoBien, PantallaBien, EnPago, Actual
<1> QED BY <1>2, <1>3, <1>4, <1>5, <1>6, <1>7, PaginaMueve

LEMMA VolverBien ==
  ASSUME ComensalInv, Volver
  PROVE  ComensalInv'
<1>1. pagina \in UnaPagina /\ guardado \in UnGuardado
  BY DEF ComensalInv, ComensalTipos
<1>2. /\ UNCHANGED <<abierta, encargo, intento, movidos>> /\ cruzados \subseteq cruzados'
      /\ guardado' \in UnGuardado
  BY <1>1 DEF Volver
<1>3. pagina' \in UnaPagina
  BY <1>1 DEF Volver, UnaPagina, CarritosYVacio, EncargosYNinguno, Actual, EnPago, Abandonado, SinAviso
<1>4. EsperaQuieta
  BY <1>1 DEF Volver, UnaPagina, EsperaQuieta, EnPago, Actual, Abandonado, SinAviso
<1>5. LineasPagina'
  BY <1>1, <1>2 DEF ComensalInv, Volver, UnaPagina, LineasPagina, Suyo, EnPago, Actual, Abandonado, SinAviso
<1>6. PantallaBien'
  BY <1>1, <1>2 DEF ComensalInv, Volver, UnaPagina, PantallaBien, EnPago, Actual, Abandonado, SinAviso
<1>7. AvisoBien'
  BY <1>1, <1>2 DEF ComensalInv, Volver, UnaPagina, AvisoBien, PantallaBien, EnPago, Actual, Abandonado, SinAviso
<1> QED BY <1>2, <1>3, <1>4, <1>5, <1>6, <1>7, PaginaMueve

LEMMA HacerOtroPedidoBien ==
  ASSUME ComensalInv, HacerOtroPedido
  PROVE  ComensalInv'
<1>1. pagina \in UnaPagina /\ guardado \in UnGuardado
  BY DEF ComensalInv, ComensalTipos
<1>2. /\ UNCHANGED <<abierta, encargo, intento, movidos>> /\ cruzados \subseteq cruzados'
      /\ guardado' \in UnGuardado
  BY <1>1 DEF HacerOtroPedido, NadaGuardado, UnGuardado, EncargosYNinguno, CarritosYVacio
<1>3. pagina' \in UnaPagina
  BY <1>1 DEF HacerOtroPedido, UnaPagina, CarritosYVacio, EncargosYNinguno, Actual, EnPago, NadaGuardado, UnGuardado
<1>4. EsperaQuieta
  BY <1>1 DEF HacerOtroPedido, UnaPagina, EsperaQuieta, EnPago, Actual, NadaGuardado
<1>5. LineasPagina'
  BY <1>1, <1>2 DEF ComensalInv, HacerOtroPedido, UnaPagina, LineasPagina, Suyo, EnPago, Actual, NadaGuardado
<1>6. PantallaBien'
  BY <1>1, <1>2 DEF ComensalInv, HacerOtroPedido, UnaPagina, PantallaBien, EnPago, Actual, NadaGuardado
<1>7. AvisoBien'
  BY <1>1, <1>2 DEF ComensalInv, HacerOtroPedido, UnaPagina, AvisoBien, PantallaBien, EnPago, Actual, NadaGuardado
<1> QED BY <1>2, <1>3, <1>4, <1>5, <1>6, <1>7, PaginaMueve

LEMMA DescartarBien ==
  ASSUME ComensalInv, Descartar
  PROVE  ComensalInv'
<1>1. pagina \in UnaPagina /\ guardado \in UnGuardado
  BY DEF ComensalInv, ComensalTipos
<1>2. /\ UNCHANGED <<abierta, encargo, intento, movidos>> /\ cruzados \subseteq cruzados'
      /\ guardado' \in UnGuardado
  BY <1>1 DEF Descartar, NadaGuardado, UnGuardado, EncargosYNinguno, CarritosYVacio
<1>3. pagina' \in UnaPagina
  BY <1>1 DEF Descartar, UnaPagina, CarritosYVacio, EncargosYNinguno, Actual, EnPago, NadaGuardado, SinRetoma, UnGuardado
<1>4. EsperaQuieta
  BY <1>1 DEF Descartar, UnaPagina, EsperaQuieta, EnPago, Actual, NadaGuardado, SinRetoma
<1>5. LineasPagina'
  BY <1>1, <1>2 DEF ComensalInv, Descartar, UnaPagina, LineasPagina, Suyo, EnPago, Actual, NadaGuardado, SinRetoma
<1>6. PantallaBien'
  BY <1>1, <1>2 DEF ComensalInv, Descartar, UnaPagina, PantallaBien, EnPago, Actual, NadaGuardado, SinRetoma
<1>7. AvisoBien'
  BY <1>1, <1>2 DEF ComensalInv, Descartar, UnaPagina, AvisoBien, PantallaBien, EnPago, Actual, NadaGuardado, SinRetoma
<1> QED BY <1>2, <1>3, <1>4, <1>5, <1>6, <1>7, PaginaMueve

-----------------------------------------------------------------------------
(* The diner's page: the steps that take it to another order, or to what is paid *)

LEMMA AbreEfecto ==
  ASSUME NEW p \in UnaPagina
  PROVE  /\ Abre(p) \in UnaPagina
         /\ Abre(p).vista = "pago" /\ Abre(p).apertura = "pide"
         /\ Abre(p).medios = "no" /\ Abre(p).pantalla = "formulario"
         /\ Abre(p).porPagar = p.porPagar /\ Abre(p).carrito = p.carrito
         /\ Abre(p).envio = p.envio /\ Abre(p).retoma = p.retoma
         /\ Abre(p).aviso = p.aviso
BY DEF UnaPagina, Abre

\* The payment screen of an order, which was open or is mounted.
LEMMA MuestraEfecto ==
  ASSUME NEW p \in UnaPagina, NEW o \in Encargos, NEW firma \in CarritosYVacio
  PROVE  /\ Muestra(p, o, firma) \in UnaPagina
         /\ Muestra(p, o, firma).vista = "pago"
         /\ Muestra(p, o, firma).porPagar.pedido = o
         /\ Muestra(p, o, firma).porPagar.firma = firma
         /\ Muestra(p, o, firma).carrito = p.carrito
         /\ Muestra(p, o, firma).envio = p.envio
         /\ Muestra(p, o, firma).retoma = p.retoma
         /\ Muestra(p, o, firma).aviso = p.aviso
         /\ \/ p.vista = "pago" /\ p.porPagar.pedido # 0
            \/ /\ Muestra(p, o, firma).apertura = "pide"
               /\ Muestra(p, o, firma).medios = "no"
               /\ Muestra(p, o, firma).pantalla = "formulario"
<1> DEFINE q == [p EXCEPT !.porPagar = [pedido |-> o, firma |-> firma]]
<1>1. /\ q \in UnaPagina /\ q.porPagar.pedido = o /\ q.porPagar.firma = firma
      /\ q.vista = p.vista /\ q.carrito = p.carrito /\ q.envio = p.envio
      /\ q.retoma = p.retoma /\ q.aviso = p.aviso /\ q.apertura = p.apertura
  BY DEF UnaPagina, EncargosYNinguno
<1>2. CASE p.vista = "pago" /\ p.porPagar.pedido # 0
  <2>1. Muestra(p, o, firma) =
          [q EXCEPT !.apertura = IF p.porPagar.pedido = o THEN @ ELSE "pide"]
    BY <1>2 DEF Muestra
  <2> HIDE DEF q
  <2> QED BY <1>1, <1>2, <2>1 DEF UnaPagina
<1>3. CASE ~(p.vista = "pago" /\ p.porPagar.pedido # 0)
  <2>1. Muestra(p, o, firma) = Abre(q)
    BY <1>3 DEF Muestra
  <2> HIDE DEF q
  <2> QED BY <1>1, <2>1, AbreEfecto
<1> QED BY <1>2, <1>3

LEMMA LlegaEncargoBien ==
  ASSUME ComensalInv, LlegaEncargo
  PROVE  ComensalInv'
<1> DEFINE e == pagina.envio
<1>1. /\ pagina \in UnaPagina /\ guardado \in UnGuardado /\ e.lineas \in CarritosYVacio
      /\ e.pedido \in Encargos /\ encargo[e.pedido].estado # "no"
      /\ encargo[e.pedido].lineas = e.lineas /\ e.pedido # 0
  BY DEF ComensalInv, ComensalTipos, UnaPagina, LlegaEncargo, LineasPagina, Suyo, Encargos
<1>2. /\ UNCHANGED <<abierta, encargo, intento>>
      /\ cruzados \subseteq cruzados' /\ movidos \subseteq movidos'
      /\ EnPago => {Actual, e.pedido} \subseteq cruzados'
      /\ pagina.carrito = e.lineas \/ e.pedido \in movidos'
  BY DEF LlegaEncargo
<1>3. guardado' = [pedido |-> e.pedido, lineas |-> e.lineas, firma |-> e.lineas,
                   aprobado |-> FALSE]
  BY DEF LlegaEncargo
<1>4. guardado' \in UnGuardado
  BY <1>1, <1>3 DEF UnGuardado, EncargosYNinguno
<1>5. PICK m \in UnaPagina : m = Muestra(pagina, e.pedido, e.lineas)
  BY <1>1, MuestraEfecto
<1>6. /\ m.vista = "pago" /\ m.porPagar.pedido = e.pedido
       /\ m.porPagar.firma = e.lineas /\ m.carrito = pagina.carrito
       /\ m.retoma = pagina.retoma /\ m.aviso = pagina.aviso
       /\ \/ pagina.vista = "pago" /\ pagina.porPagar.pedido # 0
          \/ m.apertura = "pide" /\ m.medios = "no" /\ m.pantalla = "formulario"
  BY <1>1, <1>5, MuestraEfecto
<1>7. \/ EnPago
      \/ m.apertura = "pide" /\ m.medios = "no" /\ m.pantalla = "formulario"
  BY <1>6 DEF EnPago, Actual
<1>8. pagina' = [m EXCEPT !.envio = SinEnvio]
  BY <1>5 DEF LlegaEncargo
<1>9. /\ pagina' \in UnaPagina /\ pagina'.vista = "pago"
      /\ pagina'.porPagar = m.porPagar /\ pagina'.carrito = pagina.carrito
      /\ pagina'.retoma = pagina.retoma /\ pagina'.aviso = pagina.aviso
      /\ pagina'.apertura = m.apertura /\ pagina'.medios = m.medios
      /\ pagina'.pantalla = m.pantalla /\ pagina'.envio.paso = "no"
  BY <1>1, <1>5, <1>6, <1>8 DEF UnaPagina, SinEnvio, CarritosYVacio, EncargosYNinguno
<1>10. LineasPagina'
  BY <1>1, <1>2, <1>3, <1>6, <1>9 DEF ComensalInv, LineasPagina, Suyo, EnPago, Actual
<1>11. EsperaQuieta
  BY <1>2 DEF EsperaQuieta
<1>12. PantallaBien'
  BY <1>2, <1>6, <1>7, <1>9 DEF PantallaBien, EnPago, Actual
<1>13. AvisoBien'
  BY <1>1, <1>2, <1>6, <1>9 DEF ComensalInv, AvisoBien, EnPago, Actual
<1> QED BY <1>2, <1>4, <1>9, <1>10, <1>11, <1>12, <1>13, PaginaMueve

LEMMA RetomarPagoBien ==
  ASSUME ComensalInv, RetomarPago
  PROVE  ComensalInv'
<1> DEFINE g == pagina.retoma.de
           p == [pagina EXCEPT !.retoma = SinRetoma, !.carrito = g.lineas]
<1>1. /\ pagina \in UnaPagina /\ g \in UnGuardado /\ g.pedido # 0
      /\ Suyo(g.pedido, g.lineas) /\ Suyo(g.pedido, g.firma)
  BY DEF ComensalInv, ComensalTipos, UnaPagina, RetomarPago, LineasPagina
<1>2. g.pedido \in Encargos /\ g.lineas \in CarritosYVacio /\ g.firma \in CarritosYVacio
  BY <1>1 DEF Suyo, UnGuardado
<1>3. /\ UNCHANGED <<abierta, encargo, intento, guardado, movidos>>
      /\ cruzados \subseteq cruzados'
      /\ EnPago => {Actual, g.pedido} \subseteq cruzados'
  BY DEF RetomarPago
<1>4. SinRetoma \in [paso : {"no", "pide", "pago", "aprobado", "descartar"}, de : UnGuardado]
  BY DEF SinRetoma, NadaGuardado, UnGuardado, EncargosYNinguno, CarritosYVacio
<1>5. /\ p \in UnaPagina /\ p.carrito = g.lineas /\ p.retoma.paso = "no"
      /\ p.vista = pagina.vista /\ p.porPagar = pagina.porPagar
      /\ p.envio = pagina.envio /\ p.aviso = pagina.aviso
  BY <1>1, <1>2, <1>4 DEF UnaPagina, SinRetoma
<1>6. pagina' = Muestra(p, g.pedido, g.firma)
  BY DEF RetomarPago
<1> HIDE DEF p
<1>7. /\ pagina' \in UnaPagina /\ pagina'.vista = "pago"
      /\ pagina'.porPagar.pedido = g.pedido /\ pagina'.porPagar.firma = g.firma
      /\ pagina'.carrito = g.lineas /\ pagina'.envio = pagina.envio
      /\ pagina'.retoma.paso = "no" /\ pagina'.aviso = pagina.aviso
      /\ \/ EnPago
         \/ /\ pagina'.apertura = "pide" /\ pagina'.medios = "no"
            /\ pagina'.pantalla = "formulario"
  BY <1>2, <1>5, <1>6, MuestraEfecto DEF EnPago, Actual
<1>8. LineasPagina'
  BY <1>1, <1>3, <1>7 DEF ComensalInv, LineasPagina, Suyo, EnPago, Actual
<1>9. EsperaQuieta
  BY <1>3 DEF EsperaQuieta
<1>10. PantallaBien'
  BY <1>3, <1>7 DEF PantallaBien, EnPago, Actual
<1>11. AvisoBien'
  BY <1>1, <1>3, <1>7 DEF ComensalInv, AvisoBien, EnPago, Actual
<1> QED
  BY <1>3, <1>7, <1>8, <1>9, <1>10, <1>11, PaginaMueve DEF ComensalInv, ComensalTipos

\* The notice of a screen that is closed.
LEMMA AbandonadoEfecto ==
  ASSUME pagina \in UnaPagina
  PROVE  /\ Abandonado \in [paso : {"no", "pide", "avisado", "perdido"},
                            pedido : EncargosYNinguno]
         /\ Abandonado.paso \in {"no", "perdido"}
         /\ Abandonado.paso # "no" => /\ pagina.aviso.paso # "no"
                                      /\ Abandonado.pedido = pagina.aviso.pedido
BY DEF Abandonado, SinAviso, UnaPagina, EncargosYNinguno

LEMMA RetomarAprobadoBien ==
  ASSUME ComensalInv, RetomarAprobado
  PROVE  ComensalInv'
<1>0. /\ pagina \in UnaPagina /\ pagina.retoma.de \in UnGuardado
      /\ pagina.retoma.paso = "aprobado"
  BY DEF ComensalInv, ComensalTipos, UnaPagina, RetomarAprobado
<1> PICK g \in UnGuardado : g = pagina.retoma.de
  BY <1>0
<1>1. g.pedido # 0 /\ Suyo(g.pedido, g.lineas) /\ Suyo(g.pedido, g.firma)
  BY <1>0 DEF ComensalInv, LineasPagina
<1>2. /\ UNCHANGED <<abierta, encargo, intento, movidos>>
      /\ cruzados \subseteq cruzados'
      /\ EnPago => Actual \in cruzados'
  BY DEF RetomarAprobado
<1>3. /\ guardado' \in UnGuardado /\ guardado'.pedido = g.pedido
      /\ guardado'.lineas = g.lineas /\ guardado'.firma = g.firma
  BY DEF RetomarAprobado, UnGuardado
<1>4. SinRetoma \in [paso : {"no", "pide", "pago", "aprobado", "descartar"}, de : UnGuardado]
  BY DEF SinRetoma, NadaGuardado, UnGuardado, EncargosYNinguno, CarritosYVacio
<1>5. /\ pagina' \in UnaPagina /\ pagina'.vista = "aprobado"
      /\ pagina'.porPagar = pagina.porPagar /\ pagina'.envio = pagina.envio
      /\ pagina'.aprobado.pedido = g.pedido /\ pagina'.aprobado.lineas = g.lineas
      /\ pagina'.retoma.paso = "no" /\ pagina'.aviso = Abandonado
  <2>1. PICK v \in [paso : {"no", "pide", "avisado", "perdido"}, pedido : EncargosYNinguno] :
          v = Abandonado
    BY <1>0, AbandonadoEfecto
  <2>2. pagina' = [pagina EXCEPT !.retoma = SinRetoma, !.vista = "aprobado",
       !.aprobado = [pedido |-> g.pedido, lineas |-> g.lineas],
       !.apertura = "no", !.aviso = v]
    BY <2>1 DEF RetomarAprobado
  <2>3. SinRetoma.paso = "no"
    BY DEF SinRetoma
  <2> QED BY <1>0, <1>4, <2>1, <2>2, <2>3 DEF UnaPagina, UnGuardado
<1>6. /\ pagina'.aviso.paso \in {"no", "perdido"}
      /\ pagina'.aviso.paso # "no" => pagina'.aviso.pedido \in Encargos
  BY <1>0, <1>5, AbandonadoEfecto DEF ComensalInv, LineasPagina
<1>7. LineasPagina'
  BY <1>0, <1>1, <1>2, <1>3, <1>5, <1>6 DEF ComensalInv, LineasPagina, Suyo, EnPago, Actual
<1>8. EsperaQuieta
  BY <1>2 DEF EsperaQuieta
<1>9. PantallaBien' /\ AvisoBien'
  BY <1>5, <1>6 DEF PantallaBien, AvisoBien, EnPago
<1> QED BY <1>2, <1>3, <1>5, <1>7, <1>8, <1>9, PaginaMueve

\* What is shown as paid is an order with its lines.
LEMMA AprobadaEfecto ==
  ASSUME pagina \in UnaPagina, NEW o \in EncargosYNinguno, NEW lineas \in CarritosYVacio
  PROVE  /\ Aprobada(pagina, o, lineas) \in UnaPagina
         /\ Aprobada(pagina, o, lineas).vista = "aprobado"
         /\ Aprobada(pagina, o, lineas).aprobado.pedido = o
         /\ Aprobada(pagina, o, lineas).aprobado.lineas = lineas
         /\ Aprobada(pagina, o, lineas).porPagar.pedido = 0
         /\ Aprobada(pagina, o, lineas).envio = pagina.envio
         /\ Aprobada(pagina, o, lineas).retoma = pagina.retoma
         /\ Aprobada(pagina, o, lineas).aviso = Abandonado
<1>1. PICK v \in [paso : {"no", "pide", "avisado", "perdido"}, pedido : EncargosYNinguno] :
        v = Abandonado
  BY AbandonadoEfecto
<1>2. Aprobada(pagina, o, lineas) =
        [pagina EXCEPT !.aprobado = [pedido |-> o, lineas |-> lineas],
                       !.porPagar = SinPedido, !.carrito = Vacio, !.vista = "aprobado",
                       !.apertura = "no", !.aviso = v]
  BY <1>1 DEF Aprobada
<1>3. /\ SinPedido \in [pedido : EncargosYNinguno, firma : CarritosYVacio]
      /\ SinPedido.pedido = 0 /\ Vacio \in CarritosYVacio
  BY DEF SinPedido, EncargosYNinguno, CarritosYVacio
<1>4. PICK a \in [pedido : EncargosYNinguno, lineas : CarritosYVacio] :
        a = [pedido |-> o, lineas |-> lineas]
  OBVIOUS
<1>5. PICK s \in [pedido : EncargosYNinguno, firma : CarritosYVacio] : s = SinPedido
  BY <1>3
<1>6. Aprobada(pagina, o, lineas) =
        [pagina EXCEPT !.aprobado = a, !.porPagar = s, !.carrito = Vacio,
                       !.vista = "aprobado", !.apertura = "no", !.aviso = v]
  BY <1>2, <1>4, <1>5
<1>7. /\ Aprobada(pagina, o, lineas) \in UnaPagina
      /\ Aprobada(pagina, o, lineas).aviso = v
  BY ZenonT(60), <1>3, <1>6 DEF UnaPagina
<1> QED BY <1>7, <1>5, <1>4, <1>6,  <1>1, <1>2, <1>3, <1>4 DEF UnaPagina

\* What is left when an order is shown as paid.
LEMMA AprobadaLineas ==
  ASSUME ComensalInv, NEW o \in Encargos, NEW lineas \in CarritosYVacio, Suyo(o, lineas),
         UNCHANGED <<encargo, movidos>>,
         pagina' = Aprobada(pagina, o, lineas), GuardaAprobado(o, lineas)
  PROVE  /\ pagina' \in UnaPagina /\ guardado' \in UnGuardado
         /\ LineasPagina' /\ PantallaBien' /\ AvisoBien'
<1>1. pagina \in UnaPagina /\ o \in EncargosYNinguno
  BY DEF ComensalInv, ComensalTipos, EncargosYNinguno
<1>2. /\ pagina' \in UnaPagina /\ pagina'.vista = "aprobado"
      /\ pagina'.aprobado.pedido = o /\ pagina'.aprobado.lineas = lineas
      /\ pagina'.porPagar.pedido = 0 /\ pagina'.envio = pagina.envio
      /\ pagina'.retoma = pagina.retoma /\ pagina'.aviso = Abandonado
  BY <1>1, AprobadaEfecto
<1>3. /\ guardado' \in UnGuardado /\ guardado'.pedido = o
      /\ guardado'.lineas = lineas /\ guardado'.firma = lineas
  BY <1>1 DEF GuardaAprobado, UnGuardado
<1>4. /\ pagina'.aviso.paso \in {"no", "perdido"}
      /\ pagina'.aviso.paso # "no" => pagina'.aviso.pedido \in Encargos
  BY <1>1, <1>2, AbandonadoEfecto DEF ComensalInv, LineasPagina
<1>5. LineasPagina'
  BY <1>2, <1>3, <1>4 DEF ComensalInv, LineasPagina, Suyo, EnPago, Actual
<1>6. PantallaBien' /\ AvisoBien'
  BY <1>2, <1>4 DEF PantallaBien, AvisoBien, EnPago
<1> QED BY <1>2, <1>3, <1>5, <1>6

LEMMA ConsultarPagoBien ==
  ASSUME ComensalInv, ConsultarPago
  PROVE  ComensalInv'
<1>1. /\ pagina \in UnaPagina /\ guardado \in UnGuardado /\ EnPago /\ Actual \in Encargos
      /\ Suyo(Actual, pagina.carrito) /\ pagina.carrito \in CarritosYVacio
  BY DEF ComensalInv, ComensalTipos, UnaPagina, ConsultarPago, LineasPagina, Suyo
<1>2. UNCHANGED <<abierta, encargo, intento, movidos, cruzados>>
  BY DEF ConsultarPago
<1>3. EsperaQuieta
  BY DEF ConsultarPago, EsperaQuieta
<1>4. CASE ResultadoDe(Actual) = "aprobado"
  <2>1. PICK o \in Encargos, lineas \in CarritosYVacio :
          o = Actual /\ lineas = pagina.carrito
    BY <1>1
  <2>2. pagina' = Aprobada(pagina, o, lineas) /\ GuardaAprobado(o, lineas)
    BY <1>4, <2>1 DEF ConsultarPago
  <2> QED BY <1>1, <1>2, <1>3, <2>1, <2>2, AprobadaLineas, PaginaMueve
<1>5. CASE ResultadoDe(Actual) # "aprobado"
  <2>1. /\ ResultadoDe(Actual) = "rechazado" /\ encargo[Actual].pago = "RECHAZADO"
        /\ pagina' = [pagina EXCEPT !.pantalla = ResultadoDe(Actual)] /\ UNCHANGED guardado
    BY <1>5 DEF ConsultarPago, ResultadoDe
  <2>2. pagina' \in UnaPagina
    BY <1>1, <2>1 DEF UnaPagina
  <2>3. LineasPagina' /\ AvisoBien'
    BY <1>1, <1>2, <2>1 DEF ComensalInv, UnaPagina, LineasPagina, AvisoBien, Suyo, EnPago, Actual
  <2>4. PantallaBien'
    BY <1>1, <1>2, <2>1 DEF ComensalInv, UnaPagina, PantallaBien, EnPago, Actual, ConsultarPago
  <2> QED BY <1>1, <1>2, <1>3, <2>1, <2>2, <2>3, <2>4, PaginaMueve
<1> QED BY <1>4, <1>5
-----------------------------------------------------------------------------
(* The diner's page: the orders *)

LEMMA CrearEncargoBien ==
  ASSUME ComensalInv, CrearEncargo
  PROVE  ComensalInv'
<1>1. /\ pagina \in UnaPagina /\ pagina.envio.lineas \in CarritosYVacio
      /\ encargo \in [Encargos ->
           [lineas : CarritosYVacio, estado : {"no", "PENDIENTE_PAGO", "CANCELADO", "PAGADO"},
            pago : {"no", "PENDIENTE", "APROBADO", "RECHAZADO"}, avisado : BOOLEAN]]
  BY DEF ComensalInv, ComensalTipos, UnaPagina
<1>2. PICK o \in Encargos :
        /\ encargo[o].estado = "no"
        /\ encargo' = [encargo EXCEPT ![o] =
             [Nuevo EXCEPT !.lineas = pagina.envio.lineas, !.estado = "PENDIENTE_PAGO"]]
        /\ pagina' = [pagina EXCEPT !.envio.paso = "creado", !.envio.pedido = o]
  BY DEF CrearEncargo
<1>3. UNCHANGED <<abierta, guardado, intento, movidos, cruzados>>
  BY DEF CrearEncargo
<1>4. /\ encargo'[o].lineas = pagina.envio.lineas /\ encargo'[o].estado = "PENDIENTE_PAGO"
      /\ encargo'[o].pago = "no" /\ encargo'[o].avisado = FALSE
      /\ \A x \in Encargos \ {o} : encargo'[x] = encargo[x]
  BY <1>1, <1>2 DEF Nuevo
<1>5. /\ SigueLaPagina /\ pagina'.aviso = pagina.aviso /\ pagina'.envio.paso = "creado"
      /\ pagina'.envio.pedido = o /\ pagina'.envio.lineas = pagina.envio.lineas
  BY <1>1, <1>2 DEF UnaPagina, SigueLaPagina, EncargosYNinguno
<1>6. ComensalTipos'
  <2>1. encargo' \in [Encargos ->
          [lineas : CarritosYVacio, estado : {"no", "PENDIENTE_PAGO", "CANCELADO", "PAGADO"},
           pago : {"no", "PENDIENTE", "APROBADO", "RECHAZADO"}, avisado : BOOLEAN]]
    BY <1>1, <1>2 DEF Nuevo
  <2> QED BY <1>3, <1>5, <2>1 DEF ComensalInv, ComensalTipos, SigueLaPagina
<1>7. EncargosBien'
  BY <1>3, <1>4 DEF ComensalInv, EncargosBien
<1>8. LineasQuietas
  BY <1>2, <1>4 DEF LineasQuietas
<1>9. EnvioBien'
  BY <1>4, <1>5 DEF EnvioBien, Suyo
<1>10. pagina'.aviso.paso # "no" => pagina'.aviso.pedido \in Encargos
  BY <1>5 DEF ComensalInv, LineasPagina
<1>11. \A x \in Encargos : encargo'[x].pago = "PENDIENTE" => encargo[x].pago = "PENDIENTE"
  BY <1>4
<1> QED BY <1>3, <1>4, <1>5, <1>6, <1>7, <1>8, <1>9, <1>10, <1>11, EncargosMueven

LEMMA SolicitarEfectivoBien ==
  ASSUME ComensalInv, SolicitarEfectivo
  PROVE  ComensalInv'
<1>1. /\ pagina \in UnaPagina
      /\ encargo \in [Encargos ->
           [lineas : CarritosYVacio, estado : {"no", "PENDIENTE_PAGO", "CANCELADO", "PAGADO"},
            pago : {"no", "PENDIENTE", "APROBADO", "RECHAZADO"}, avisado : BOOLEAN]]
  BY DEF ComensalInv, ComensalTipos
<1>2. PICK o \in Encargos : o = pagina.aviso.pedido
  BY DEF SolicitarEfectivo, ComensalInv, LineasPagina
<1>3. encargo' = [encargo EXCEPT ![o].avisado = TRUE]
  BY <1>2 DEF SolicitarEfectivo
<1>4. UNCHANGED <<abierta, guardado, intento, movidos, cruzados>>
  BY DEF SolicitarEfectivo
<1>5. \A x \in Encargos : /\ encargo'[x].lineas = encargo[x].lineas
                          /\ encargo'[x].estado = encargo[x].estado
                          /\ encargo'[x].pago = encargo[x].pago
  BY <1>1, <1>3
<1>6. /\ SigueLaPagina /\ pagina'.envio = pagina.envio
      /\ pagina'.aviso.paso # "no" => pagina'.aviso.pedido = o
      /\ pagina'.aviso.paso \in {"pide", "avisado"} => pagina.aviso.paso = "pide"
  <2>0. pagina.aviso \in [paso : {"no", "pide", "avisado", "perdido"},
                          pedido : EncargosYNinguno]
    BY <1>1 DEF UnaPagina
  <2> DEFINE a == IF pagina.aviso.paso = "pide" THEN [pagina.aviso EXCEPT !.paso = "avisado"]
                  ELSE SinAviso
  <2>1. /\ a \in [paso : {"no", "pide", "avisado", "perdido"}, pedido : EncargosYNinguno]
        /\ a.paso # "no" => a.pedido = o
        /\ a.paso \in {"pide", "avisado"} => pagina.aviso.paso = "pide"
    BY <1>2, <2>0 DEF SinAviso, EncargosYNinguno
  <2>2. pagina' = [pagina EXCEPT !.aviso = a]
    BY DEF SolicitarEfectivo
  <2> HIDE DEF a
  <2> QED BY <1>1, <2>1, <2>2 DEF SigueLaPagina, UnaPagina
<1>7. ComensalTipos'
  <2>1. encargo' \in [Encargos ->
          [lineas : CarritosYVacio, estado : {"no", "PENDIENTE_PAGO", "CANCELADO", "PAGADO"},
           pago : {"no", "PENDIENTE", "APROBADO", "RECHAZADO"}, avisado : BOOLEAN]]
    BY <1>1, <1>3
  <2> QED BY <1>4, <1>6, <2>1 DEF ComensalInv, ComensalTipos, SigueLaPagina
<1>8. EncargosBien'
  BY <1>4, <1>5 DEF ComensalInv, EncargosBien
<1>9. LineasQuietas
  BY <1>5 DEF LineasQuietas
<1>10. EnvioBien'
  BY <1>4, <1>5, <1>6 DEF ComensalInv, LineasPagina, EnvioBien, Suyo
<1>11. pagina'.aviso.paso # "no" => pagina'.aviso.pedido \in Encargos
  BY <1>6
<1>12. pagina'.aviso.paso \in {"pide", "avisado"} => pagina.aviso.paso \in {"pide", "avisado"}
  BY <1>6
<1>13. \A x \in Encargos : encargo'[x].pago = "PENDIENTE" => encargo[x].pago = "PENDIENTE"
  BY <1>5
<1> QED
  BY <1>4, <1>6, <1>7, <1>8, <1>9, <1>10, <1>11, <1>12, <1>13, EncargosMueven

\* A step of the orders alone.
LEMMA SoloEncargos ==
  ASSUME ComensalInv, UNCHANGED <<pagina, guardado, intento, movidos, cruzados>>,
         ComensalTipos', EncargosBien', LineasQuietas,
         \A o \in Encargos : encargo'[o].pago = "PENDIENTE" => encargo[o].pago = "PENDIENTE"
  PROVE  ComensalInv'
<1>1. SigueLaPagina
  BY DEF SigueLaPagina, ComensalInv, ComensalTipos
<1>2. EnvioBien'
  BY DEF ComensalInv, LineasPagina, LineasQuietas, EnvioBien, Suyo
<1>3. pagina'.aviso.paso # "no" => pagina'.aviso.pedido \in Encargos
  BY DEF ComensalInv, LineasPagina
<1>4. pagina'.aviso.paso \in {"pide", "avisado"} => pagina.aviso.paso \in {"pide", "avisado"}
  OBVIOUS
<1> QED BY <1>1, <1>2, <1>3, <1>4, EncargosMueven

LEMMA ResolverPagoBien ==
  ASSUME ComensalInv, NEW o \in Encargos, ResolverPago(o)
  PROVE  ComensalInv'
<1>1. /\ encargo[o].pago = "PENDIENTE"
      /\ UNCHANGED <<abierta, pagina, guardado, intento, movidos, cruzados>>
  BY DEF ResolverPago
<1>2. PICK pago \in {"APROBADO", "RECHAZADO"} : encargo' = Resuelto(o, pago)
  BY DEF ResolverPago
<1>3. /\ encargo' \in [Encargos ->
           [lineas : CarritosYVacio, estado : {"no", "PENDIENTE_PAGO", "CANCELADO", "PAGADO"},
            pago : {"no", "PENDIENTE", "APROBADO", "RECHAZADO"}, avisado : BOOLEAN]]
      /\ encargo'[o].pago = pago /\ encargo'[o].lineas = encargo[o].lineas
      /\ encargo'[o].estado = IF pago = "APROBADO" THEN "PAGADO" ELSE encargo[o].estado
      /\ \A x \in Encargos \ {o} : encargo'[x] = encargo[x]
  BY <1>2 DEF Resuelto, ComensalInv, ComensalTipos
<1>4. ComensalTipos'
  BY <1>1, <1>3 DEF ComensalInv, ComensalTipos
<1>5. EncargosBien'
  BY <1>1, <1>2, <1>3 DEF ComensalInv, EncargosBien
<1>6. LineasQuietas
  BY <1>1, <1>2, <1>3 DEF ComensalInv, LineasQuietas
<1>7. \A x \in Encargos : encargo'[x].pago = "PENDIENTE" => encargo[x].pago = "PENDIENTE"
  BY <1>1, <1>3
<1> QED BY <1>1, <1>4, <1>5, <1>6, <1>7, SoloEncargos

LEMMA CobrarEnManoBien ==
  ASSUME ComensalInv, NEW o \in Encargos, CobrarEnMano(o)
  PROVE  ComensalInv'
<1>1. /\ encargo[o].estado = "PENDIENTE_PAGO"
      /\ UNCHANGED <<abierta, pagina, guardado, intento, movidos, cruzados>>
      /\ encargo' = Resuelto(o, "APROBADO")
  BY DEF CobrarEnMano
<1>2. /\ encargo' \in [Encargos ->
           [lineas : CarritosYVacio, estado : {"no", "PENDIENTE_PAGO", "CANCELADO", "PAGADO"},
            pago : {"no", "PENDIENTE", "APROBADO", "RECHAZADO"}, avisado : BOOLEAN]]
      /\ encargo'[o].pago = "APROBADO" /\ encargo'[o].lineas = encargo[o].lineas
      /\ encargo'[o].estado = "PAGADO"
      /\ \A x \in Encargos \ {o} : encargo'[x] = encargo[x]
  BY <1>1 DEF Resuelto, ComensalInv, ComensalTipos
<1>3. ComensalTipos'
  BY <1>1, <1>2 DEF ComensalInv, ComensalTipos
<1>4. EncargosBien'
  BY <1>1, <1>2 DEF ComensalInv, EncargosBien
<1>5. LineasQuietas
  BY <1>2 DEF LineasQuietas
<1>6. \A x \in Encargos : encargo'[x].pago = "PENDIENTE" => encargo[x].pago = "PENDIENTE"
  BY <1>2
<1> QED BY <1>1, <1>3, <1>4, <1>5, <1>6, SoloEncargos

LEMMA CerrarLaMesaBien ==
  ASSUME ComensalInv, CerrarLaMesa
  PROVE  ComensalInv'
<1>1. /\ abierta' = FALSE /\ UNCHANGED <<pagina, guardado, intento, movidos, cruzados>>
      /\ \A o \in Encargos : encargo[o].pago # "PENDIENTE"
      /\ encargo' = [o \in Encargos |->
           IF encargo[o].estado = "PENDIENTE_PAGO"
             THEN [encargo[o] EXCEPT !.estado = "CANCELADO"] ELSE encargo[o]]
  BY DEF CerrarLaMesa
<1>2. encargo' \in [Encargos ->
        [lineas : CarritosYVacio, estado : {"no", "PENDIENTE_PAGO", "CANCELADO", "PAGADO"},
         pago : {"no", "PENDIENTE", "APROBADO", "RECHAZADO"}, avisado : BOOLEAN]]
  BY <1>1 DEF ComensalInv, ComensalTipos
<1>3. \A o \in Encargos :
        /\ encargo'[o].lineas = encargo[o].lineas /\ encargo'[o].pago = encargo[o].pago
        /\ encargo'[o].estado = IF encargo[o].estado = "PENDIENTE_PAGO" THEN "CANCELADO"
                                ELSE encargo[o].estado
  BY <1>1 DEF ComensalInv, ComensalTipos
<1>4. ComensalTipos'
  BY <1>1, <1>2 DEF ComensalInv, ComensalTipos
<1>5. EncargosBien'
  BY <1>1, <1>3 DEF ComensalInv, EncargosBien
<1>6. LineasQuietas
  BY <1>3 DEF LineasQuietas
<1> QED BY <1>1, <1>3, <1>4, <1>5, <1>6, SoloEncargos
-----------------------------------------------------------------------------
(* The diner's page: the payments *)

\* A payment that is answered or refused: nobody waits for it, or it is.
LEMMA RespondidoBien ==
  ASSUME ComensalInv, NEW i \in Intentos,
         NEW r \in {"aprobado", "rechazado", "verificando", "error"},
         UNCHANGED <<abierta, encargo, pagina, guardado, movidos, cruzados>>,
         IntentoVivo(i), intento' = Respondido(i, r),
         \/ r = "verificando"
         \/ encargo[intento[i].pedido].pago # "PENDIENTE"
         \/ intento[i].pedido \in cruzados
  PROVE  ComensalInv'
<1>1. intento \in [Intentos -> UnIntento]
  BY DEF ComensalInv, ComensalTipos
<1>2. Terminado \in UnIntento /\ Terminado.paso = "terminado"
  BY DEF Terminado, SinIntento, UnIntento, EncargosYNinguno, CarritosYVacio
<1>3. CASE intento[i].atento
  <2>1. intento[i] \in UnIntento
    BY <1>1
  <2>2. PICK n \in UnIntento :
          n = [intento[i] EXCEPT !.paso = "respondido", !.respuesta = r]
    BY <2>1 DEF UnIntento
  <2>3. /\ n.pedido = intento[i].pedido /\ n.atento = intento[i].atento
        /\ n.lineas = intento[i].lineas /\ n.paso = "respondido" /\ n.respuesta = r
    BY <2>1, <2>2 DEF UnIntento
  <2>4. intento' = [intento EXCEPT ![i] = n]
    BY <1>1, <1>3, <2>2 DEF Respondido
  <2>5. /\ intento' \in [Intentos -> UnIntento]
        /\ \A k \in Intentos \ {i} : intento'[k] = intento[k]
        /\ intento'[i].pedido = intento[i].pedido /\ intento'[i].atento = intento[i].atento
        /\ intento'[i].lineas = intento[i].lineas
        /\ intento'[i].paso = "respondido" /\ intento'[i].respuesta = r
    BY <1>1, <2>3, <2>4
  <2> QED BY <2>5, IntentoMueve
<1>4. CASE ~intento[i].atento
  <2>1. intento' = [intento EXCEPT ![i] = Terminado]
    BY <1>4 DEF Respondido
  <2>2. /\ intento' \in [Intentos -> UnIntento]
        /\ \A k \in Intentos \ {i} : intento'[k] = intento[k]
        /\ ~IntentoVivo(i)'
    BY <1>1, <1>2, <2>1 DEF IntentoVivo
  <2> QED BY <2>2, IntentoMueve
<1> QED BY <1>3, <1>4

LEMMA ConflictoBien ==
  ASSUME ComensalInv, NEW i \in Intentos, ConflictoDelIntento(i)
  PROVE  ComensalInv'
BY RespondidoBien DEF ConflictoDelIntento, IntentoVivo

LEMMA RehusarBien ==
  ASSUME ComensalInv, NEW i \in Intentos, RehusarIntento(i)
  PROVE  ComensalInv'
<1>1. IntentoVivo(i) /\ intento[i].paso = "enviado"
  BY DEF RehusarIntento, IntentoVivo
<1>2. \/ encargo[intento[i].pedido].pago # "PENDIENTE"
      \/ intento[i].pedido \in cruzados
  BY <1>1 DEF ComensalInv, IntentosBien
<1> QED BY <1>1, <1>2, RespondidoBien DEF RehusarIntento

LEMMA ResponderBien ==
  ASSUME ComensalInv, NEW i \in Intentos, ResponderIntento(i)
  PROVE  ComensalInv'
<1>1. IntentoVivo(i)
  BY DEF ResponderIntento, IntentoVivo
<1>2. PICK r \in {"aprobado", "rechazado", "verificando", "error"} :
        r = ResultadoDe(intento[i].pedido)
  BY DEF ResultadoDe
<1>3. r = "verificando" \/ encargo[intento[i].pedido].pago # "PENDIENTE"
  BY <1>2 DEF ResultadoDe
<1>4. /\ UNCHANGED <<abierta, encargo, pagina, guardado, movidos, cruzados>>
      /\ intento' = Respondido(i, r)
  BY <1>2 DEF ResponderIntento
<1> QED BY <1>1, <1>3, <1>4, RespondidoBien

LEMMA ReservarBien ==
  ASSUME ComensalInv, NEW i \in Intentos, ReservarIntento(i)
  PROVE  ComensalInv'
<1>1. /\ intento \in [Intentos -> UnIntento]
      /\ encargo \in [Encargos ->
           [lineas : CarritosYVacio, estado : {"no", "PENDIENTE_PAGO", "CANCELADO", "PAGADO"},
            pago : {"no", "PENDIENTE", "APROBADO", "RECHAZADO"}, avisado : BOOLEAN]]
      /\ IntentoVivo(i) /\ intento[i].paso = "enviado" /\ abierta
      /\ UNCHANGED <<abierta, pagina, guardado, movidos, cruzados>>
  BY DEF ComensalInv, ComensalTipos, ReservarIntento, IntentoVivo
<1>2. PICK o \in Encargos : o = intento[i].pedido /\ encargo[o].estado # "no"
  BY <1>1 DEF ComensalInv, LineasIntentos
<1>3. /\ encargo[o].pago \notin {"PENDIENTE", "APROBADO"}
      /\ encargo' = [encargo EXCEPT ![o].pago = "PENDIENTE"]
  BY <1>2 DEF ReservarIntento
<1>4. /\ encargo' \in [Encargos ->
           [lineas : CarritosYVacio, estado : {"no", "PENDIENTE_PAGO", "CANCELADO", "PAGADO"},
            pago : {"no", "PENDIENTE", "APROBADO", "RECHAZADO"}, avisado : BOOLEAN]]
      /\ \A x \in Encargos : /\ encargo'[x].lineas = encargo[x].lineas
                             /\ encargo'[x].estado = encargo[x].estado
      /\ \A x \in Encargos \ {o} : encargo'[x] = encargo[x]
      /\ encargo'[o].pago = "PENDIENTE"
  BY <1>1, <1>3
<1>5. Terminado \in UnIntento /\ Terminado.paso = "terminado"
  BY DEF Terminado, SinIntento, UnIntento, EncargosYNinguno, CarritosYVacio
<1>6. /\ intento' \in [Intentos -> UnIntento]
      /\ \A k \in Intentos \ {i} : intento'[k] = intento[k]
      /\ IntentoVivo(i)' =>
           intento[i].atento /\ intento'[i] = [intento[i] EXCEPT !.paso = "cobrando"]
  <2>1. CASE intento[i].atento
    <3>1. intento' = [intento EXCEPT ![i] = [@ EXCEPT !.paso = "cobrando"]]
      BY <2>1 DEF ReservarIntento
    <3> QED BY <1>1, <2>1, <3>1 DEF UnIntento
  <2>2. CASE ~intento[i].atento
    <3>1. intento' = [intento EXCEPT ![i] = Terminado]
      BY <2>2 DEF ReservarIntento
    <3> QED BY <1>1, <1>5, <3>1 DEF IntentoVivo
  <2> QED BY <2>1, <2>2
<1>7. \A k \in Intentos : IntentoVivo(k)' =>
        /\ IntentoVivo(k) /\ intento'[k].pedido = intento[k].pedido
        /\ intento'[k].atento = intento[k].atento /\ intento'[k].lineas = intento[k].lineas
        /\ k # i => intento'[k] = intento[k]
        /\ k = i => intento'[k].paso = "cobrando"
  BY <1>1, <1>6 DEF IntentoVivo, UnIntento
<1>8. ComensalTipos'
  BY <1>1, <1>4, <1>6 DEF ComensalInv, ComensalTipos
<1>9. LineasPagina'
  BY <1>1, <1>4 DEF ComensalInv, LineasPagina, Suyo, EnPago, Actual
<1>10. LineasIntentos'
  BY <1>1, <1>4, <1>7 DEF ComensalInv, LineasIntentos, Suyo
<1>11. EncargosBien'
  <2>1. encargo[o].estado = "PENDIENTE_PAGO"
    BY <1>1, <1>2, <1>3 DEF ComensalInv, EncargosBien
  <2> QED BY <1>1, <1>4, <2>1 DEF ComensalInv, EncargosBien
<1>12. IntentosBien'
  <2>1. SUFFICES ASSUME NEW k \in Intentos, IntentoVivo(k)', intento[k].pedido \notin cruzados
                 PROVE  /\ intento[k].atento /\ EnPago /\ Actual = intento[k].pedido
                        /\ pagina.pantalla = "procesando"
                        /\ encargo'[intento[k].pedido].pago = "PENDIENTE" =>
                             \/ intento'[k].paso = "cobrando"
                             \/ /\ intento'[k].paso = "respondido"
                                /\ intento'[k].respuesta = "verificando"
                        /\ \A j \in Intentos : IntentoVivo(j) /\ intento[j].pedido = intento[k].pedido => j = k
    BY <1>1, <1>7 DEF IntentosBien, EnPago, Actual
  <2>2. /\ IntentoVivo(k) /\ intento[k].atento /\ EnPago /\ Actual = intento[k].pedido
        /\ pagina.pantalla = "procesando"
        /\ \A j \in Intentos : IntentoVivo(j) /\ intento[j].pedido = intento[k].pedido => j = k
    BY <1>7, <2>1 DEF ComensalInv, IntentosBien
  <2>3. CASE k = i
    BY <1>7, <2>1, <2>2, <2>3
  <2>4. CASE k # i
    <3>1. intento[k].pedido # o /\ intento[k].pedido \in Encargos
      BY <1>1, <1>2, <2>2, <2>4 DEF ComensalInv, LineasIntentos
    <3>2. encargo'[intento[k].pedido] = encargo[intento[k].pedido] /\ intento'[k] = intento[k]
      BY <1>4, <1>6, <2>4, <3>1
    <3> QED BY <2>1, <2>2, <3>2 DEF ComensalInv, IntentosBien
  <2> QED BY <2>3, <2>4
<1>13. PantallaBien'
  <2>1. SUFFICES ASSUME EnPago, Actual \notin cruzados
                 PROVE  /\ pagina.apertura # "no" =>
                             pagina.medios = "no" /\ pagina.pantalla = "formulario"
                        /\ encargo'[Actual].pago = "PENDIENTE" =>
                             \/ pagina.pantalla \in {"procesando", "verificando"}
                             \/ pagina.apertura \in {"pide", "verificando"}
    BY <1>1 DEF PantallaBien, EnPago, Actual
  <2>2. Actual \in Encargos
    BY <2>1 DEF ComensalInv, LineasPagina, Suyo
  <2>3. CASE Actual = o
    BY <1>1, <1>2, <2>1, <2>3 DEF ComensalInv, IntentosBien, PantallaBien
  <2>4. CASE Actual # o
    BY <1>4, <2>1, <2>2, <2>4 DEF ComensalInv, PantallaBien
  <2> QED BY <2>3, <2>4
<1>14. AvisoBien'
  BY <1>1 DEF ComensalInv, AvisoBien, EnPago, Actual
<1> QED BY <1>8, <1>9, <1>10, <1>11, <1>12, <1>13, <1>14 DEF ComensalInv

LEMMA PagarBien ==
  ASSUME ComensalInv, Pagar
  PROVE  ComensalInv'
<1>1. /\ pagina \in UnaPagina /\ intento \in [Intentos -> UnIntento] /\ OfrecePagar
      /\ UNCHANGED <<abierta, encargo, guardado, movidos, cruzados>>
      /\ pagina' = [pagina EXCEPT !.pantalla = "procesando"]
  BY DEF ComensalInv, ComensalTipos, Pagar
<1>2. PICK i \in Intentos :
        /\ intento[i].paso = "no"
        /\ intento' = [intento EXCEPT ![i] =
             [paso |-> "enviado", pedido |-> Actual, lineas |-> pagina.carrito,
              respuesta |-> "no", atento |-> TRUE]]
  BY DEF Pagar
<1>3. /\ EnPago /\ Actual \in Encargos /\ encargo[Actual].estado # "no"
      /\ Suyo(Actual, pagina.carrito) /\ pagina.carrito \in CarritosYVacio
      /\ pagina.medios # "no" /\ pagina.pantalla \in {"formulario", "rechazado", "error"}
  BY <1>1 DEF OfrecePagar, ComensalInv, LineasPagina, Suyo, UnaPagina
<1>4. /\ pagina' \in UnaPagina /\ pagina'.vista = pagina.vista
      /\ pagina'.porPagar = pagina.porPagar /\ pagina'.carrito = pagina.carrito
      /\ pagina'.aprobado = pagina.aprobado /\ pagina'.retoma = pagina.retoma
      /\ pagina'.envio = pagina.envio /\ pagina'.aviso = pagina.aviso
      /\ pagina'.medios = pagina.medios /\ pagina'.apertura = pagina.apertura
      /\ pagina'.pantalla = "procesando"
  BY <1>1 DEF UnaPagina
<1>5. /\ intento' \in [Intentos -> UnIntento]
      /\ \A k \in Intentos \ {i} : intento'[k] = intento[k]
      /\ intento'[i].pedido = Actual /\ intento'[i].lineas = pagina.carrito
      /\ intento'[i].atento /\ intento'[i].paso = "enviado"
  BY <1>1, <1>2, <1>3 DEF UnIntento, EncargosYNinguno
<1>6. ComensalTipos' /\ EncargosBien'
  BY <1>1, <1>4, <1>5 DEF ComensalInv, ComensalTipos, EncargosBien
<1>7. LineasPagina'
  BY <1>1, <1>4 DEF ComensalInv, LineasPagina, Suyo, EnPago, Actual
<1>8. LineasIntentos'
  <2>1. \A k \in Intentos \ {i} : IntentoVivo(k)' => IntentoVivo(k)
    BY <1>5 DEF IntentoVivo
  <2> QED BY <1>1, <1>3, <1>5, <2>1 DEF ComensalInv, LineasIntentos, Suyo
<1>9. \A k \in Intentos \ {i} : IntentoVivo(k)' => intento'[k].pedido \in cruzados
  BY <1>3, <1>5 DEF ComensalInv, IntentosBien, IntentoVivo
<1>10. Actual \notin cruzados => encargo[Actual].pago # "PENDIENTE" /\ pagina.apertura = "no"
  BY <1>1, <1>3 DEF ComensalInv, ComensalTipos, UnaPagina, PantallaBien
<1>11. IntentosBien'
  <2>1. SUFFICES ASSUME NEW k \in Intentos, IntentoVivo(k)', intento'[k].pedido \notin cruzados
                 PROVE  /\ k = i /\ Actual \notin cruzados
                        /\ \A j \in Intentos : IntentoVivo(j)' /\ intento'[j].pedido = Actual => j = i
    BY <1>1, <1>3, <1>4, <1>5, <1>10 DEF IntentosBien, EnPago, Actual
  <2>2. k = i /\ Actual \notin cruzados
    BY <1>5, <1>9, <2>1
  <2> QED BY <1>9, <2>2
<1>12. PantallaBien'
  BY <1>1, <1>4, <1>10 DEF PantallaBien, EnPago, Actual
<1>13. AvisoBien'
  BY <1>1, <1>4 DEF ComensalInv, AvisoBien, EnPago, Actual
<1> QED BY <1>6, <1>7, <1>8, <1>11, <1>12, <1>13 DEF ComensalInv

\* What is left of a payment that is let go of.
LEMMA DesatendidoEfecto ==
  ASSUME ComensalInv, NEW i \in Intentos
  PROVE  /\ Desatendido(i) \in UnIntento
         /\ Desatendido(i).paso \in {"enviado", "cobrando", "respondido"} =>
              /\ intento[i].paso = "enviado" /\ Desatendido(i).paso = "enviado"
              /\ Desatendido(i).pedido = intento[i].pedido /\ ~Desatendido(i).atento
         /\ intento[i].paso = "respondido" => Desatendido(i).paso = "terminado"
<1>1. intento[i] \in UnIntento
  BY DEF ComensalInv, ComensalTipos
<1>2. Terminado \in UnIntento /\ Terminado.paso = "terminado" /\ Vacio \in CarritosYVacio
  BY DEF Terminado, SinIntento, UnIntento, EncargosYNinguno, CarritosYVacio
<1>3. CASE intento[i].paso = "no"
  BY <1>1, <1>3 DEF Desatendido
<1>4. CASE intento[i].paso = "enviado"
  <2>1. Desatendido(i) = [intento[i] EXCEPT !.atento = FALSE, !.lineas = Vacio]
    BY <1>4 DEF Desatendido
  <2> QED BY <1>1, <1>2, <1>4, <2>1 DEF UnIntento
<1>5. CASE intento[i].paso \notin {"no", "enviado"}
  BY <1>2, <1>5 DEF Desatendido
<1> QED BY <1>3, <1>4, <1>5

\* Letting go of one payment.
LEMMA SueltaUno ==
  ASSUME ComensalInv, NEW i \in Intentos,
         intento' = [intento EXCEPT ![i] = Desatendido(i)],
         intento[i].paso = "respondido" \/ intento[i].pedido \in cruzados'
  PROVE  /\ intento' \in [Intentos -> UnIntento]
         /\ \A k \in Intentos \ {i} : intento'[k] = intento[k]
         /\ IntentoVivo(i)' => /\ IntentoVivo(i) /\ intento'[i].pedido = intento[i].pedido
                               /\ ~intento'[i].atento /\ intento'[i].paso = "enviado"
                               /\ intento'[i].pedido \in cruzados'
<1>1. PICK d \in UnIntento : d = Desatendido(i)
  BY DesatendidoEfecto
<1>2. /\ intento' \in [Intentos -> UnIntento] /\ intento'[i] = d
      /\ \A k \in Intentos \ {i} : intento'[k] = intento[k]
  BY <1>1 DEF ComensalInv, ComensalTipos
<1> QED BY <1>1, <1>2, DesatendidoEfecto DEF IntentoVivo

LEMMA LlegaRespuestaBien ==
  ASSUME ComensalInv, NEW i \in Intentos, LlegaRespuesta(i)
  PROVE  ComensalInv'
<1>1. /\ pagina \in UnaPagina /\ guardado \in UnGuardado /\ intento[i] \in UnIntento
      /\ intento[i].atento /\ intento[i].paso = "respondido" /\ IntentoVivo(i)
      /\ UNCHANGED <<abierta, encargo, movidos>>
      /\ intento' = [intento EXCEPT ![i] = Desatendido(i)]
      /\ cruzados' = IF EnPago /\ Actual # intento[i].pedido
                       THEN cruzados \cup {Actual} ELSE cruzados
  BY DEF ComensalInv, ComensalTipos, LlegaRespuesta, IntentoVivo
<1>2. /\ cruzados \subseteq cruzados'
      /\ EnPago => Actual \in cruzados' \/ Actual = intento[i].pedido
  BY <1>1
<1>3. /\ intento' \in [Intentos -> UnIntento]
      /\ \A k \in Intentos \ {i} : intento'[k] = intento[k]
      /\ IntentoVivo(i)' => /\ IntentoVivo(i) /\ intento'[i].pedido = intento[i].pedido
                            /\ ~intento'[i].atento /\ intento'[i].paso = "enviado"
                            /\ intento'[i].pedido \in cruzados'
  BY <1>1, SueltaUno
<1>4. CASE intento[i].respuesta = "aprobado"
  <2>1. /\ Suyo(intento[i].pedido, intento[i].lineas) /\ intento[i].pedido \in Encargos
        /\ intento[i].lineas \in CarritosYVacio
    BY <1>1 DEF ComensalInv, LineasIntentos, UnIntento
  <2>2. PICK o \in Encargos, lineas \in CarritosYVacio :
          o = intento[i].pedido /\ lineas = intento[i].lineas
    BY <2>1
  <2>3. pagina' = Aprobada(pagina, o, lineas) /\ GuardaAprobado(o, lineas)
    BY <1>4, <2>2 DEF LlegaRespuesta
  <2>4. /\ pagina' \in UnaPagina /\ guardado' \in UnGuardado
        /\ LineasPagina' /\ PantallaBien' /\ AvisoBien'
    BY <1>1, <2>1, <2>2, <2>3, AprobadaLineas
  <2> QED BY <1>1, <1>2, <1>3, <2>4, IntentoTermina
<1>5. CASE intento[i].respuesta # "aprobado"
  <2>1. PICK r \in {"rechazado", "verificando", "error"} : r = intento[i].respuesta
    BY <1>1, <1>5 DEF ComensalInv, LineasIntentos, UnIntento
  <2>2. /\ UNCHANGED guardado
        /\ pagina' = IF EnPago THEN [pagina EXCEPT !.pantalla = r] ELSE pagina
    BY <1>5, <2>1 DEF LlegaRespuesta
  <2>3. /\ pagina' \in UnaPagina /\ pagina'.vista = pagina.vista
        /\ pagina'.porPagar = pagina.porPagar /\ pagina'.carrito = pagina.carrito
        /\ pagina'.aprobado = pagina.aprobado /\ pagina'.retoma = pagina.retoma
        /\ pagina'.envio = pagina.envio /\ pagina'.aviso = pagina.aviso
        /\ pagina'.medios = pagina.medios /\ pagina'.apertura = pagina.apertura
        /\ EnPago => pagina'.pantalla = r
    BY <1>1, <2>2 DEF UnaPagina
  <2>4. LineasPagina'
    BY <1>1, <2>2, <2>3 DEF ComensalInv, LineasPagina, Suyo, EnPago, Actual
  <2>5. AvisoBien'
    BY <1>2, <2>3 DEF ComensalInv, AvisoBien, EnPago, Actual
  <2>6. PantallaBien'
    <3>1. SUFFICES ASSUME EnPago, Actual \notin cruzados'
                   PROVE  /\ pagina.apertura = "no"
                          /\ encargo[Actual].pago = "PENDIENTE" => r = "verificando"
      BY <1>1, <2>3 DEF PantallaBien, EnPago, Actual
    <3>2. Actual = intento[i].pedido /\ Actual \notin cruzados
      BY <1>2, <3>1
    <3>3. /\ pagina.pantalla = "procesando"
          /\ encargo[Actual].pago = "PENDIENTE" => intento[i].respuesta = "verificando"
      BY <1>1, <3>2 DEF ComensalInv, IntentosBien
    <3> QED BY <1>1, <2>1, <3>1, <3>2, <3>3 DEF ComensalInv, PantallaBien
  <2> QED BY <1>1, <1>2, <1>3, <2>2, <2>3, <2>4, <2>5, <2>6, IntentoTermina
<1> QED BY <1>4, <1>5

LEMMA PierdeRespuestaBien ==
  ASSUME ComensalInv, NEW i \in Intentos, PierdeRespuesta(i)
  PROVE  ComensalInv'
<1>1. /\ pagina \in UnaPagina /\ guardado \in UnGuardado /\ intento[i].atento
      /\ UNCHANGED <<abierta, encargo, guardado, movidos>>
      /\ intento' = [intento EXCEPT ![i] = Desatendido(i)]
      /\ pagina' = IF EnPago THEN [pagina EXCEPT !.pantalla = "error"] ELSE pagina
      /\ cruzados \subseteq cruzados' /\ intento[i].pedido \in cruzados'
  BY DEF ComensalInv, ComensalTipos, PierdeRespuesta
<1>2. EnPago => Actual \in cruzados'
  BY DEF PierdeRespuesta
<1>3. /\ intento' \in [Intentos -> UnIntento]
      /\ \A k \in Intentos \ {i} : intento'[k] = intento[k]
      /\ IntentoVivo(i)' => /\ IntentoVivo(i) /\ intento'[i].pedido = intento[i].pedido
                            /\ ~intento'[i].atento /\ intento'[i].paso = "enviado"
                            /\ intento'[i].pedido \in cruzados'
  BY <1>1, SueltaUno
<1>4. /\ pagina' \in UnaPagina /\ pagina'.vista = pagina.vista
      /\ pagina'.porPagar = pagina.porPagar /\ pagina'.carrito = pagina.carrito
      /\ pagina'.aprobado = pagina.aprobado /\ pagina'.retoma = pagina.retoma
      /\ pagina'.envio = pagina.envio /\ pagina'.aviso = pagina.aviso
      /\ pagina'.medios = pagina.medios
  BY <1>1 DEF UnaPagina
<1>5. LineasPagina'
  BY <1>1, <1>4 DEF ComensalInv, LineasPagina, Suyo, EnPago, Actual
<1>6. AvisoBien' /\ PantallaBien'
  BY <1>2, <1>4 DEF ComensalInv, AvisoBien, PantallaBien, EnPago, Actual
<1> QED BY <1>1, <1>2, <1>3, <1>4, <1>5, <1>6, IntentoTermina

LEMMA RecargarBien ==
  ASSUME ComensalInv, Recargar
  PROVE  ComensalInv'
<1>1. /\ pagina \in UnaPagina /\ guardado \in UnGuardado
      /\ UNCHANGED <<abierta, encargo, guardado, movidos>>
      /\ intento' = [k \in Intentos |-> Desatendido(k)]
      /\ \A k \in Intentos : intento[k].atento => intento[k].pedido \in cruzados'
      /\ cruzados \subseteq cruzados'
  BY DEF ComensalInv, ComensalTipos, Recargar
<1>2. PICK v \in [paso : {"no", "pide", "avisado", "perdido"}, pedido : EncargosYNinguno] :
        v = Abandonado
  BY <1>1, AbandonadoEfecto
<1>3. PICK t \in [paso : {"no", "pide", "pago", "aprobado", "descartar"}, de : UnGuardado] :
        t = IF guardado.pedido = 0 THEN SinRetoma ELSE [paso |-> "pide", de |-> guardado]
  <2>1. SinRetoma \in [paso : {"no", "pide", "pago", "aprobado", "descartar"}, de : UnGuardado]
    BY DEF SinRetoma, NadaGuardado, UnGuardado, EncargosYNinguno, CarritosYVacio
  <2>2. [paso |-> "pide", de |-> guardado]
          \in [paso : {"no", "pide", "pago", "aprobado", "descartar"}, de : UnGuardado]
    BY <1>1
  <2> QED BY <2>1, <2>2
<1>4. pagina' = Cargada(t, v)
  BY <1>2, <1>3 DEF Recargar
<1>5. /\ pagina' \in UnaPagina /\ pagina'.vista = "carta" /\ pagina'.porPagar.pedido = 0
      /\ pagina'.envio.paso = "no" /\ pagina'.retoma = t /\ pagina'.aviso = v
  BY <1>4 DEF Cargada, UnaPagina, SinPedido, SinEnvio, EncargosYNinguno, CarritosYVacio
<1>6. t.paso # "no" => t.de = guardado /\ guardado.pedido # 0
  BY <1>3 DEF SinRetoma
<1>7. /\ v.paso \in {"no", "perdido"}
      /\ v.paso # "no" => v.pedido \in Encargos
  BY <1>1, <1>2, AbandonadoEfecto DEF ComensalInv, LineasPagina
<1>8. LineasPagina'
  BY <1>1, <1>5, <1>6, <1>7 DEF ComensalInv, LineasPagina, Suyo, EnPago, Actual
<1>9. PantallaBien' /\ AvisoBien'
  BY <1>5, <1>7 DEF PantallaBien, AvisoBien, EnPago, Actual
<1>10. \A k \in Intentos :
         /\ intento'[k] = Desatendido(k)
         /\ IntentoVivo(k)' => /\ IntentoVivo(k) /\ intento'[k].pedido = intento[k].pedido
                               /\ ~intento'[k].atento /\ intento'[k].paso = "enviado"
  BY <1>1, DesatendidoEfecto DEF IntentoVivo
<1>11. ComensalTipos' /\ EncargosBien'
  BY <1>1, <1>5, DesatendidoEfecto DEF ComensalInv, ComensalTipos, EncargosBien
<1>12. LineasIntentos'
  BY <1>1, <1>10 DEF ComensalInv, LineasIntentos, Suyo
<1>13. IntentosBien'
  <2>1. SUFFICES ASSUME NEW k \in Intentos, IntentoVivo(k)', intento'[k].pedido \notin cruzados'
                 PROVE  FALSE
    BY DEF IntentosBien
  <2> QED BY <1>1, <1>10, <2>1 DEF ComensalInv, IntentosBien
<1> QED BY <1>8, <1>9, <1>11, <1>12, <1>13 DEF ComensalInv
-----------------------------------------------------------------------------
(* The diner's page: the theorems *)

LEMMA ComensalInitInv == ComensalInit => ComensalInv
<1>1. SUFFICES ASSUME ComensalInit PROVE ComensalInv
  OBVIOUS
<1>2. Vacio \in CarritosYVacio /\ 0 \in EncargosYNinguno
  BY DEF CarritosYVacio, EncargosYNinguno
<1>3. NadaGuardado \in UnGuardado /\ NadaGuardado.pedido = 0
  BY <1>2 DEF NadaGuardado, UnGuardado
<1>4. SinRetoma \in [paso : {"no", "pide", "pago", "aprobado", "descartar"}, de : UnGuardado]
  BY <1>3 DEF SinRetoma
<1>5. /\ pagina = Cargada(SinRetoma, SinAviso) /\ guardado = NadaGuardado /\ abierta
      /\ encargo = [o \in Encargos |-> Nuevo] /\ intento = [i \in Intentos |-> SinIntento]
  BY <1>1 DEF ComensalInit
<1>6. /\ pagina \in UnaPagina /\ pagina.vista = "carta" /\ pagina.porPagar.pedido = 0
      /\ pagina.envio.paso = "no" /\ pagina.retoma.paso = "no" /\ pagina.aviso.paso = "no"
  BY <1>2, <1>4, <1>5 DEF Cargada, UnaPagina, SinPedido, SinEnvio, SinAviso, SinRetoma
<1>7. /\ Nuevo \in [lineas : CarritosYVacio,
                    estado : {"no", "PENDIENTE_PAGO", "CANCELADO", "PAGADO"},
                    pago : {"no", "PENDIENTE", "APROBADO", "RECHAZADO"}, avisado : BOOLEAN]
      /\ SinIntento \in UnIntento
  BY <1>2 DEF Nuevo, SinIntento, UnIntento
<1>8. ComensalTipos
  BY <1>3, <1>5, <1>6, <1>7 DEF ComensalTipos
<1>9. LineasPagina /\ PantallaBien /\ AvisoBien
  BY <1>3, <1>5, <1>6 DEF LineasPagina, PantallaBien, AvisoBien, EnPago, Actual
<1>10. LineasIntentos /\ IntentosBien
  BY <1>5 DEF LineasIntentos, IntentosBien, IntentoVivo, SinIntento
<1>11. EncargosBien
  BY <1>5 DEF EncargosBien, Nuevo
<1> QED BY <1>8, <1>9, <1>10, <1>11 DEF ComensalInv

LEMMA ComensalPaso == ComensalInv /\ [ComensalNext]_comensalVars => ComensalInv'
<1>1. SUFFICES ASSUME ComensalInv, [ComensalNext]_comensalVars PROVE ComensalInv'
  OBVIOUS
<1>2. CASE Agregar  BY <1>1, <1>2, AgregarBien
<1>3. CASE Vaciar  BY <1>1, <1>3, VaciarBien
<1>4. CASE ContinuarConElMismo  BY <1>1, <1>4, ContinuarConElMismoBien
<1>5. CASE ContinuarAlPago  BY <1>1, <1>5, ContinuarAlPagoBien
<1>6. CASE CrearEncargo  BY <1>1, <1>6, CrearEncargoBien
<1>7. CASE LlegaEncargo  BY <1>1, <1>7, LlegaEncargoBien
<1>8. CASE FallaEncargo  BY <1>1, <1>8, FallaEncargoBien
<1>9. CASE Recargar  BY <1>1, <1>9, RecargarBien
<1>10. CASE ConsultarGuardado  BY <1>1, <1>10, ConsultarGuardadoBien
<1>11. CASE RetomarPago  BY <1>1, <1>11, RetomarPagoBien
<1>12. CASE RetomarAprobado  BY <1>1, <1>12, RetomarAprobadoBien
<1>13. CASE Descartar  BY <1>1, <1>13, DescartarBien
<1>14. CASE ConservarGuardado  BY <1>1, <1>14, ConservarGuardadoBien
<1>15. CASE ConsultarAlAbrir  BY <1>1, <1>15, ConsultarAlAbrirBien
<1>16. CASE AplicarApertura  BY <1>1, <1>16, AplicarAperturaBien
<1>17. CASE FallaApertura  BY <1>1, <1>17, FallaAperturaBien
<1>18. CASE Pagar  BY <1>1, <1>18, PagarBien
<1>19. CASE ConsultarPago  BY <1>1, <1>19, ConsultarPagoBien
<1>20. CASE ConsultarCancelado  BY <1>1, <1>20, ConsultarCanceladoBien
<1>21. CASE AvisarAlMozo  BY <1>1, <1>21, AvisarAlMozoBien
<1>22. CASE SolicitarEfectivo  BY <1>1, <1>22, SolicitarEfectivoBien
<1>23. CASE LlegaAviso  BY <1>1, <1>23, LlegaAvisoBien
<1>24. CASE FallaAviso  BY <1>1, <1>24, FallaAvisoBien
<1>25. CASE PagarConTarjeta  BY <1>1, <1>25, PagarConTarjetaBien
<1>26. CASE Volver  BY <1>1, <1>26, VolverBien
<1>27. CASE HacerOtroPedido  BY <1>1, <1>27, HacerOtroPedidoBien
<1>28. CASE CerrarLaMesa  BY <1>1, <1>28, CerrarLaMesaBien
<1>29. ASSUME NEW i \in Intentos, ReservarIntento(i) PROVE ComensalInv'
  BY <1>1, <1>29, ReservarBien
<1>30. ASSUME NEW i \in Intentos, ConflictoDelIntento(i) PROVE ComensalInv'
  BY <1>1, <1>30, ConflictoBien
<1>31. ASSUME NEW i \in Intentos, RehusarIntento(i) PROVE ComensalInv'
  BY <1>1, <1>31, RehusarBien
<1>32. ASSUME NEW i \in Intentos, ResponderIntento(i) PROVE ComensalInv'
  BY <1>1, <1>32, ResponderBien
<1>33. ASSUME NEW i \in Intentos, LlegaRespuesta(i) PROVE ComensalInv'
  BY <1>1, <1>33, LlegaRespuestaBien
<1>34. ASSUME NEW i \in Intentos, PierdeRespuesta(i) PROVE ComensalInv'
  BY <1>1, <1>34, PierdeRespuestaBien
<1>35. ASSUME NEW o \in Encargos, ResolverPago(o) PROVE ComensalInv'
  BY <1>1, <1>35, ResolverPagoBien
<1>36. ASSUME NEW o \in Encargos, CobrarEnMano(o) PROVE ComensalInv'
  BY <1>1, <1>36, CobrarEnManoBien
<1>37. CASE UNCHANGED comensalVars
  <2>1. UNCHANGED <<abierta, encargo, pagina, guardado, intento, movidos, cruzados>>
    BY <1>37 DEF comensalVars
  <2> QED
    BY <1>1, <2>1 DEF ComensalInv, ComensalTipos, LineasPagina, LineasIntentos, EncargosBien,
      IntentosBien, PantallaBien, AvisoBien, Suyo, IntentoVivo, EnPago, Actual
<1> QED
  BY <1>1, <1>2, <1>3, <1>4, <1>5, <1>6, <1>7, <1>8, <1>9, <1>10, <1>11, <1>12,
     <1>13, <1>14, <1>15, <1>16, <1>17, <1>18, <1>19, <1>20, <1>21, <1>22, <1>23,
     <1>24, <1>25, <1>26, <1>27, <1>28, <1>29, <1>30, <1>31, <1>32, <1>33, <1>34,
     <1>35, <1>36, <1>37
  DEF ComensalNext

\* What the page and the backend agree on holds in every behaviour, for any
\* carts and any bounds.
THEOREM ComensalSpecInv == ComensalSpec => []ComensalInv
<1>1. ComensalInit => ComensalInv
  BY ComensalInitInv
<1>2. ComensalInv /\ [ComensalNext]_comensalVars => ComensalInv'
  BY ComensalPaso
<1> QED BY <1>1, <1>2, PTL DEF ComensalSpec

\* The diner pays what it sees: whatever the page names an order by has the
\* lines of that order, so the screen «Pagar» and the receipt show the cart
\* that is charged, unless that cart was changed while it was being sent.
THEOREM ElComensalPagaLoQueVe == ComensalSpec => []PagaLoQueVe
<1>1. ComensalInv => PagaLoQueVe
  BY DEF ComensalInv, LineasPagina, Suyo, PagaLoQueVe
<1> QED BY <1>1, ComensalSpecInv, PTL

\* The page does not offer to pay again what is being charged: while a card
\* payment is in course the screen of its order waits for it, or is told of it
\* before it offers anything, or an answer about the order was lost.
THEOREM LaOfertaEsSegura == ComensalSpec => []OfertaSegura
<1>1. ComensalInv => OfertaSegura
  <2>1. SUFFICES ASSUME ComensalInv, OfrecePagar, encargo[Actual].pago = "PENDIENTE",
                        Actual \notin cruzados
                 PROVE  FALSE
    BY DEF OfertaSegura
  <2>2. /\ EnPago /\ pagina.medios # "no"
        /\ pagina.pantalla \in {"formulario", "rechazado", "error"}
    BY <2>1 DEF OfrecePagar
  <2> QED BY <2>1, <2>2 DEF ComensalInv, PantallaBien
<1> QED BY <1>1, ComensalSpecInv, PTL

-----------------------------------------------------------------------------
(* Lists in order *)

\* A set of naturals that is not empty has a least element.
LEMMA Minimo ==
  ASSUME NEW N, N \subseteq Nat, N # {}
  PROVE  \E x \in N : \A y \in N : x <= y
<1>1. \E x \in N : \A y \in N : ~(<<y, x>> \in OpToRel(<, Nat))
  BY NatLessThanWellFounded, WFMin
<1>2. \E x \in N : \A y \in N : ~(y < x)
  BY <1>1 DEF OpToRel
<1> QED BY <1>2

\* A bounded one has a greatest one.
LEMMA Maximo ==
  ASSUME NEW N, N \subseteq Nat, N # {}, NEW k \in Nat, \A x \in N : x <= k
  PROVE  \E x \in N : \A y \in N : y <= x
<1> DEFINE M == {k - x : x \in N}
<1>1. \A x \in N : k - x \in Nat
  OBVIOUS
<1>5. M \subseteq Nat /\ M # {}
  BY <1>1
<1> HIDE DEF M
<1>2. PICK m \in M : \A y \in M : m <= y
  BY <1>5, Minimo
<1>3. PICK x \in N : m = k - x
  BY DEF M
<1>4. ASSUME NEW y \in N PROVE y <= x
  <2>1. m <= k - y
    BY <1>2 DEF M
  <2> QED BY <1>3, <2>1
<1> QED BY <1>4

\* A finite set can be listed in the order of a key.
LEMMA Ordenable ==
  ASSUME NEW S, IsFiniteSet(S), NEW k \in [S -> Nat]
  PROVE  \E s \in SetToSeqs(S) : EnOrdenDe(s, k)
<1> DEFINE Ordena(T) == \E s \in SetToSeqs(T) : EnOrdenDe(s, k)
           Malos == {T \in SUBSET S : ~Ordena(T)}
           N == {Cardinality(T) : T \in Malos}
<1>1. \A T \in SUBSET S : IsFiniteSet(T) /\ Cardinality(T) \in Nat
  BY FS_Subset, FS_CardinalityType
<1>2. SUFFICES ASSUME Malos # {} PROVE FALSE
  <2>1. S \in SUBSET S
    OBVIOUS
  <2> QED BY <2>1
<1>3. N \subseteq Nat /\ N # {}
  BY <1>1, <1>2
<1>4. PICK n \in N : \A y \in N : n <= y
  <2> HIDE DEF N
  <2> QED BY <1>3, Minimo
<1>5. PICK T \in Malos : n = Cardinality(T)
  OBVIOUS
<1>6. T \in SUBSET S /\ ~Ordena(T) /\ IsFiniteSet(T) /\ n \in Nat
  BY <1>1, <1>5
<1>7. T # {}
  <2> SUFFICES ASSUME T = {} PROVE Ordena(T)
    BY <1>6
  <2>1. Cardinality(T) = 0
    BY FS_EmptySet
  <2>2. <<>> \in SetToSeqs(T) /\ EnOrdenDe(<<>>, k)
    BY <2>1 DEF SetToSeqs, EnOrdenDe
  <2> QED BY <2>2
\* One whose key is the least goes before the others.
<1>8. PICK e \in T : \A x \in T : k[e] <= k[x]
  <2> DEFINE K == {k[x] : x \in T}
  <2>1. K \subseteq Nat /\ K # {}
    BY <1>6, <1>7
  <2> HIDE DEF K
  <2>2. \E m \in K : \A y \in K : m <= y
    BY <2>1, Minimo
  <2> QED BY <2>2 DEF K
<1> DEFINE U == T \ {e}
<1>9. /\ U \in SUBSET S /\ IsFiniteSet(U) /\ Cardinality(U) = n - 1
      /\ Cardinality(U) \in Nat
  BY <1>1, <1>5, <1>6, FS_RemoveElement
<1>10. Ordena(U)
  <2>1. ~(n <= Cardinality(U))
    BY <1>6, <1>9
  <2>2. Cardinality(U) \notin N
    BY <1>4, <2>1
  <2> QED BY <1>9, <2>2
<1>11. PICK s \in SetToSeqs(U) : EnOrdenDe(s, k)
  BY <1>10
<1> HIDE DEF U
<1>12. /\ s \in [1 .. n - 1 -> U]
       /\ \A i, j \in 1 .. n - 1 : i # j => s[i] # s[j]
  BY <1>9, <1>11 DEF SetToSeqs
<1> DEFINE q == [i \in 1 .. n |-> IF i = 1 THEN e ELSE s[i - 1]]
<1>13. /\ q \in [1 .. n -> T]
       /\ \A i, j \in 1 .. n : i # j => q[i] # q[j]
  BY <1>6, <1>12 DEF U
<1>14. q \in SetToSeqs(T)
  BY <1>5, <1>13 DEF SetToSeqs
<1>15. EnOrdenDe(q, k)
  <2> SUFFICES ASSUME NEW i \in 1 .. n, NEW j \in 1 .. n, i < j
               PROVE  k[q[i]] <= k[q[j]]
    BY DEF EnOrdenDe
  <2>1. CASE i = 1
    BY <1>8, <1>13, <2>1
  <2>2. CASE i # 1
    <3>1. i - 1 \in DOMAIN s /\ j - 1 \in DOMAIN s /\ i - 1 < j - 1
      BY <1>6, <1>12, <2>2
    <3>2. k[s[i - 1]] <= k[s[j - 1]]
      BY <1>11, <3>1 DEF EnOrdenDe
    <3> QED BY <2>2, <3>2
  <2> QED BY <2>1, <2>2
<1> QED BY <1>6, <1>14, <1>15

\* What is in a list of a finite set, in the order of a key: each element, once.
LEMMA EnOrdenEs ==
  ASSUME NEW S, IsFiniteSet(S), NEW k \in [S -> Nat]
  PROVE  /\ Cardinality(S) \in Nat
         /\ EnOrden(S, k) \in [1 .. Cardinality(S) -> S]
         /\ \A i, j \in 1 .. Cardinality(S) : EnOrden(S, k)[i] = EnOrden(S, k)[j] => i = j
         /\ \A x \in S : \E i \in 1 .. Cardinality(S) : EnOrden(S, k)[i] = x
<1> DEFINE n == Cardinality(S)
           s == EnOrden(S, k)
<1>1. n \in Nat /\ IsFiniteSet(1 .. n) /\ Cardinality(1 .. n) = n
  BY FS_CardinalityType, FS_Interval
<1>2. s \in SetToSeqs(S)
  <2>1. \E z \in SetToSeqs(S) : EnOrdenDe(z, k)
    BY Ordenable
  <2> QED BY <2>1 DEF EnOrden
<1>3. s \in [1 .. n -> S] /\ \A i, j \in 1 .. n : i # j => s[i] # s[j]
  BY <1>2 DEF SetToSeqs
<1> HIDE DEF s
<1>4. s \in Injection(1 .. n, S)
  BY <1>3 DEF Injection, IsInjective
<1>5. s \in Surjection(1 .. n, S)
  BY <1>1, <1>4, FS_Injection
<1>6. \A x \in S : \E i \in 1 .. n : s[i] = x
  BY <1>5 DEF Surjection
<1> QED BY <1>1, <1>3, <1>6 DEF s

\* What is at some places of a list comes from them, each one once.
LEMMA EnLugaresEs ==
  ASSUME NEW S, NEW s \in Seq(S), NEW L \in SUBSET DOMAIN s
  PROVE  /\ EnLugares(s, L) \in Seq(S)
         /\ \E o \in [DOMAIN EnLugares(s, L) -> L] :
              /\ \A j \in DOMAIN EnLugares(s, L) : EnLugares(s, L)[j] = s[o[j]]
              /\ \A i, j \in DOMAIN EnLugares(s, L) : o[i] = o[j] => i = j
              /\ \A i \in L : \E j \in DOMAIN EnLugares(s, L) : o[j] = i
<1> DEFINE k == [i \in L |-> i]
           o == EnOrden(L, k)
           q == [j \in DOMAIN o |-> s[o[j]]]
           n == Cardinality(L)
<1>1. DOMAIN s = 1 .. Len(s) /\ Len(s) \in Nat
  OBVIOUS
<1>2. IsFiniteSet(L) /\ k \in [L -> Nat]
  <2>1. IsFiniteSet(1 .. Len(s))
    BY <1>1, FS_Interval
  <2>2. IsFiniteSet(L)
    BY <1>1, <2>1, FS_Subset
  <2>3. \A i \in L : i \in Nat
    BY <1>1
  <2> QED BY <2>2, <2>3
<1>3. /\ n \in Nat /\ o \in [1 .. n -> L]
      /\ \A i, j \in 1 .. n : o[i] = o[j] => i = j
      /\ \A x \in L : \E i \in 1 .. n : o[i] = x
  <2> HIDE DEF k
  <2> QED BY <1>2, EnOrdenEs
<1>4. EnLugares(s, L) = q
  BY DEF EnLugares
<1> HIDE DEF o, n
<1>5. DOMAIN q = 1 .. n /\ \A j \in 1 .. n : q[j] = s[o[j]] /\ q[j] \in S
  BY <1>1, <1>3
<1>6. q \in Seq(S)
  <2>1. q \in [1 .. n -> S]
    BY <1>3, <1>5
  <2>2. n \in Nat
    BY <1>3
  <2> HIDE DEF q
  <2> QED BY <2>1, <2>2
<1> HIDE DEF q
<1>7. \E z \in [DOMAIN q -> L] :
        /\ \A j \in DOMAIN q : q[j] = s[z[j]]
        /\ \A i, j \in DOMAIN q : z[i] = z[j] => i = j
        /\ \A i \in L : \E j \in DOMAIN q : z[j] = i
  <2>1. o \in [DOMAIN q -> L]
    BY <1>3, <1>5
  <2>2. \A j \in DOMAIN q : q[j] = s[o[j]]
    BY <1>5
  <2>3. \A i, j \in DOMAIN q : o[i] = o[j] => i = j
    BY <1>3, <1>5
  <2>4. \A i \in L : \E j \in DOMAIN q : o[j] = i
    BY <1>3, <1>5
  <2> QED BY <2>1, <2>2, <2>3, <2>4
<1> QED BY <1>4, <1>6, <1>7

-----------------------------------------------------------------------------
(* The map of the tables: lists of tables *)

\* A table has the id of its row, or it was added by a page.
MesasMapa ==
  {m \in [cid : Filas \cup Nuevas, id : Filas \cup {SinId}, numero : Nat,
          estado : {"LIBRE", "OCUPADA"}] :
    m.id = IF m.cid \in Nuevas THEN SinId ELSE m.cid}

MesasConFila == {m \in MesasMapa : m.cid \in Filas}

ALoSumoUna(s, c) == \A i, j \in DOMAIN s : s[i].cid = c /\ s[j].cid = c => i = j

\* In one of the lists, and once.
UnaVez(s, t, c) ==
  /\ ALoSumoUna(s, c) /\ ALoSumoUna(t, c)
  /\ c \in CidsDe(s) <=> c \notin CidsDe(t)

LEMMA NingunaEs ==
  /\ \A S : <<>> \in Seq(S)
  /\ CidsDe(<<>>) = {} /\ Range(<<>>) = {}
  /\ \A c : ALoSumoUna(<<>>, c)
BY DEF CidsDe, Range, ALoSumoUna

LEMMA CidsEs ==
  ASSUME NEW s
  PROVE  CidsDe(s) = {m.cid : m \in Range(s)}
BY DEF CidsDe, Range

LEMMA EnRango ==
  ASSUME NEW S, NEW s \in Seq(S), NEW m \in Range(s)
  PROVE  m \in S
BY DEF Range

LEMMA LugaresEs ==
  ASSUME NEW S, NEW s \in Seq(S), NEW L \in SUBSET DOMAIN s
  PROVE  LET q == EnLugares(s, L) IN
         /\ q \in Seq(S) /\ Range(q) = {s[i] : i \in L}
         /\ \A c : ALoSumoUna(s, c) => ALoSumoUna(q, c)
<1> DEFINE q == EnLugares(s, L)
<1>1. q \in Seq(S)
  BY EnLugaresEs
<1>2. PICK o \in [DOMAIN q -> L] :
        /\ \A j \in DOMAIN q : q[j] = s[o[j]]
        /\ \A i, j \in DOMAIN q : o[i] = o[j] => i = j
        /\ \A i \in L : \E j \in DOMAIN q : o[j] = i
  BY EnLugaresEs
<1> HIDE DEF q
<1>3. Range(q) = {s[i] : i \in L}
  BY <1>2 DEF Range
<1>4. ASSUME NEW c, ALoSumoUna(s, c) PROVE ALoSumoUna(q, c)
  <2>1. SUFFICES ASSUME NEW i \in DOMAIN q, NEW j \in DOMAIN q, q[i].cid = c, q[j].cid = c
                 PROVE  i = j
    BY DEF ALoSumoUna
  <2>2. o[i] \in DOMAIN s /\ o[j] \in DOMAIN s /\ s[o[i]].cid = c /\ s[o[j]].cid = c
    BY <1>2, <2>1
  <2>3. o[i] = o[j]
    BY <1>4, <2>2 DEF ALoSumoUna
  <2> QED BY <1>2, <2>3
<1> QED BY <1>1, <1>3, <1>4 DEF q

LEMMA SinEs ==
  ASSUME NEW S, NEW s \in Seq(S), NEW c
  PROVE  /\ Sin(s, c) \in Seq(S) /\ Range(Sin(s, c)) = {m \in Range(s) : m.cid # c}
         /\ CidsDe(Sin(s, c)) = CidsDe(s) \ {c}
         /\ \A x : ALoSumoUna(s, x) => ALoSumoUna(Sin(s, c), x)
<1> DEFINE L == {i \in DOMAIN s : s[i].cid # c}
           q == EnLugares(s, L)
<1>1. Sin(s, c) = q
  BY DEF Sin
<1>2. /\ q \in Seq(S) /\ Range(q) = {s[i] : i \in L}
      /\ \A x : ALoSumoUna(s, x) => ALoSumoUna(q, x)
  <2>1. L \in SUBSET DOMAIN s
    OBVIOUS
  <2> HIDE DEF L
  <2> QED BY <2>1, LugaresEs
<1> HIDE DEF q
<1>3. Range(q) = {m \in Range(s) : m.cid # c}
  BY <1>2 DEF Range
<1>4. CidsDe(q) = CidsDe(s) \ {c}
  BY <1>3, CidsEs
<1> QED BY <1>1, <1>2, <1>3, <1>4

LEMMA AgregadaEs ==
  ASSUME NEW S, NEW s \in Seq(S), NEW m \in S
  PROVE  /\ Append(s, m) \in Seq(S) /\ Range(Append(s, m)) = Range(s) \cup {m}
         /\ CidsDe(Append(s, m)) = CidsDe(s) \cup {m.cid}
         /\ \A x : ALoSumoUna(s, x) /\ (x = m.cid => x \notin CidsDe(s))
                     => ALoSumoUna(Append(s, m), x)
<1> DEFINE q == Append(s, m)
           n == Len(s)
<1>1. n \in Nat /\ DOMAIN s = 1 .. n
  OBVIOUS
<1>2. /\ q \in Seq(S) /\ DOMAIN q = 1 .. n + 1
      /\ \A i \in 1 .. n + 1 : q[i] = IF i = n + 1 THEN m ELSE s[i]
  OBVIOUS
<1> HIDE DEF q, n
<1>3. Range(q) = Range(s) \cup {m}
  <2>1. ASSUME NEW x \in Range(q) PROVE x \in Range(s) \cup {m}
    BY <1>1, <1>2, <2>1 DEF Range
  <2>2. ASSUME NEW i \in DOMAIN s PROVE s[i] \in Range(q)
    <3>1. i \in 1 .. n + 1 /\ i # n + 1
      BY <1>1, <2>2
    <3> QED BY <1>2, <3>1 DEF Range
  <2>3. m \in Range(q)
    <3>1. n + 1 \in 1 .. n + 1
      BY <1>1
    <3> QED BY <1>2, <3>1 DEF Range
  <2> QED BY <2>1, <2>2, <2>3 DEF Range
<1>4. CidsDe(q) = CidsDe(s) \cup {m.cid}
  BY <1>3, CidsEs
<1>5. ASSUME NEW x, ALoSumoUna(s, x), x = m.cid => x \notin CidsDe(s)
      PROVE  ALoSumoUna(q, x)
  <2>1. SUFFICES ASSUME NEW i \in 1 .. n + 1, NEW j \in 1 .. n + 1,
                        q[i].cid = x, q[j].cid = x, i < j
                 PROVE  FALSE
    BY <1>1, <1>2 DEF ALoSumoUna
  <2>2. i \in DOMAIN s /\ s[i].cid = x
    BY <1>1, <1>2, <2>1
  <2>3. CASE j = n + 1
    BY <1>2, <1>5, <2>1, <2>2, <2>3 DEF CidsDe
  <2>4. CASE j # n + 1
    <3>1. j \in DOMAIN s /\ s[j].cid = x
      BY <1>1, <1>2, <2>1, <2>4
    <3>2. i = j
      BY <1>5, <2>2, <3>1 DEF ALoSumoUna
    <3> QED BY <1>1, <2>1, <3>2
  <2> QED BY <2>3, <2>4
<1> QED BY <1>2, <1>3, <1>4, <1>5 DEF q

LEMMA SeguidasEs ==
  ASSUME NEW S, NEW s \in Seq(S), NEW t \in Seq(S)
  PROVE  /\ s \o t \in Seq(S) /\ Range(s \o t) = Range(s) \cup Range(t)
         /\ CidsDe(s \o t) = CidsDe(s) \cup CidsDe(t)
         /\ \A x : /\ ALoSumoUna(s, x) /\ ALoSumoUna(t, x)
                   /\ x \notin CidsDe(s) \/ x \notin CidsDe(t)
                   => ALoSumoUna(s \o t, x)
<1> DEFINE q == s \o t
           n == Len(s)
           k == Len(t)
<1>1. n \in Nat /\ DOMAIN s = 1 .. n /\ k \in Nat /\ DOMAIN t = 1 .. k
  OBVIOUS
<1>2. /\ q \in Seq(S) /\ DOMAIN q = 1 .. n + k
      /\ \A i \in 1 .. n + k : q[i] = IF i <= n THEN s[i] ELSE t[i - n]
  OBVIOUS
<1> HIDE DEF q, n, k
<1>3. Range(q) = Range(s) \cup Range(t)
  <2>1. ASSUME NEW i \in DOMAIN q PROVE q[i] \in Range(s) \cup Range(t)
    <3>1. CASE i <= n
      <4>1. i \in DOMAIN s /\ q[i] = s[i]
        BY <1>1, <1>2, <2>1, <3>1
      <4> QED BY <4>1 DEF Range
    <3>2. CASE ~(i <= n)
      <4>1. i - n \in DOMAIN t /\ q[i] = t[i - n]
        BY <1>1, <1>2, <2>1, <3>2
      <4> QED BY <4>1 DEF Range
    <3> QED BY <3>1, <3>2
  <2>2. ASSUME NEW i \in DOMAIN s PROVE s[i] \in Range(q)
    <3>1. i \in DOMAIN q /\ q[i] = s[i]
      BY <1>1, <1>2, <2>2
    <3> QED BY <3>1 DEF Range
  <2>3. ASSUME NEW i \in DOMAIN t PROVE t[i] \in Range(q)
    <3>1. n + i \in DOMAIN q /\ ~(n + i <= n) /\ (n + i) - n = i
      BY <1>1, <1>2, <2>3
    <3>2. q[n + i] = t[i]
      BY <1>2, <3>1
    <3> QED BY <3>1, <3>2 DEF Range
  <2> QED BY <2>1, <2>2, <2>3 DEF Range
<1>4. CidsDe(q) = CidsDe(s) \cup CidsDe(t)
  BY <1>3, CidsEs
<1>5. ASSUME NEW x, ALoSumoUna(s, x), ALoSumoUna(t, x), x \notin CidsDe(s) \/ x \notin CidsDe(t)
      PROVE  ALoSumoUna(q, x)
  <2>1. SUFFICES ASSUME NEW i \in 1 .. n + k, NEW j \in 1 .. n + k,
                        q[i].cid = x, q[j].cid = x, i < j
                 PROVE  FALSE
    BY <1>1, <1>2 DEF ALoSumoUna
  <2>2. CASE j <= n
    <3>1. i \in DOMAIN s /\ j \in DOMAIN s /\ q[i] = s[i] /\ q[j] = s[j]
      BY <1>1, <1>2, <2>1, <2>2
    <3>2. i = j
      BY <1>5, <2>1, <3>1 DEF ALoSumoUna
    <3> QED BY <1>1, <2>1, <3>2
  <2>3. CASE ~(j <= n) /\ i <= n
    <3>1. i \in DOMAIN s /\ j - n \in DOMAIN t /\ q[i] = s[i] /\ q[j] = t[j - n]
      BY <1>1, <1>2, <2>1, <2>3
    <3> QED BY <1>5, <2>1, <3>1 DEF CidsDe
  <2>4. CASE ~(j <= n) /\ ~(i <= n)
    <3>1. i - n \in DOMAIN t /\ j - n \in DOMAIN t /\ q[i] = t[i - n] /\ q[j] = t[j - n]
      BY <1>1, <1>2, <2>1, <2>4
    <3>2. i - n = j - n
      BY <1>5, <2>1, <3>1 DEF ALoSumoUna
    <3> QED BY <1>1, <2>1, <3>2
  <2> QED BY <2>2, <2>3, <2>4
<1> QED BY <1>2, <1>3, <1>4, <1>5 DEF q

\* It can be put at any place.
LEMMA ReinsertadaEs ==
  ASSUME NEW S, NEW s \in Seq(S), NEW m \in S, NEW p \in 1 .. Len(s) + 1
  PROVE  /\ InsertAt(s, p, m) \in Seq(S) /\ Range(InsertAt(s, p, m)) = Range(s) \cup {m}
         /\ CidsDe(InsertAt(s, p, m)) = CidsDe(s) \cup {m.cid}
         /\ \A x : ALoSumoUna(s, x) /\ (x = m.cid => x \notin CidsDe(s))
                     => ALoSumoUna(InsertAt(s, p, m), x)
<1> DEFINE q == InsertAt(s, p, m)
           n == Len(s)
<1>1. n \in Nat /\ DOMAIN s = 1 .. n /\ p \in 1 .. n + 1
  OBVIOUS
<1>2. /\ q \in Seq(S) /\ DOMAIN q = 1 .. n + 1
      /\ \A i \in 1 .. n + 1 :
           q[i] = IF i < p THEN s[i] ELSE IF i = p THEN m ELSE s[i - 1]
  <2> DEFINE izq == SubSeq(s, 1, p - 1)
             der == SubSeq(s, p, n)
             med == izq \o <<m>>
  <2>1. /\ izq \in Seq(S) /\ Len(izq) = p - 1
        /\ \A i \in 1 .. p - 1 : izq[i] = s[i]
    BY <1>1
  <2>2. /\ der \in Seq(S) /\ Len(der) = n - p + 1
        /\ \A i \in 1 .. n - p + 1 : der[i] = s[p + i - 1]
    BY <1>1
  <2> HIDE DEF izq, der
  <2>3. /\ med \in Seq(S) /\ Len(med) = p
        /\ \A i \in 1 .. p : med[i] = IF i = p THEN m ELSE s[i]
    BY <1>1, <2>1
  <2>4. q = med \o der
    BY DEF InsertAt, izq, der
  <2> HIDE DEF med, q
  <2>5. /\ q \in Seq(S) /\ Len(q) = n + 1
        /\ \A i \in 1 .. n + 1 : q[i] = IF i <= p THEN med[i] ELSE der[i - p]
    <3>1. Len(q) = p + (n - p + 1) /\ q \in Seq(S)
      BY <2>2, <2>3, <2>4
    <3>2. \A i \in 1 .. Len(med) + Len(der) :
            q[i] = IF i <= Len(med) THEN med[i] ELSE der[i - Len(med)]
      BY <2>2, <2>3, <2>4
    <3>3. p + (n - p + 1) = n + 1 /\ Len(med) + Len(der) = n + 1
      BY <1>1, <2>2, <2>3
    <3> QED BY <2>3, <3>1, <3>2, <3>3
  <2>6. ASSUME NEW i \in 1 .. n + 1
        PROVE  q[i] = IF i < p THEN s[i] ELSE IF i = p THEN m ELSE s[i - 1]
    <3>1. CASE i <= p
      <4>1. i \in 1 .. p
        BY <1>1, <2>6, <3>1
      <4> QED BY <1>1, <2>3, <2>5, <3>1, <4>1
    <3>2. CASE ~(i <= p)
      <4>1. i - p \in 1 .. n - p + 1 /\ p + (i - p) - 1 = i - 1
        BY <1>1, <2>6, <3>2
      <4>2. q[i] = der[i - p]
        BY <1>1, <2>5, <2>6, <3>2
      <4>3. der[i - p] = s[i - 1]
        BY <2>2, <4>1
      <4>4. ~(i < p) /\ i # p
        BY <1>1, <2>6, <3>2
      <4> QED BY <4>2, <4>3, <4>4
    <3> QED BY <3>1, <3>2
  <2> QED BY <2>5, <2>6
<1> HIDE DEF q, n
<1>3. Range(q) = Range(s) \cup {m}
  <2>1. ASSUME NEW i \in DOMAIN q PROVE q[i] \in Range(s) \cup {m}
    <3>1. CASE i < p
      <4>1. i \in DOMAIN s /\ q[i] = s[i]
        BY <1>1, <1>2, <2>1, <3>1
      <4> QED BY <4>1 DEF Range
    <3>2. CASE p < i
      <4>1. i - 1 \in DOMAIN s /\ q[i] = s[i - 1]
        BY <1>1, <1>2, <2>1, <3>2
      <4> QED BY <4>1 DEF Range
    <3> QED BY <1>1, <1>2, <2>1, <3>1, <3>2
  <2>2. ASSUME NEW i \in DOMAIN s PROVE s[i] \in Range(q)
    <3>1. CASE i < p
      <4>1. i \in DOMAIN q /\ q[i] = s[i]
        BY <1>1, <1>2, <2>2, <3>1
      <4> QED BY <4>1 DEF Range
    <3>2. CASE ~(i < p)
      <4>1. i + 1 \in DOMAIN q /\ ~(i + 1 < p) /\ i + 1 # p /\ (i + 1) - 1 = i
        BY <1>1, <1>2, <2>2, <3>2
      <4>2. q[i + 1] = s[i]
        BY <1>2, <4>1
      <4> QED BY <4>1, <4>2 DEF Range
    <3> QED BY <3>1, <3>2
  <2>3. m \in Range(q)
    <3>1. p \in DOMAIN q /\ q[p] = m
      BY <1>1, <1>2
    <3> QED BY <3>1 DEF Range
  <2> QED BY <2>1, <2>2, <2>3 DEF Range
<1>4. CidsDe(q) = CidsDe(s) \cup {m.cid}
  BY <1>3, CidsEs
<1>5. ASSUME NEW x, ALoSumoUna(s, x), x = m.cid => x \notin CidsDe(s)
      PROVE  ALoSumoUna(q, x)
  <2> DEFINE antes(i) == IF i < p THEN i ELSE i - 1
  <2>1. SUFFICES ASSUME NEW i \in 1 .. n + 1, NEW j \in 1 .. n + 1,
                        q[i].cid = x, q[j].cid = x, i < j
                 PROVE  FALSE
    BY <1>1, <1>2 DEF ALoSumoUna
  <2>2. ASSUME NEW h \in 1 .. n + 1, h # p
        PROVE  antes(h) \in DOMAIN s /\ q[h] = s[antes(h)]
    BY <1>1, <1>2, <2>2
  <2>3. ASSUME NEW h \in 1 .. n + 1, h # p, q[h].cid = x
        PROVE  x \in CidsDe(s)
    BY <2>2, <2>3 DEF CidsDe
  <2>4. i # p /\ j # p
    BY <1>1, <1>2, <1>5, <2>1, <2>3
  <2>5. antes(i) = antes(j)
    <3>1. /\ antes(i) \in DOMAIN s /\ q[i] = s[antes(i)]
          /\ antes(j) \in DOMAIN s /\ q[j] = s[antes(j)]
      BY <2>2, <2>4
    <3> HIDE DEF antes
    <3> QED BY <1>5, <2>1, <3>1 DEF ALoSumoUna
  <2> QED BY <1>1, <2>1, <2>4, <2>5
<1> QED BY <1>2, <1>3, <1>4, <1>5 DEF q

\* What is written on the tables of the map leaves each one in its place.
LEMMA EscritasEs ==
  ASSUME NEW S, NEW s, NEW q \in Seq(S), DOMAIN q = DOMAIN s,
         \A i \in DOMAIN s : q[i].cid = s[i].cid
  PROVE  /\ CidsDe(q) = CidsDe(s)
         /\ \A x : ALoSumoUna(s, x) => ALoSumoUna(q, x)
BY DEF CidsDe, ALoSumoUna

LEMMA PrimeraEs ==
  ASSUME NEW S, NEW s \in Seq(S), NEW c \in CidsDe(s)
  PROVE  /\ SelectInSeq(s, LAMBDA m : m.cid = c) \in DOMAIN s
         /\ s[SelectInSeq(s, LAMBDA m : m.cid = c)].cid = c
<1> DEFINE I == {i \in 1 .. Len(s) : s[i].cid = c}
<1>1. I # {} /\ I \subseteq Nat
  BY DEF CidsDe
<1>2. SelectInSeq(s, LAMBDA m : m.cid = c) = Min(I)
  BY <1>1 DEF SelectInSeq
<1>3. Min(I) \in I
  <2> HIDE DEF I
  <2>1. \E x \in I : \A y \in I : x <= y
    BY <1>1, Minimo
  <2> QED BY <2>1 DEF Min
<1> QED BY <1>2, <1>3

LEMMA SiguienteEs ==
  ASSUME NEW S, NEW s \in Seq(S)
  PROVE  SiguienteNumero(s) \in Nat
<1> DEFINE n == Len(s)
           U == (1 .. n + 1) \ NumerosDe(s)
           f == [i \in 1 .. n |-> s[i].numero]
<1>1. n \in Nat /\ DOMAIN s = 1 .. n
  OBVIOUS
<1>2. U # {}
  <2>1. SUFFICES ASSUME 1 .. n + 1 \subseteq NumerosDe(s) PROVE FALSE
    OBVIOUS
  <2>2. f \in Surjection(1 .. n, NumerosDe(s))
    BY <1>1 DEF Surjection, NumerosDe
  <2>3. IsFiniteSet(1 .. n) /\ Cardinality(1 .. n) = n /\ Cardinality(1 .. n + 1) = n + 1
    BY <1>1, FS_Interval
  <2> HIDE DEF f, n
  <2>4. IsFiniteSet(NumerosDe(s)) /\ Cardinality(NumerosDe(s)) <= n
    BY <2>2, <2>3, FS_Surjection
  <2>5. n + 1 <= Cardinality(NumerosDe(s)) /\ Cardinality(NumerosDe(s)) \in Nat
    BY <2>1, <2>3, <2>4, FS_Subset, FS_CardinalityType
  <2> QED BY <1>1, <2>4, <2>5
<1>3. U \subseteq Nat
  BY <1>1
<1>4. PICK x \in U : \A y \in U : x <= y
  <2> HIDE DEF U
  <2> QED BY <1>2, <1>3, Minimo
<1>5. \A k \in 1 .. x - 1 : k \in NumerosDe(s)
  BY <1>1, <1>4
<1>6. x \in 1 .. Len(s) + 1 /\ x \notin NumerosDe(s)
  BY <1>4
<1> QED BY <1>1, <1>5, <1>6 DEF SiguienteNumero

-----------------------------------------------------------------------------
(* The map of the tables: the invariant *)

\* A page, and what it asked to save, are records of these fields.
EsPagina(p) ==
  /\ p \in [fase : {p.fase}, mesas : {p.mesas}, eliminadas : {p.eliminadas},
            ultima : {p.ultima}, foto : {p.foto}, guardado : {p.guardado},
            cargadas : {p.cargadas}, toco : {p.toco}]
  /\ p.guardado \in [fase : {p.guardado.fase}, mesas : {p.guardado.mesas},
                     eliminadas : {p.guardado.eliminadas}]

EsFila(r) ==
  r \in [existe : BOOLEAN, numero : {r.numero}, estado : {r.estado},
         pedidos : BOOLEAN, de : {r.de}]

MapaForma ==
  /\ editor = [a \in Editores |-> editor[a]]
  /\ \A a \in Editores : EsPagina(editor[a])
  /\ filaMesa = [f \in Filas |-> filaMesa[f]]
  /\ \A f \in Filas : EsFila(filaMesa[f])

\* The save that was checked has the row of the restaurant, and what it is going
\* to delete is there, and free, or was opened since.
RevisadoLibre ==
  \A a \in Editores : editor[a].guardado.fase = "reviso" =>
    /\ plano = a
    /\ \A f \in AEliminar(a) : filaMesa[f].existe
    /\ \A f \in AEliminar(a) \ entremedio : filaMesa[f].estado = "LIBRE"

MapaInv == MapaForma /\ RevisadoLibre /\ MesaEnUsoNoSeBorra

-----------------------------------------------------------------------------
(* The map of the tables: the steps *)

\* A step of a page, which does not touch a save that was checked.
LEMMA EditorMueve ==
  ASSUME MapaInv, NEW a \in Editores, NEW q, UNCHANGED salaVars,
         editor' = [editor EXCEPT ![a] = q], EsPagina(q),
         q.guardado.fase = "reviso" => q.guardado = editor[a].guardado
  PROVE  MapaInv'
<1>1. UNCHANGED <<filaMesa, plano, huerfanas, entremedio>>
  BY DEF salaVars
<1>2. editor'[a] = q /\ \A b \in Editores \ {a} : editor'[b] = editor[b]
  BY DEF MapaInv, MapaForma
<1>3. MapaForma'
  <2>1. editor' = [b \in Editores |-> editor'[b]]
    BY DEF MapaInv, MapaForma
  <2>2. \A b \in Editores : EsPagina(editor[b])'
    BY <1>2 DEF MapaInv, MapaForma, EsPagina
  <2> QED BY <1>1, <2>1, <2>2 DEF MapaInv, MapaForma, EsPagina, EsFila
<1>4. RevisadoLibre'
  <2>1. SUFFICES ASSUME NEW b \in Editores, editor'[b].guardado.fase = "reviso"
                 PROVE  editor'[b].guardado = editor[b].guardado
    BY <1>1 DEF MapaInv, RevisadoLibre, AEliminar
  <2> QED BY <1>2, <2>1
<1>5. MesaEnUsoNoSeBorra'
  BY <1>1 DEF MapaInv, MesaEnUsoNoSeBorra
<1> QED BY <1>3, <1>4, <1>5 DEF MapaInv

\* Loading puts other tables on the map, and what it brought.
LEMMA CargarMapaBien ==
  ASSUME MapaInv, NEW a \in Editores, Cargar(a)
  PROVE  MapaInv'
<1>1. PICK mesas, foto : editor' = [editor EXCEPT
           ![a].fase = "edita", ![a].mesas = mesas, ![a].foto = foto,
           ![a].cargadas = Existentes]
  BY DEF Cargar
<1>2. UNCHANGED salaVars
  BY DEF Cargar
<1>3. PICK cargadas : cargadas = Existentes
  OBVIOUS
<1> DEFINE p == editor[a]
           q == [p EXCEPT !.fase = "edita", !.mesas = mesas, !.foto = foto,
                          !.cargadas = cargadas]
<1>4. editor' = [editor EXCEPT ![a] = q]
  BY <1>1, <1>3 DEF MapaInv, MapaForma
<1>5. EsPagina(p)
  BY DEF MapaInv, MapaForma
<1> HIDE DEF p
<1>6. EsPagina(q) /\ q.guardado = p.guardado
  BY <1>5 DEF EsPagina
<1> HIDE DEF q
<1> QED BY <1>2, <1>4, <1>6, EditorMueve DEF p

LEMMA NumerarBien ==
  ASSUME MapaInv, NEW a \in Editores, NEW c, NEW n, Numerar(a, c, n)
  PROVE  MapaInv'
<1> DEFINE mesas == [i \in DOMAIN editor[a].mesas |->
                       IF editor[a].mesas[i].cid = c
                         THEN [editor[a].mesas[i] EXCEPT !.numero = n]
                         ELSE editor[a].mesas[i]]
           q == [editor[a] EXCEPT !.mesas = mesas]
<1>1. editor' = [editor EXCEPT ![a] = q] /\ UNCHANGED salaVars
  BY DEF Numerar, MapaInv, MapaForma
<1> HIDE DEF mesas
<1>2. EsPagina(q) /\ q.guardado = editor[a].guardado
  BY DEF MapaInv, MapaForma, EsPagina
<1> HIDE DEF q
<1> QED BY <1>1, <1>2, EditorMueve

LEMMA RecargarMapaBien ==
  ASSUME MapaInv, NEW a \in Editores, RecargarMapa(a)
  PROVE  MapaInv'
<1>1. EsPagina(PaginaVacia) /\ PaginaVacia.guardado.fase = "no"
  BY DEF EsPagina, PaginaVacia, SinGuardado
<1> QED BY <1>1, EditorMueve DEF RecargarMapa

\* What happens to a save changes its phase.
LEMMA FaseMueve ==
  ASSUME MapaInv, NEW a \in Editores, NEW fase,
         editor' = [editor EXCEPT ![a].guardado.fase = fase]
  PROVE  /\ editor'[a].guardado.fase = fase
         /\ editor'[a].guardado.eliminadas = editor[a].guardado.eliminadas
         /\ EsPagina(editor'[a])
         /\ \A b \in Editores \ {a} : editor'[b] = editor[b]
         /\ editor' = [b \in Editores |-> editor'[b]]
<1> DEFINE p == editor[a]
           q == [p EXCEPT !.guardado = [p.guardado EXCEPT !.fase = fase]]
<1>1. editor' = [editor EXCEPT ![a] = q]
  BY DEF MapaInv, MapaForma
<1>2. EsPagina(p)
  BY DEF MapaInv, MapaForma
<1> HIDE DEF p
<1>3. /\ EsPagina(q) /\ q.guardado.fase = fase
      /\ q.guardado.eliminadas = p.guardado.eliminadas
  BY <1>2 DEF EsPagina
<1> HIDE DEF q
<1>4. /\ editor'[a] = q /\ \A b \in Editores \ {a} : editor'[b] = editor[b]
      /\ editor' = [b \in Editores |-> editor'[b]]
  BY <1>1 DEF MapaInv, MapaForma
<1> QED BY <1>3, <1>4 DEF p

LEMMA RevisarBien ==
  ASSUME MapaInv, NEW a \in Editores, RevisarGuardado(a)
  PROVE  MapaInv'
<1>1. /\ editor[a].guardado.fase = "viaja" /\ plano = SinId /\ plano' = a
      /\ UNCHANGED <<filaMesa, huerfanas, entremedio>>
      /\ editor' = [editor EXCEPT ![a].guardado.fase = "reviso"]
      /\ \A f \in AEliminar(a) : filaMesa[f].existe /\ filaMesa[f].estado = "LIBRE"
  BY DEF RevisarGuardado, SePuedeBorrar, SePuedeEliminar
<1>2. /\ editor'[a].guardado.eliminadas = editor[a].guardado.eliminadas
      /\ EsPagina(editor'[a])
      /\ \A b \in Editores \ {a} : editor'[b] = editor[b]
      /\ editor' = [b \in Editores |-> editor'[b]]
  BY <1>1, FaseMueve
<1>3. MapaForma'
  BY <1>1, <1>2 DEF MapaInv, MapaForma
<1>4. RevisadoLibre'
  <2>1. \A b \in Editores \ {a} : editor'[b].guardado.fase # "reviso"
    BY <1>1, <1>2, MapaAssumption DEF MapaInv, RevisadoLibre
  <2>2. AEliminar(a)' = AEliminar(a)
    BY <1>2 DEF AEliminar
  <2> QED BY <1>1, <2>1, <2>2 DEF RevisadoLibre, AEliminar
<1>5. MesaEnUsoNoSeBorra'
  BY <1>1 DEF MapaInv, MesaEnUsoNoSeBorra
<1> QED BY <1>3, <1>4, <1>5 DEF MapaInv

LEMMA RenovarTokenBien ==
  ASSUME MapaInv, NEW a \in Editores, RenovarToken(a)
  PROVE  MapaInv'
<1>1. EsPagina(editor[a])
  BY DEF MapaInv, MapaForma
<1>2. PICK p : EsPagina(p) /\ p = editor[a]
  BY <1>1
<1> DEFINE toco == p.toco \/ Guardando(a) \/ editor[a].eliminadas # <<>>
           q == ConCarga([p EXCEPT !.toco = toco])
<1>3. editor' = [editor EXCEPT ![a] = ConCarga([editor[a] EXCEPT !.toco = toco])]
  BY <1>2 DEF RenovarToken
<1>4. UNCHANGED salaVars
  BY DEF RenovarToken
<1> HIDE DEF toco
<1>5. editor' = [editor EXCEPT ![a] = q]
  BY <1>2, <1>3
<1>6. EsPagina(q) /\ q.guardado = p.guardado
  BY <1>2 DEF EsPagina, ConCarga
<1> HIDE DEF q
<1> QED BY <1>2, <1>4, <1>5, <1>6, EditorMueve

\* A step of a page that changes only what it shows.
LEMMA MapaMueve ==
  ASSUME MapaInv, NEW a \in Editores, NEW mesas, NEW eliminadas, NEW ultima, NEW toco,
         UNCHANGED salaVars,
         editor' = [editor EXCEPT ![a].mesas = mesas, ![a].eliminadas = eliminadas,
                                  ![a].ultima = ultima, ![a].toco = toco]
  PROVE  MapaInv'
<1> DEFINE p == editor[a]
           q == [p EXCEPT !.mesas = mesas, !.eliminadas = eliminadas,
                          !.ultima = ultima, !.toco = toco]
<1>1. editor' = [editor EXCEPT ![a] = q]
  BY DEF MapaInv, MapaForma
<1>2. EsPagina(p)
  BY DEF MapaInv, MapaForma
<1> HIDE DEF p
<1>3. EsPagina(q) /\ q.guardado = p.guardado
  BY <1>2 DEF EsPagina
<1> HIDE DEF q
<1> QED BY <1>1, <1>3, EditorMueve DEF p

LEMMA QuitarMesaBien ==
  ASSUME MapaInv, NEW a \in Editores, NEW c, QuitarMesa(a, c)
  PROVE  MapaInv'
<1> DEFINE p == editor[a]
           i == SelectInSeq(p.mesas, LAMBDA m : m.cid = c)
           mesas == Sin(p.mesas, c)
           eliminadas == IF p.mesas[i].id = SinId THEN p.eliminadas
                         ELSE Append(p.eliminadas, p.mesas[i])
           ultima == <<[mesa |-> p.mesas[i], indice |-> i]>>
           toco == p.toco \/ Guardando(a)
<1>1. editor' = [editor EXCEPT ![a].mesas = mesas, ![a].eliminadas = eliminadas,
                               ![a].ultima = ultima, ![a].toco = toco]
  BY DEF QuitarMesa
<1>2. UNCHANGED salaVars
  BY DEF QuitarMesa
<1> HIDE DEF mesas, eliminadas, ultima, toco
<1> QED BY <1>1, <1>2, MapaMueve

LEMMA ReponerMesaBien ==
  ASSUME MapaInv, NEW a \in Editores, ReponerMesa(a)
  PROVE  MapaInv'
<1> DEFINE p == editor[a]
           u == p.ultima[1]
           indice == IF u.indice > Len(p.mesas) + 1 THEN Len(p.mesas) + 1 ELSE u.indice
           esta == u.mesa.cid \in CidsDe(p.mesas)
           mesas == IF esta THEN p.mesas ELSE InsertAt(p.mesas, indice, u.mesa)
           eliminadas == IF esta THEN p.eliminadas ELSE Sin(p.eliminadas, u.mesa.cid)
           ultima == <<>>
           toco == p.toco \/ Guardando(a)
<1>1. editor' = [editor EXCEPT ![a].mesas = mesas, ![a].eliminadas = eliminadas,
                               ![a].ultima = ultima, ![a].toco = toco]
  BY DEF ReponerMesa
<1>2. UNCHANGED salaVars
  BY DEF ReponerMesa
<1> HIDE DEF mesas, eliminadas, ultima, toco
<1> QED BY <1>1, <1>2, MapaMueve

\* A step that changes one field of a page.
LEMMA MesasMueven ==
  ASSUME MapaInv, NEW a \in Editores, NEW mesas, UNCHANGED salaVars,
         editor' = [editor EXCEPT ![a].mesas = mesas]
  PROVE  MapaInv'
<1> DEFINE p == editor[a]
           q == [p EXCEPT !.mesas = mesas]
<1>1. editor' = [editor EXCEPT ![a] = q]
  BY DEF MapaInv, MapaForma
<1>2. EsPagina(p)
  BY DEF MapaInv, MapaForma
<1> HIDE DEF p
<1>3. EsPagina(q) /\ q.guardado = p.guardado
  BY <1>2 DEF EsPagina
<1> HIDE DEF q
<1> QED BY <1>1, <1>3, EditorMueve DEF p

LEMMA VerEstadoBien ==
  ASSUME MapaInv, NEW a \in Editores, NEW f, VerEstado(a, f)
  PROVE  MapaInv'
<1>1. PICK mesas : editor' = [editor EXCEPT ![a].mesas = mesas]
  BY Zenon DEF VerEstado
<1> QED BY <1>1, MesasMueven DEF VerEstado

LEMMA AgregarMesaBien ==
  ASSUME MapaInv, NEW a \in Editores, NEW c, AgregarMesa(a, c)
  PROVE  MapaInv'
<1>1. PICK mesas : editor' = [editor EXCEPT ![a].mesas = mesas]
  BY Zenon DEF AgregarMesa
<1> QED BY <1>1, MesasMueven DEF AgregarMesa

LEMMA CerrarDeshacerBien ==
  ASSUME MapaInv, NEW a \in Editores, CerrarDeshacer(a)
  PROVE  MapaInv'
<1> DEFINE p == editor[a]
           q == [p EXCEPT !.ultima = <<>>]
<1>1. editor' = [editor EXCEPT ![a] = q] /\ UNCHANGED salaVars
  BY DEF CerrarDeshacer, MapaInv, MapaForma
<1>2. EsPagina(p)
  BY DEF MapaInv, MapaForma
<1> HIDE DEF p
<1>3. EsPagina(q) /\ q.guardado = p.guardado
  BY <1>2 DEF EsPagina
<1> HIDE DEF q
<1> QED BY <1>1, <1>3, EditorMueve DEF p

LEMMA GuardarMapaBien ==
  ASSUME MapaInv, NEW a \in Editores, GuardarMapa(a)
  PROVE  MapaInv'
<1> DEFINE p == editor[a]
           g == [fase |-> "viaja", mesas |-> p.mesas, eliminadas |-> p.eliminadas]
           q == [p EXCEPT !.guardado = g]
<1>1. editor' = [editor EXCEPT ![a] = q] /\ UNCHANGED salaVars
  BY DEF GuardarMapa, MapaInv, MapaForma
<1>2. EsPagina(p)
  BY DEF MapaInv, MapaForma
<1> HIDE DEF p
<1>3. EsPagina(q) /\ q.guardado.fase = "viaja"
  BY <1>2 DEF EsPagina
<1> HIDE DEF q
<1> QED BY <1>1, <1>3, EditorMueve

\* What is left on the page when its save is answered, or the answer is lost.
LEMMA TrasGuardarBien ==
  ASSUME MapaInv, NEW a \in Editores, UNCHANGED salaVars,
         \/ editor' = [editor EXCEPT ![a] = TrasGuardar(a)]
         \/ editor' = [editor EXCEPT ![a] = TrasElError(a)]
  PROVE  MapaInv'
<1> DEFINE p == editor[a]
<1>1. EsPagina(p)
  BY DEF MapaInv, MapaForma
<1>2. CASE editor' = [editor EXCEPT ![a] = TrasGuardar(a)]
  <2> DEFINE q == ConCarga([p EXCEPT !.guardado = SinGuardado, !.eliminadas = <<>>,
                                     !.toco = FALSE])
  <2>1. TrasGuardar(a) = q
    BY DEF TrasGuardar
  <2> HIDE DEF p
  <2>2. EsPagina(q) /\ q.guardado.fase = "no"
    BY <1>1 DEF EsPagina, ConCarga, SinGuardado
  <2> HIDE DEF q
  <2> QED BY <1>2, <2>1, <2>2, EditorMueve
<1>3. CASE editor' = [editor EXCEPT ![a] = TrasElError(a)]
  <2>1. PICK mesas, eliminadas :
          TrasElError(a) = [p EXCEPT !.guardado = SinGuardado, !.mesas = mesas,
                                     !.eliminadas = eliminadas]
    BY Zenon DEF TrasElError
  <2> DEFINE q == [p EXCEPT !.guardado = SinGuardado, !.mesas = mesas,
                            !.eliminadas = eliminadas]
  <2> HIDE DEF p
  <2>2. EsPagina(q) /\ q.guardado.fase = "no"
    BY <1>1 DEF EsPagina, SinGuardado
  <2> HIDE DEF q
  <2> QED BY <1>3, <2>1, <2>2, EditorMueve DEF q
<1> QED BY <1>2, <1>3

\* The server turns a save down, or it fails.
LEMMA RechazarBien ==
  ASSUME MapaInv, NEW a \in Editores, RechazarGuardado(a)
  PROVE  MapaInv'
<1>1. /\ UNCHANGED salaVars
      /\ editor' = [editor EXCEPT ![a].guardado.fase = "rechazado"]
  BY DEF RechazarGuardado
<1>2. PICK q : q = editor'[a]
  OBVIOUS
<1>3. EsPagina(q) /\ q.guardado.fase = "rechazado" /\ editor' = [editor EXCEPT ![a] = q]
  BY <1>1, <1>2, FaseMueve DEF MapaInv, MapaForma
<1> QED BY <1>1, <1>3, EditorMueve

\* The save that was checked ends: there is none other.
LEMMA TerminaBien ==
  ASSUME MapaInv, NEW a \in Editores, NEW fase \in {"hecho", "rechazado"},
         editor[a].guardado.fase = "reviso",
         editor' = [editor EXCEPT ![a].guardado.fase = fase],
         filaMesa' = [f \in Filas |-> filaMesa'[f]],
         \A f \in Filas : EsFila(filaMesa[f])'
  PROVE  MapaForma' /\ RevisadoLibre'
<1>1. MapaForma'
  BY FaseMueve DEF MapaInv, MapaForma, EsPagina, EsFila
<1>2. \A b \in Editores : editor'[b].guardado.fase # "reviso"
  <2>1. \A b \in Editores : editor[b].guardado.fase = "reviso" => plano = b
    BY DEF MapaInv, RevisadoLibre
  <2>2. editor'[a].guardado.fase = fase /\ \A b \in Editores \ {a} : editor'[b] = editor[b]
    BY FaseMueve
  <2> QED BY <2>1, <2>2
<1> QED BY <1>1, <1>2 DEF RevisadoLibre

LEMMA AbortarBien ==
  ASSUME MapaInv, NEW a \in Editores, AbortarGuardado(a)
  PROVE  MapaInv'
<1>1. /\ UNCHANGED <<filaMesa, huerfanas>> /\ editor[a].guardado.fase = "reviso"
      /\ editor' = [editor EXCEPT ![a].guardado.fase = "rechazado"]
  BY DEF AbortarGuardado
<1>2. MesaEnUsoNoSeBorra'
  BY <1>1 DEF MapaInv, MesaEnUsoNoSeBorra
<1>3. /\ filaMesa' = [f \in Filas |-> filaMesa'[f]]
      /\ \A f \in Filas : EsFila(filaMesa[f])'
  BY <1>1 DEF MapaInv, MapaForma, EsFila
<1> QED BY <1>1, <1>2, <1>3, TerminaBien DEF MapaInv

LEMMA ConfirmarGuardadoBien ==
  ASSUME MapaInv, NEW a \in Editores, ConfirmarGuardado(a)
  PROVE  MapaInv'
<1> DEFINE nuevas == Creadas(a)
           libres == {f \in Filas : filaMesa[f] = NoExiste}
<1>1. /\ editor[a].guardado.fase = "reviso" /\ SePuedeGuardar(a)
      /\ editor' = [editor EXCEPT ![a].guardado.fase = "hecho"]
      /\ huerfanas' = huerfanas \cup
           {f \in AEliminar(a) \ entremedio : filaMesa[f].estado = "OCUPADA"}
  BY DEF ConfirmarGuardado
<1>2. PICK ids \in [DOMAIN nuevas -> libres] :
        filaMesa' = [f \in Filas |->
             CASE f \in AEliminar(a) -> [filaMesa[f] EXCEPT !.existe = FALSE]
               [] \E i \in DOMAIN ids : ids[i] = f ->
                    LET i == CHOOSE k \in DOMAIN ids : ids[k] = f
                    IN  MesaNueva(nuevas[i].numero, nuevas[i].cid)
               [] OTHER -> filaMesa[f]]
  BY DEF ConfirmarGuardado
<1>3. \A n, de : LET r == MesaNueva(n, de) IN EsFila(r) /\ ~r.pedidos
  BY DEF MesaNueva, NoExiste, EsFila
<1>4. \A f \in Filas : /\ EsFila(filaMesa'[f])
                       /\ filaMesa'[f].pedidos => filaMesa'[f].existe
  <2> TAKE f \in Filas
  <2>2. EsFila(filaMesa[f]) /\ (filaMesa[f].pedidos => filaMesa[f].existe)
    BY DEF MapaInv, MapaForma, MesaEnUsoNoSeBorra
  <2>3. CASE f \in AEliminar(a)
    <3>1. filaMesa'[f] = [filaMesa[f] EXCEPT !.existe = FALSE]
      <4>1. ~\E i \in DOMAIN ids : ids[i] = f
        BY <1>1, <2>3 DEF MapaInv, RevisadoLibre, NoExiste
      <4> QED BY <1>2, <2>3, <4>1
    <3>2. ~filaMesa[f].pedidos
      BY <1>1, <2>3 DEF SePuedeGuardar
    <3> QED BY <2>2, <3>1, <3>2 DEF EsFila
  <2>4. CASE f \notin AEliminar(a) /\ \E i \in DOMAIN ids : ids[i] = f
    <3>1. \E n, de : filaMesa'[f] = MesaNueva(n, de)
      BY <1>2, <2>4
    <3> QED BY <1>3, <3>1
  <2>5. CASE f \notin AEliminar(a) /\ ~\E i \in DOMAIN ids : ids[i] = f
    BY <1>2, <2>2, <2>5
  <2> QED BY <2>3, <2>4, <2>5
<1>5. huerfanas' = {}
  BY <1>1 DEF MapaInv, MesaEnUsoNoSeBorra, RevisadoLibre
<1>6. MesaEnUsoNoSeBorra'
  BY <1>4, <1>5 DEF MesaEnUsoNoSeBorra
<1>7. filaMesa' = [f \in Filas |-> filaMesa'[f]]
  BY <1>2
<1>8. \A f \in Filas : EsFila(filaMesa[f])'
  BY <1>4 DEF EsFila
<1> QED BY <1>1, <1>6, <1>7, <1>8, TerminaBien DEF MapaInv

-----------------------------------------------------------------------------
(* The map of the tables: the dining room *)

LEMMA SalaMueve ==
  ASSUME MapaInv, NEW f \in Filas, NEW r, UNCHANGED <<plano, huerfanas, editor>>,
         filaMesa' = [filaMesa EXCEPT ![f] = r], EsFila(r),
         r.existe = filaMesa[f].existe, r.pedidos => r.existe, entremedio \subseteq entremedio',
         \/ r.estado = "LIBRE" \/ r.estado = filaMesa[f].estado
         \/ plano # SinId /\ f \in AEliminar(plano) => f \in entremedio'
  PROVE  MapaInv'
<1>1. filaMesa'[f] = r /\ \A g \in Filas \ {f} : filaMesa'[g] = filaMesa[g]
  BY DEF MapaInv, MapaForma
<1>2. MapaForma'
  <2>1. filaMesa' = [g \in Filas |-> filaMesa'[g]]
    BY DEF MapaInv, MapaForma
  <2>2. \A g \in Filas : EsFila(filaMesa[g])'
    BY <1>1 DEF MapaInv, MapaForma, EsFila
  <2> QED BY <2>1, <2>2 DEF MapaInv, MapaForma, EsPagina
<1>3. RevisadoLibre'
  <2>1. SUFFICES ASSUME NEW b \in Editores, editor[b].guardado.fase = "reviso",
                        NEW g \in AEliminar(b) \ entremedio'
                 PROVE  plano = b /\ filaMesa'[g].estado = "LIBRE"
    BY <1>1 DEF RevisadoLibre, AEliminar, IdsDe, MapaInv
  <2>2. /\ plano = b /\ filaMesa[g].estado = "LIBRE" /\ g \in Filas /\ b # SinId
    BY <2>1, MapaAssumption DEF MapaInv, RevisadoLibre, AEliminar, IdsDe
  <2> QED BY <1>1, <2>1, <2>2
<1>4. MesaEnUsoNoSeBorra'
  BY <1>1 DEF MapaInv, MesaEnUsoNoSeBorra
<1> QED BY <1>2, <1>3, <1>4 DEF MapaInv

LEMMA SalaBien ==
  ASSUME MapaInv, NEW f \in Filas, AbrirMesa(f) \/ DejarMesa(f) \/ PedirEnMesa(f)
  PROVE  MapaInv'
<1>1. EsFila(filaMesa[f]) /\ (filaMesa[f].pedidos => filaMesa[f].existe)
  BY DEF MapaInv, MapaForma, MesaEnUsoNoSeBorra
<1> DEFINE p == filaMesa[f]
<1>2. CASE AbrirMesa(f)
  <2> DEFINE r == [p EXCEPT !.estado = "OCUPADA"]
  <2>1. /\ filaMesa' = [filaMesa EXCEPT ![f] = r] /\ entremedio \subseteq entremedio'
        /\ plano # SinId /\ f \in AEliminar(plano) => f \in entremedio'
        /\ UNCHANGED <<plano, huerfanas, editor>>
    BY <1>2 DEF AbrirMesa
  <2> HIDE DEF p
  <2>2. EsFila(r) /\ (r.pedidos => r.existe) /\ r.existe = p.existe
    BY <1>1 DEF EsFila, p
  <2> HIDE DEF r
  <2> QED BY <2>1, <2>2, SalaMueve DEF p
<1>3. CASE DejarMesa(f)
  <2> DEFINE r == [p EXCEPT !.estado = "LIBRE"]
  <2>1. /\ filaMesa' = [filaMesa EXCEPT ![f] = r]
        /\ UNCHANGED <<plano, huerfanas, editor, entremedio>>
    BY <1>3 DEF DejarMesa
  <2> HIDE DEF p
  <2>2. EsFila(r) /\ (r.pedidos => r.existe) /\ r.estado = "LIBRE"
      /\ r.existe = p.existe
    BY <1>1 DEF EsFila, p
  <2> HIDE DEF r
  <2> QED BY <2>1, <2>2, SalaMueve DEF p
<1>4. CASE PedirEnMesa(f)
  <2> DEFINE r == [p EXCEPT !.pedidos = TRUE]
  <2>1. /\ filaMesa' = [filaMesa EXCEPT ![f] = r] /\ p.existe
        /\ UNCHANGED <<plano, huerfanas, editor, entremedio>>
    BY <1>4 DEF PedirEnMesa, Existentes
  <2> HIDE DEF p
  <2>2. EsFila(r) /\ r.existe /\ r.estado = p.estado
    BY <1>1, <2>1 DEF EsFila, p
  <2> HIDE DEF r
  <2> QED BY <2>1, <2>2, SalaMueve DEF p
<1> QED BY <1>2, <1>3, <1>4

-----------------------------------------------------------------------------
(* The map of the tables: the theorem *)

LEMMA MapaInicio == MapaInit => MapaInv
<1>1. SUFFICES ASSUME MapaInit PROVE MapaInv
  OBVIOUS
<1>2. EsPagina(PaginaVacia) /\ PaginaVacia.guardado.fase = "no"
  BY DEF EsPagina, PaginaVacia, SinGuardado
<1>3. /\ EsFila(NoExiste) /\ ~NoExiste.pedidos
      /\ \A n : EsFila(MesaNueva(n, SinId)) /\ ~MesaNueva(n, SinId).pedidos
  BY DEF EsFila, NoExiste, MesaNueva
<1>4. /\ editor = [a \in Editores |-> PaginaVacia] /\ huerfanas = {}
      /\ filaMesa = [f \in Filas |->
           IF Contains(DeAntes, f)
           THEN MesaNueva(SelectInSeq(DeAntes, LAMBDA x : x = f), SinId)
           ELSE NoExiste]
  BY <1>1 DEF MapaInit
<1>5. \A f \in Filas : EsFila(filaMesa[f]) /\ ~filaMesa[f].pedidos
  <2> TAKE f \in Filas
  <2>1. PICK n : filaMesa[f] = MesaNueva(n, SinId) \/ filaMesa[f] = NoExiste
    BY <1>4
  <2> QED BY <1>3, <2>1
<1>6. MapaForma
  BY <1>2, <1>4, <1>5 DEF MapaForma
<1> QED BY <1>2, <1>4, <1>5, <1>6 DEF MapaInv, RevisadoLibre, MesaEnUsoNoSeBorra

LEMMA MapaPaso == MapaInv /\ [MapaNext]_mapaVars => MapaInv'
<1>1. SUFFICES ASSUME MapaInv, [MapaNext]_mapaVars PROVE MapaInv'
  OBVIOUS
<1>2. CASE UNCHANGED mapaVars
  <2>1. UNCHANGED <<filaMesa, plano, huerfanas, entremedio, editor>>
    BY <1>2 DEF mapaVars, salaVars
  <2> QED
    BY <1>1, <2>1 DEF MapaInv, MapaForma, RevisadoLibre, MesaEnUsoNoSeBorra, EsPagina, EsFila,
      AEliminar
<1>3. ASSUME NEW f \in Filas, AbrirMesa(f) \/ DejarMesa(f) \/ PedirEnMesa(f)
      PROVE  MapaInv'
  BY <1>1, <1>3, SalaBien
<1>4. ASSUME NEW a \in Editores,
             \/ Cargar(a) \/ RenovarToken(a) \/ RecargarMapa(a) \/ ReponerMesa(a)
             \/ CerrarDeshacer(a) \/ GuardarMapa(a)
      PROVE  MapaInv'
  BY <1>1, <1>4, CargarMapaBien, RenovarTokenBien, RecargarMapaBien, ReponerMesaBien,
     CerrarDeshacerBien, GuardarMapaBien
<1>5. ASSUME NEW a \in Editores, \E f \in Filas : VerEstado(a, f)
      PROVE  MapaInv'
  BY <1>1, <1>5, VerEstadoBien
<1>6. ASSUME NEW a \in Editores, \E c \in Nuevas : AgregarMesa(a, c)
      PROVE  MapaInv'
  BY <1>1, <1>6, AgregarMesaBien
<1>7. ASSUME NEW a \in Editores, NEW c, QuitarMesa(a, c) \/ \E n \in Numeros : Numerar(a, c, n)
      PROVE  MapaInv'
  BY <1>1, <1>7, QuitarMesaBien, NumerarBien
<1>8. ASSUME NEW a \in Editores,
             \/ RevisarGuardado(a) \/ RechazarGuardado(a) \/ ConfirmarGuardado(a)
             \/ AbortarGuardado(a)
      PROVE  MapaInv'
  BY <1>1, <1>8, RevisarBien, RechazarBien, ConfirmarGuardadoBien, AbortarBien
<1>9. ASSUME NEW a \in Editores, LlegaGuardado(a) \/ LlegaRechazo(a) \/ PierdeGuardado(a)
      PROVE  MapaInv'
  BY <1>1, <1>9, TrasGuardarBien DEF LlegaGuardado, LlegaRechazo, PierdeGuardado
<1> QED
  BY <1>1, <1>2, <1>3, <1>4, <1>5, <1>6, <1>7, <1>8, <1>9 DEF MapaNext

\* The save that holds the row of the restaurant deletes only tables that are
\* free, or that were opened after it looked at them; and a table with orders is
\* never deleted, because the delete itself is refused: for any number of
\* pages, tables and edits.
THEOREM EnUsoNoSeBorra == MapaSpec => []MesaEnUsoNoSeBorra
<1>1. MapaInit => MapaInv
  BY MapaInicio
<1>2. MapaInv /\ [MapaNext]_mapaVars => MapaInv'
  BY MapaPaso
<1>3. MapaInv => MesaEnUsoNoSeBorra
  BY DEF MapaInv
<1> QED BY <1>1, <1>2, <1>3, PTL DEF MapaSpec

-----------------------------------------------------------------------------
(* The map and its tables: the invariant *)

FilasMesa ==
  [existe : BOOLEAN, numero : Nat, estado : {"LIBRE", "OCUPADA"}, pedidos : BOOLEAN,
   de : Nuevas \cup {SinId}]

Guardados ==
  {g \in [fase : {"no", "viaja", "reviso", "hecho", "rechazado"}, mesas : Seq(MesasMapa),
          eliminadas : Seq(MesasConFila)] : g.fase = "no" => g = SinGuardado}

PaginasMapa ==
  [fase : {"cargando", "edita"}, mesas : Seq(MesasMapa), eliminadas : Seq(MesasConFila),
   ultima : Seq([mesa : MesasMapa, indice : Nat \ {0}]),
   foto : SUBSET [id : Filas \cup {SinId}, numero : Nat],
   guardado : Guardados, cargadas : SUBSET Filas, toco : BOOLEAN]

\* While nothing was removed or put back during a save, each table that was
\* loaded is once on the page, and the save took what is to be deleted.
Acorde(p) ==
  ~p.toco =>
    /\ p.fase = "edita" => \A f \in p.cargadas : UnaVez(p.mesas, p.eliminadas, f)
    /\ p.fase = "cargando" => p.eliminadas = <<>> /\ p.guardado.fase = "no"
    /\ p.guardado.fase # "no" => p.guardado.eliminadas = p.eliminadas

EnMapa(s, c, n) == \E m \in Range(s) : m.cid = c /\ m.numero = n

\* A table with this number, that the page shows, saves or can put back.
Lleva(p, c, n) ==
  \/ p.fase = "edita" /\ EnMapa(p.mesas, c, n)
  \/ \E u \in Range(p.ultima) : u.mesa.cid = c /\ u.mesa.numero = n
  \/ EnMapa(p.guardado.mesas, c, n)

NuevasDe(p) == {c \in Nuevas : \E n \in Nat : Lleva(p, c, n)}

\* A table that was added is not twice in the same place.
Distintas(p) ==
  \A c \in Nuevas :
    /\ ALoSumoUna(p.guardado.mesas, c)
    /\ p.fase = "edita" => ALoSumoUna(p.mesas, c)
    /\ p.fase = "edita" /\ (\E u \in Range(p.ultima) : u.mesa.cid = c) => c \notin CidsDe(p.mesas)

\* Its rows.
Tales(filas, c) == {f \in Filas : filas[f].existe /\ filas[f].de = c}

\* It has one number, wherever it is, and so have its rows.
UnNumero(p, filas, rep) ==
  \A c \in Nuevas \ rep : \A n \in Nat : Lleva(p, c, n) =>
    /\ \A k \in Nat : Lleva(p, c, k) => k = n
    /\ \A f \in Tales(filas, c) : filas[f].numero = n

\* If it has a row, its answer is on its way, or was lost.
Contadas(p, filas, dud) ==
  \A c \in NuevasDe(p) : Tales(filas, c) # {} =>
    c \in dud \/ (p.guardado.fase = "hecho" /\ c \in CidsDe(p.guardado.mesas))

PaginaBien(p, filas, dud, rep) ==
  /\ p \in PaginasMapa /\ Acorde(p) /\ Distintas(p)
  /\ UnNumero(p, filas, rep) /\ Contadas(p, filas, dud)

CadaUnaLasSuyas ==
  \A a, b \in Editores : a # b => NuevasDe(editor[a]) \cap NuevasDe(editor[b]) = {}

UnaFila ==
  \A c \in Nuevas \ repetidas : \A f, g \in Tales(filaMesa, c) : f = g

MapaPleno ==
  /\ MapaInv
  /\ filaMesa \in [Filas -> FilasMesa] /\ IsFiniteSet(Existentes)
  /\ agregadas \in SUBSET Nuevas
  /\ \A f \in Filas : filaMesa[f].de \in agregadas \cup {SinId}
  /\ \A a \in Editores :
       PaginaBien(editor[a], filaMesa, dudosas, repetidas) /\ NuevasDe(editor[a]) \subseteq agregadas
  /\ CadaUnaLasSuyas /\ UnaFila

-----------------------------------------------------------------------------
(* The map and its tables: a page *)

\* What the rows are to the pages: the ones that there are, their numbers, and
\* whose they are.
LEMMA FilasIguales ==
  ASSUME NEW filas, NEW otras, NEW p, NEW dud, NEW rep, PaginaBien(p, filas, dud, rep),
         \A f \in Filas : /\ otras[f].existe = filas[f].existe
                          /\ otras[f].numero = filas[f].numero /\ otras[f].de = filas[f].de
  PROVE  PaginaBien(p, otras, dud, rep)
<1>1. \A c : Tales(otras, c) = Tales(filas, c)
  BY DEF Tales
<1>2. \A c : \A f \in Tales(filas, c) : otras[f].numero = filas[f].numero
  BY DEF Tales
<1> QED BY <1>1, <1>2 DEF PaginaBien, UnNumero, Contadas

\* A page that has no table that it did not have.
LEMMA MenosBien ==
  ASSUME NEW p, NEW q, NEW filas, NEW dud, NEW rep, NEW dud2, NEW rep2,
         PaginaBien(p, filas, dud, rep), dud \subseteq dud2, rep \subseteq rep2,
         q \in PaginasMapa, Acorde(q), Distintas(q),
         \A c \in Nuevas, n \in Nat : Lleva(q, c, n) => Lleva(p, c, n),
         \A c \in NuevasDe(q) : p.guardado.fase = "hecho" /\ c \in CidsDe(p.guardado.mesas) =>
           c \in dud2 \/ (q.guardado.fase = "hecho" /\ c \in CidsDe(q.guardado.mesas))
  PROVE  PaginaBien(q, filas, dud2, rep2) /\ NuevasDe(q) \subseteq NuevasDe(p)
<1>1. NuevasDe(q) \subseteq NuevasDe(p)
  BY DEF NuevasDe
<1>2. UnNumero(q, filas, rep2)
  BY DEF UnNumero, PaginaBien
<1>3. Contadas(q, filas, dud2)
  BY <1>1 DEF Contadas, PaginaBien
<1> QED BY <1>1, <1>2, <1>3 DEF PaginaBien

\* A step of a page: the other ones stay as they were.
LEMMA MueveEditor ==
  ASSUME MapaPleno, MapaInv', NEW a \in Editores, NEW q, editor' = [editor EXCEPT ![a] = q],
         UNCHANGED filaMesa, agregadas \subseteq agregadas', agregadas' \in SUBSET Nuevas,
         dudosas \subseteq dudosas', repetidas \subseteq repetidas',
         PaginaBien(q, filaMesa, dudosas', repetidas'),
         NuevasDe(q) \subseteq NuevasDe(editor[a]) \cup (agregadas' \ agregadas)
  PROVE  MapaPleno'
<1>1. /\ editor'[a] = q /\ \A b \in Editores \ {a} : editor'[b] = editor[b]
  BY DEF MapaPleno, MapaInv, MapaForma
<1>2. Existentes' = Existentes
  BY DEF Existentes
<1>3. \A b \in Editores \ {a} : PaginaBien(editor[b], filaMesa, dudosas', repetidas')
  <2> TAKE b \in Editores \ {a}
  <2>1. PaginaBien(editor[b], filaMesa, dudosas, repetidas)
    BY DEF MapaPleno
  <2> DEFINE p == editor[b]
  <2>2. p \in PaginasMapa /\ Acorde(p) /\ Distintas(p)
    BY <2>1 DEF PaginaBien
  <2> HIDE DEF p
  <2>3. PaginaBien(p, filaMesa, dudosas', repetidas')
    BY <2>1, <2>2, MenosBien DEF p
  <2> QED BY <2>3 DEF p
<1>4. \A b \in Editores : PaginaBien(editor'[b], filaMesa', dudosas', repetidas')
  BY <1>1, <1>3
<1>5. \A b \in Editores : NuevasDe(editor'[b]) \subseteq agregadas'
  BY <1>1 DEF MapaPleno
<1>6. CadaUnaLasSuyas'
  <2>1. SUFFICES ASSUME NEW b \in Editores, NEW d \in Editores, b # d,
                        NEW c, c \in NuevasDe(editor'[b]), c \in NuevasDe(editor'[d])
                 PROVE  FALSE
    BY DEF CadaUnaLasSuyas
  <2>2. \A x, y \in Editores : x # y => NuevasDe(editor[x]) \cap NuevasDe(editor[y]) = {}
    BY DEF MapaPleno, CadaUnaLasSuyas
  <2>3. \A x \in Editores : NuevasDe(editor[x]) \subseteq agregadas
    BY DEF MapaPleno
  <2> QED BY <1>1, <2>1, <2>2, <2>3
<1>7. UnaFila'
  BY DEF MapaPleno, UnaFila
<1> QED
  BY <1>2, <1>4, <1>5, <1>6, <1>7 DEF MapaPleno, PaginaBien

LEMMA PasoDePagina ==
  ASSUME MapaPleno, MapaInv', NEW a \in Editores, NEW q, editor' = [editor EXCEPT ![a] = q],
         UNCHANGED <<filaMesa, agregadas>>,
         dudosas \subseteq dudosas', repetidas \subseteq repetidas',
         q \in PaginasMapa, Acorde(q), Distintas(q),
         \A c \in Nuevas, n \in Nat : Lleva(q, c, n) => Lleva(editor[a], c, n),
         \A c \in NuevasDe(q) :
           editor[a].guardado.fase = "hecho" /\ c \in CidsDe(editor[a].guardado.mesas) =>
             c \in dudosas' \/ (q.guardado.fase = "hecho" /\ c \in CidsDe(q.guardado.mesas))
  PROVE  MapaPleno'
<1>1. PaginaBien(editor[a], filaMesa, dudosas, repetidas)
  BY DEF MapaPleno
<1>2. PaginaBien(q, filaMesa, dudosas', repetidas') /\ NuevasDe(q) \subseteq NuevasDe(editor[a])
  BY <1>1, MenosBien
<1> QED BY <1>2, MueveEditor DEF MapaPleno

LEMMA NadaEs ==
  /\ <<>> \in Seq(MesasMapa) /\ <<>> \in Seq(MesasConFila)
  /\ <<>> \in Seq([mesa : MesasMapa, indice : Nat \ {0}])
OBVIOUS

LEMMA VaciaEs ==
  /\ SinGuardado \in Guardados /\ SinGuardado.fase = "no" /\ SinGuardado.mesas = <<>>
  /\ SinGuardado.eliminadas = <<>>
  /\ PaginaVacia \in PaginasMapa /\ Acorde(PaginaVacia) /\ Distintas(PaginaVacia)
  /\ \A c, n : ~Lleva(PaginaVacia, c, n)
<1>1. /\ SinGuardado \in Guardados /\ SinGuardado.fase = "no" /\ SinGuardado.mesas = <<>>
      /\ SinGuardado.eliminadas = <<>>
  BY DEF SinGuardado, Guardados
<1>2. /\ PaginaVacia.fase = "cargando" /\ PaginaVacia.eliminadas = <<>>
      /\ PaginaVacia.ultima = <<>> /\ PaginaVacia.guardado = SinGuardado
      /\ PaginaVacia \in PaginasMapa
  BY <1>1 DEF PaginaVacia, PaginasMapa
<1>3. \A c, n : ~EnMapa(<<>>, c, n)
  BY NingunaEs DEF EnMapa
<1> HIDE DEF SinGuardado
<1>4. Acorde(PaginaVacia) /\ Distintas(PaginaVacia)
  BY <1>1, <1>2, NingunaEs DEF Acorde, Distintas
<1>5. \A c, n : ~Lleva(PaginaVacia, c, n)
  BY <1>1, <1>2, <1>3, NingunaEs DEF Lleva
<1> QED BY <1>1, <1>2, <1>4, <1>5

\* Loading again forgets what can be put back, and what the map shows is not
\* looked at until it comes.
LEMMA ConCargaEs ==
  ASSUME NEW p \in PaginasMapa, Distintas(p)
  PROVE  LET q == ConCarga(p) IN
         /\ q \in PaginasMapa /\ Distintas(q) /\ q.fase = "cargando"
         /\ q.eliminadas = p.eliminadas /\ q.guardado = p.guardado /\ q.toco = p.toco
         /\ \A c, n : Lleva(q, c, n) => Lleva(p, c, n)
<1> DEFINE q == ConCarga(p)
<1>1. /\ q \in PaginasMapa /\ q.fase = "cargando" /\ q.ultima = <<>>
      /\ q.eliminadas = p.eliminadas /\ q.guardado = p.guardado /\ q.toco = p.toco
  BY NadaEs DEF ConCarga, PaginasMapa
<1> HIDE DEF q
<1>2. Distintas(q)
  BY <1>1 DEF Distintas
<1>3. \A c, n : Lleva(q, c, n) => Lleva(p, c, n)
  BY <1>1, NingunaEs DEF Lleva
<1> QED BY <1>1, <1>2, <1>3 DEF q

LEMMA RenovarTokenPleno ==
  ASSUME MapaPleno, MapaInv', NEW a \in Editores, RenovarToken(a)
  PROVE  MapaPleno'
<1> DEFINE p == editor[a]
           toco == p.toco \/ Guardando(a) \/ p.eliminadas # <<>>
           r == [p EXCEPT !.toco = toco]
           q == ConCarga(r)
<1>1. /\ editor' = [editor EXCEPT ![a] = q] /\ UNCHANGED <<filaMesa, agregadas>>
      /\ UNCHANGED <<dudosas, repetidas>>
  BY DEF RenovarToken, salaVars, MapaPleno, MapaInv, MapaForma
<1>2. p \in PaginasMapa /\ Distintas(p)
  BY DEF MapaPleno, PaginaBien
<1>3. toco \in BOOLEAN /\ (~toco => p.guardado.fase = "no" /\ p.eliminadas = <<>>)
  BY <1>2 DEF Guardando, PaginasMapa
<1> HIDE DEF p, toco
<1>4. /\ r \in PaginasMapa /\ r.toco = toco /\ r.eliminadas = p.eliminadas
      /\ r.guardado = p.guardado /\ r.mesas = p.mesas /\ r.fase = p.fase /\ r.ultima = p.ultima
  BY <1>2, <1>3 DEF PaginasMapa
<1> HIDE DEF r
<1>5. Distintas(r) /\ \A c, n : Lleva(r, c, n) => Lleva(p, c, n)
  BY <1>2, <1>4 DEF Distintas, Lleva
<1>6. /\ q \in PaginasMapa /\ Distintas(q) /\ q.fase = "cargando"
      /\ q.eliminadas = r.eliminadas /\ q.guardado = r.guardado /\ q.toco = r.toco
      /\ \A c, n : Lleva(q, c, n) => Lleva(r, c, n)
  BY <1>4, <1>5, ConCargaEs
<1> HIDE DEF q
<1>7. Acorde(q)
  BY <1>3, <1>4, <1>6 DEF Acorde
<1> QED BY <1>1, <1>4, <1>5, <1>6, <1>7, PasoDePagina DEF p

LEMMA RecargarMapaPleno ==
  ASSUME MapaPleno, MapaInv', NEW a \in Editores, RecargarMapa(a)
  PROVE  MapaPleno'
<1>1. /\ editor' = [editor EXCEPT ![a] = PaginaVacia] /\ UNCHANGED <<filaMesa, agregadas>>
      /\ UNCHANGED <<dudosas, repetidas>>
  BY DEF RecargarMapa, salaVars
<1>2. NuevasDe(PaginaVacia) = {}
  BY VaciaEs DEF NuevasDe
<1> QED BY <1>1, <1>2, VaciaEs, PasoDePagina

LEMMA CerrarDeshacerPleno ==
  ASSUME MapaPleno, MapaInv', NEW a \in Editores, CerrarDeshacer(a)
  PROVE  MapaPleno'
<1> DEFINE p == editor[a]
           q == [p EXCEPT !.ultima = <<>>]
<1>1. /\ editor' = [editor EXCEPT ![a] = q] /\ UNCHANGED <<filaMesa, agregadas>>
      /\ UNCHANGED <<dudosas, repetidas>>
  BY DEF CerrarDeshacer, salaVars, MapaPleno, MapaInv, MapaForma
<1>2. p \in PaginasMapa /\ Distintas(p) /\ Acorde(p)
  BY DEF MapaPleno, PaginaBien
<1> HIDE DEF p
<1>3. /\ q \in PaginasMapa /\ q.toco = p.toco /\ q.eliminadas = p.eliminadas
      /\ q.guardado = p.guardado /\ q.mesas = p.mesas /\ q.fase = p.fase /\ q.ultima = <<>>
      /\ q.cargadas = p.cargadas
  BY <1>2, NadaEs DEF PaginasMapa
<1> HIDE DEF q
<1>4. Distintas(q) /\ Acorde(q)
  BY <1>2, <1>3, NingunaEs DEF Distintas, Acorde
<1>5. \A c, n : Lleva(q, c, n) => Lleva(p, c, n)
  BY <1>3, NingunaEs DEF Lleva
<1> QED BY <1>1, <1>3, <1>4, <1>5, PasoDePagina DEF p

LEMMA GuardarMapaPleno ==
  ASSUME MapaPleno, MapaInv', NEW a \in Editores, GuardarMapa(a)
  PROVE  MapaPleno'
<1> DEFINE p == editor[a]
           g == [fase |-> "viaja", mesas |-> p.mesas, eliminadas |-> p.eliminadas]
           q == [p EXCEPT !.guardado = g]
<1>1. /\ editor' = [editor EXCEPT ![a] = q] /\ UNCHANGED <<filaMesa, agregadas>>
      /\ UNCHANGED <<dudosas, repetidas>> /\ p.fase = "edita" /\ p.guardado.fase = "no"
  BY DEF GuardarMapa, Guardando, salaVars, MapaPleno, MapaInv, MapaForma
<1>2. p \in PaginasMapa /\ Distintas(p) /\ Acorde(p)
  BY DEF MapaPleno, PaginaBien
<1> HIDE DEF p
<1>3. /\ g \in Guardados /\ g.fase = "viaja" /\ g.mesas = p.mesas
      /\ g.eliminadas = p.eliminadas
  BY <1>2 DEF PaginasMapa, Guardados
<1> HIDE DEF g
<1>4. /\ q \in PaginasMapa /\ q.toco = p.toco /\ q.eliminadas = p.eliminadas
      /\ q.guardado = g /\ q.mesas = p.mesas /\ q.fase = p.fase /\ q.ultima = p.ultima
      /\ q.cargadas = p.cargadas
  BY <1>2, <1>3 DEF PaginasMapa
<1> HIDE DEF q
<1>5. Distintas(q) /\ Acorde(q)
  BY <1>1, <1>2, <1>3, <1>4 DEF Distintas, Acorde
<1>6. \A c, n : Lleva(q, c, n) => Lleva(p, c, n)
  BY <1>1, <1>3, <1>4 DEF Lleva
<1> QED BY <1>1, <1>4, <1>5, <1>6, PasoDePagina DEF p

\* What happens to a save in the server, for the page.
LEMMA FasePleno ==
  ASSUME MapaPleno, MapaInv', NEW a \in Editores, NEW fase \in {"reviso", "rechazado"},
         editor[a].guardado.fase \in {"viaja", "reviso"},
         editor' = [editor EXCEPT ![a].guardado.fase = fase],
         UNCHANGED <<filaMesa, agregadas, dudosas, repetidas>>
  PROVE  MapaPleno'
<1> DEFINE p == editor[a]
           g == [p.guardado EXCEPT !.fase = fase]
           q == [p EXCEPT !.guardado = g]
<1>1. editor' = [editor EXCEPT ![a] = q]
  BY DEF MapaPleno, MapaInv, MapaForma
<1>2. /\ p \in PaginasMapa /\ Distintas(p) /\ Acorde(p)
      /\ p.guardado.fase \in {"viaja", "reviso"}
  BY DEF MapaPleno, PaginaBien
<1> HIDE DEF p
<1>3. /\ g \in Guardados /\ g.fase = fase /\ g.mesas = p.guardado.mesas
      /\ g.eliminadas = p.guardado.eliminadas
  BY <1>2 DEF PaginasMapa, Guardados
<1> HIDE DEF g
<1>4. /\ q \in PaginasMapa /\ q.toco = p.toco /\ q.eliminadas = p.eliminadas
      /\ q.guardado = g /\ q.mesas = p.mesas /\ q.fase = p.fase /\ q.ultima = p.ultima
      /\ q.cargadas = p.cargadas
  BY <1>2, <1>3 DEF PaginasMapa
<1> HIDE DEF q
<1>5. Distintas(q) /\ Acorde(q)
  BY <1>2, <1>3, <1>4 DEF Distintas, Acorde
<1>6. \A c, n : Lleva(q, c, n) => Lleva(p, c, n)
  BY <1>3, <1>4 DEF Lleva
<1>7. p.guardado.fase # "hecho"
  BY <1>2
<1> QED BY <1>1, <1>4, <1>5, <1>6, <1>7, PasoDePagina DEF p

\* Its answer: the map is loaded again.
LEMMA LlegaGuardadoPleno ==
  ASSUME MapaPleno, MapaInv', NEW a \in Editores, LlegaGuardado(a)
  PROVE  MapaPleno'
<1> DEFINE p == editor[a]
           r == [p EXCEPT !.guardado = SinGuardado, !.eliminadas = <<>>, !.toco = FALSE]
           q == ConCarga(r)
<1>1. /\ editor' = [editor EXCEPT ![a] = q] /\ UNCHANGED <<filaMesa, agregadas>>
      /\ UNCHANGED <<dudosas, repetidas>>
  BY DEF LlegaGuardado, TrasGuardar, salaVars, MapaPleno, MapaInv, MapaForma
<1>2. p \in PaginasMapa /\ Distintas(p)
  BY DEF MapaPleno, PaginaBien
<1> HIDE DEF p
<1>3. /\ r \in PaginasMapa /\ r.toco = FALSE /\ r.eliminadas = <<>>
      /\ r.guardado = SinGuardado /\ r.mesas = p.mesas /\ r.fase = p.fase /\ r.ultima = p.ultima
  BY <1>2, VaciaEs, NadaEs DEF PaginasMapa
<1> HIDE DEF r
<1>4. Distintas(r)
  BY <1>2, <1>3, VaciaEs, NingunaEs DEF Distintas
<1>5. /\ q \in PaginasMapa /\ Distintas(q) /\ q.fase = "cargando" /\ q.ultima = <<>>
      /\ q.eliminadas = <<>> /\ q.guardado = SinGuardado /\ q.toco = FALSE
  <2>1. q.ultima = <<>>
    BY <1>3 DEF ConCarga, PaginasMapa
  <2> QED BY <1>3, <1>4, <2>1, ConCargaEs
<1> HIDE DEF q
<1>6. Acorde(q)
  BY <1>5, VaciaEs DEF Acorde
<1>7. \A c, n : ~Lleva(q, c, n)
  BY <1>5, VaciaEs, NingunaEs DEF Lleva, EnMapa
<1>8. NuevasDe(q) = {}
  BY <1>7 DEF NuevasDe
<1> QED BY <1>1, <1>5, <1>6, <1>7, <1>8, PasoDePagina

\* What was removed has rows: it was not added by a page.
LEMMA ConFilaEs ==
  ASSUME NEW s \in Seq(MesasConFila)
  PROVE  s \in Seq(MesasMapa) /\ CidsDe(s) \subseteq Filas
<1>1. \A i \in 1 .. Len(s) : s[i] \in MesasMapa /\ s[i].cid \in Filas
  BY DEF MesasConFila
<1>2. s \in [1 .. Len(s) -> MesasMapa] /\ Len(s) \in Nat
  BY <1>1
<1> QED BY <1>1, <1>2 DEF CidsDe

LEMMA CreadasEs ==
  ASSUME NEW a \in Editores, editor[a].guardado.mesas \in Seq(MesasMapa)
  PROVE  /\ Creadas(a) \in Seq(MesasMapa)
         /\ Range(Creadas(a)) = {m \in Range(editor[a].guardado.mesas) : m.cid \in Nuevas}
         /\ CidsDe(Creadas(a)) = CidsDe(editor[a].guardado.mesas) \cap Nuevas
         /\ \A c : ALoSumoUna(editor[a].guardado.mesas, c) => ALoSumoUna(Creadas(a), c)
<1> DEFINE s == editor[a].guardado.mesas
           L == {i \in DOMAIN s : s[i].id = SinId}
           q == EnLugares(s, L)
<1>1. Creadas(a) = q
  BY DEF Creadas
<1>2. s \in Seq(MesasMapa)
  OBVIOUS
<1> HIDE DEF s
<1>3. /\ q \in Seq(MesasMapa) /\ Range(q) = {s[i] : i \in L}
      /\ \A c : ALoSumoUna(s, c) => ALoSumoUna(q, c)
  <2>1. L \in SUBSET DOMAIN s
    OBVIOUS
  <2> HIDE DEF L
  <2> QED BY <1>2, <2>1, LugaresEs
<1> HIDE DEF q
<1>4. \A i \in DOMAIN s : s[i].id = SinId <=> s[i].cid \in Nuevas
  BY <1>2, MapaAssumption DEF MesasMapa
<1>5. Range(q) = {m \in Range(s) : m.cid \in Nuevas}
  BY <1>3, <1>4 DEF Range
<1>6. CidsDe(q) = CidsDe(s) \cap Nuevas
  BY <1>5, CidsEs
<1> QED BY <1>1, <1>3, <1>5, <1>6 DEF s

\* Its answer: what was removed when it was asked for is put back.
LEMMA ErrorPleno ==
  ASSUME MapaPleno, MapaInv', NEW a \in Editores, editor[a].guardado.fase # "no",
         editor' = [editor EXCEPT ![a] = TrasElError(a)],
         UNCHANGED <<filaMesa, agregadas, repetidas>>, dudosas \subseteq dudosas',
         editor[a].guardado.fase = "hecho" => CidsDe(Creadas(a)) \subseteq dudosas'
  PROVE  MapaPleno'
<1> DEFINE p == editor[a]
           dev == p.guardado.eliminadas
           mesas == p.mesas \o dev
           eliminadas == IF dev = <<>> THEN p.eliminadas ELSE <<>>
           q == [p EXCEPT !.guardado = SinGuardado, !.mesas = mesas, !.eliminadas = eliminadas]
<1>1. editor' = [editor EXCEPT ![a] = q]
  BY DEF TrasElError
<1>2. /\ p \in PaginasMapa /\ Distintas(p) /\ Acorde(p) /\ p.guardado.fase # "no"
  BY DEF MapaPleno, PaginaBien
<1>3. p.guardado.fase = "hecho" => CidsDe(p.guardado.mesas) \cap Nuevas \subseteq dudosas'
  <2>1. p.guardado.mesas \in Seq(MesasMapa)
    BY <1>2 DEF PaginasMapa, Guardados
  <2> QED BY <2>1, CreadasEs
<1> HIDE DEF p
<1>4. /\ p.mesas \in Seq(MesasMapa) /\ p.eliminadas \in Seq(MesasConFila)
      /\ dev \in Seq(MesasConFila)
  BY <1>2 DEF PaginasMapa, Guardados
<1> HIDE DEF dev
<1>5. dev \in Seq(MesasMapa) /\ CidsDe(dev) \subseteq Filas
  BY <1>4, ConFilaEs
<1>6. /\ mesas \in Seq(MesasMapa) /\ Range(mesas) = Range(p.mesas) \cup Range(dev)
      /\ CidsDe(mesas) = CidsDe(p.mesas) \cup CidsDe(dev)
      /\ \A x : /\ ALoSumoUna(p.mesas, x) /\ ALoSumoUna(dev, x)
                /\ x \notin CidsDe(p.mesas) \/ x \notin CidsDe(dev)
                => ALoSumoUna(mesas, x)
  BY <1>4, <1>5, SeguidasEs
<1>7. eliminadas \in Seq(MesasConFila)
  BY <1>4, NadaEs
<1>8. \A c \in Nuevas : c \notin CidsDe(dev) /\ ALoSumoUna(dev, c)
  <2>1. \A c \in Nuevas : c \notin CidsDe(dev)
    BY <1>5, MapaAssumption
  <2> QED BY <2>1 DEF ALoSumoUna, CidsDe
<1> HIDE DEF mesas, eliminadas
<1>9. /\ q \in PaginasMapa /\ q.toco = p.toco /\ q.eliminadas = eliminadas
      /\ q.guardado = SinGuardado /\ q.mesas = mesas /\ q.fase = p.fase /\ q.ultima = p.ultima
      /\ q.cargadas = p.cargadas
  BY <1>2, <1>6, <1>7, VaciaEs DEF PaginasMapa
<1> HIDE DEF q
<1>10. Distintas(q)
  BY <1>2, <1>6, <1>8, <1>9, VaciaEs, NingunaEs DEF Distintas
<1>11. Acorde(q)
  <2>1. SUFFICES ASSUME ~p.toco
                 PROVE  /\ p.fase = "edita" /\ eliminadas = <<>>
                        /\ \A f \in p.cargadas : UnaVez(mesas, <<>>, f)
    BY <1>9, VaciaEs DEF Acorde
  <2>2. p.fase = "edita" /\ dev = p.eliminadas
    <3>1. p.fase \in {"edita", "cargando"}
      BY <1>2 DEF PaginasMapa
    <3> QED BY <1>2, <2>1, <3>1 DEF Acorde, dev
  <2>3. eliminadas = <<>>
    BY <2>2 DEF eliminadas
  <2>4. ASSUME NEW f \in p.cargadas PROVE UnaVez(mesas, <<>>, f)
    <3>1. UnaVez(p.mesas, dev, f)
      BY <1>2, <2>1, <2>2, <2>4 DEF Acorde
    <3> QED BY <1>6, <3>1, NingunaEs DEF UnaVez
  <2> QED BY <2>2, <2>3, <2>4
<1>12. \A c \in Nuevas, n \in Nat : Lleva(q, c, n) => Lleva(p, c, n)
  <2>1. SUFFICES ASSUME NEW c \in Nuevas, NEW n \in Nat, EnMapa(mesas, c, n)
                 PROVE  EnMapa(p.mesas, c, n)
    BY <1>9, VaciaEs, NingunaEs DEF Lleva, EnMapa
  <2>2. \A m \in Range(dev) : m.cid # c
    BY <1>8, CidsEs
  <2> QED BY <1>6, <2>1, <2>2 DEF EnMapa
<1>13. \A c \in NuevasDe(q) : c \in Nuevas
  BY DEF NuevasDe
<1> QED BY <1>1, <1>3, <1>9, <1>10, <1>11, <1>12, <1>13, PasoDePagina DEF p

LEMMA RespuestasPlenas ==
  ASSUME MapaPleno, MapaInv', NEW a \in Editores,
         LlegaGuardado(a) \/ LlegaRechazo(a) \/ PierdeGuardado(a)
  PROVE  MapaPleno'
<1>1. CASE LlegaGuardado(a)
  BY <1>1, LlegaGuardadoPleno
<1>2. CASE LlegaRechazo(a)
  BY <1>2, ErrorPleno DEF LlegaRechazo, salaVars
<1>3. CASE PierdeGuardado(a)
  BY <1>3, ErrorPleno DEF PierdeGuardado, salaVars
<1> QED BY <1>1, <1>2, <1>3

LEMMA VerEstadoPleno ==
  ASSUME MapaPleno, MapaInv', NEW a \in Editores, NEW f \in Filas, VerEstado(a, f)
  PROVE  MapaPleno'
<1> DEFINE p == editor[a]
           e == filaMesa[f].estado
           mesas == [i \in DOMAIN p.mesas |->
                       IF p.mesas[i].id = f THEN [p.mesas[i] EXCEPT !.estado = e] ELSE p.mesas[i]]
           q == [p EXCEPT !.mesas = mesas]
<1>1. /\ editor' = [editor EXCEPT ![a] = q] /\ UNCHANGED <<filaMesa, agregadas>>
      /\ UNCHANGED <<dudosas, repetidas>>
  BY DEF VerEstado, salaVars, MapaPleno, MapaInv, MapaForma
<1>2. p \in PaginasMapa /\ Distintas(p) /\ Acorde(p)
  BY DEF MapaPleno, PaginaBien
<1>3. e \in {"LIBRE", "OCUPADA"}
  BY DEF MapaPleno, FilasMesa
<1> HIDE DEF p, e
<1>4. p.mesas \in Seq(MesasMapa)
  BY <1>2 DEF PaginasMapa
<1>5. \A i \in DOMAIN p.mesas : /\ mesas[i] \in MesasMapa /\ mesas[i].cid = p.mesas[i].cid
                                /\ mesas[i].numero = p.mesas[i].numero
  <2> TAKE i \in DOMAIN p.mesas
  <2>1. p.mesas[i] \in MesasMapa
    BY <1>4
  <2> QED BY <1>3, <2>1 DEF MesasMapa
<1>6. DOMAIN mesas = DOMAIN p.mesas
  OBVIOUS
<1>7. mesas \in Seq(MesasMapa)
  <2>1. DOMAIN p.mesas = 1 .. Len(p.mesas) /\ Len(p.mesas) \in Nat
    BY <1>4
  <2>2. mesas \in [1 .. Len(p.mesas) -> MesasMapa]
    BY <1>5, <2>1
  <2> HIDE DEF mesas
  <2> QED BY <2>1, <2>2
<1> HIDE DEF mesas
<1>8. CidsDe(mesas) = CidsDe(p.mesas) /\ \A x : ALoSumoUna(p.mesas, x) => ALoSumoUna(mesas, x)
  BY <1>5, <1>6, <1>7, EscritasEs
<1>9. \A c, n : EnMapa(mesas, c, n) => EnMapa(p.mesas, c, n)
  BY <1>5, <1>6 DEF EnMapa, Range
<1>10. /\ q \in PaginasMapa /\ q.toco = p.toco /\ q.eliminadas = p.eliminadas
       /\ q.guardado = p.guardado /\ q.mesas = mesas /\ q.fase = p.fase /\ q.ultima = p.ultima
       /\ q.cargadas = p.cargadas
  BY <1>2, <1>7 DEF PaginasMapa
<1> HIDE DEF q
<1>11. Distintas(q) /\ Acorde(q)
  <2>1. Distintas(q)
    BY <1>2, <1>8, <1>10 DEF Distintas
  <2>2. \A x : UnaVez(p.mesas, p.eliminadas, x) => UnaVez(mesas, p.eliminadas, x)
    BY <1>8 DEF UnaVez
  <2>3. Acorde(q)
    BY <1>2, <1>10, <2>2 DEF Acorde
  <2> QED BY <2>1, <2>3
<1>12. \A c, n : Lleva(q, c, n) => Lleva(p, c, n)
  BY <1>9, <1>10 DEF Lleva
<1> QED BY <1>1, <1>10, <1>11, <1>12, PasoDePagina DEF p

\* What is loaded: each table that there is, once.
LEMMA CargarPleno ==
  ASSUME MapaPleno, MapaInv', NEW a \in Editores, Cargar(a)
  PROVE  MapaPleno'
<1> DEFINE p == editor[a]
           E == Existentes
           n == Cardinality(E)
           clave == [f \in E |-> filaMesa[f].numero]
           orden == EnOrden(E, clave)
           mesas == [i \in DOMAIN orden |->
             [cid |-> orden[i], id |-> orden[i], numero |-> filaMesa[orden[i]].numero,
              estado |-> filaMesa[orden[i]].estado]]
           foto == AGuardar(mesas)
           q == [p EXCEPT !.fase = "edita", !.mesas = mesas, !.foto = foto, !.cargadas = E]
<1>1. /\ editor' = [editor EXCEPT ![a] = q] /\ UNCHANGED <<filaMesa, agregadas>>
      /\ UNCHANGED <<dudosas, repetidas>> /\ p.fase = "cargando"
  BY DEF Cargar, salaVars, MapaPleno, MapaInv, MapaForma
<1>2. p \in PaginasMapa /\ Distintas(p) /\ Acorde(p)
  BY DEF MapaPleno, PaginaBien
<1>3. \A f \in Filas : filaMesa[f].numero \in Nat /\ filaMesa[f].estado \in {"LIBRE", "OCUPADA"}
  BY DEF MapaPleno, FilasMesa
<1>4. E \subseteq Filas /\ IsFiniteSet(E)
  BY DEF MapaPleno, Existentes
<1>5. clave \in [E -> Nat]
  BY <1>3, <1>4
<1>6. /\ n \in Nat /\ orden \in [1 .. n -> E]
      /\ \A i, j \in 1 .. n : orden[i] = orden[j] => i = j
      /\ \A x \in E : \E i \in 1 .. n : orden[i] = x
  <2> HIDE DEF E, clave
  <2> QED BY <1>4, <1>5, EnOrdenEs
<1> HIDE DEF p, E, n, clave, orden
<1>7. \A i \in 1 .. n : mesas[i] \in MesasMapa /\ mesas[i].cid = orden[i]
  <2> TAKE i \in 1 .. n
  <2>1. orden[i] \in Filas /\ orden[i] \notin Nuevas
    BY <1>4, <1>6, MapaAssumption
  <2> QED BY <1>3, <1>6, <2>1 DEF MesasMapa
<1>8. DOMAIN mesas = 1 .. n /\ mesas \in Seq(MesasMapa)
  <2>1. mesas \in [1 .. n -> MesasMapa]
    BY <1>6, <1>7
  <2>2. n \in Nat
    BY <1>6
  <2> HIDE DEF mesas
  <2> QED BY <2>1, <2>2
<1> HIDE DEF mesas
<1>9. CidsDe(mesas) = E
  BY <1>6, <1>7, <1>8 DEF CidsDe
<1>10. \A x : ALoSumoUna(mesas, x)
  BY <1>6, <1>7, <1>8 DEF ALoSumoUna
<1>11. foto \in SUBSET [id : Filas \cup {SinId}, numero : Nat]
  <2>1. \A i \in DOMAIN mesas : mesas[i].id \in Filas \cup {SinId} /\ mesas[i].numero \in Nat
    <3>1. \A i \in DOMAIN mesas : mesas[i] \in MesasMapa
      BY <1>7, <1>8 DEF mesas
    <3> QED BY <3>1 DEF MesasMapa
  <2> QED BY <2>1 DEF AGuardar
<1> HIDE DEF foto
<1>12. /\ q \in PaginasMapa /\ q.toco = p.toco /\ q.eliminadas = p.eliminadas
       /\ q.guardado = p.guardado /\ q.mesas = mesas /\ q.fase = "edita" /\ q.ultima = p.ultima
       /\ q.cargadas = E
  BY <1>2, <1>4, <1>8, <1>11 DEF PaginasMapa
<1> HIDE DEF q
<1>13. \A c \in Nuevas : c \notin CidsDe(mesas)
  BY <1>4, <1>9, MapaAssumption
<1>14. Distintas(q)
  BY <1>2, <1>10, <1>12, <1>13 DEF Distintas
<1>15. Acorde(q)
  <2>1. ASSUME ~p.toco, NEW f \in E PROVE UnaVez(mesas, p.eliminadas, f)
    BY <1>1, <1>2, <1>9, <1>10, <2>1, NingunaEs DEF Acorde, UnaVez
  <2> QED BY <1>1, <1>2, <1>12, <2>1 DEF Acorde
<1>16. \A c \in Nuevas, k \in Nat : Lleva(q, c, k) => Lleva(p, c, k)
  <2>1. \A c \in Nuevas, k \in Nat : ~EnMapa(mesas, c, k)
    BY <1>13, CidsEs DEF EnMapa
  <2> QED BY <1>12, <2>1 DEF Lleva
<1> QED BY <1>1, <1>12, <1>14, <1>15, <1>16, PasoDePagina DEF p

LEMMA QuitarMesaPleno ==
  ASSUME MapaPleno, MapaInv', NEW a \in Editores, NEW c, QuitarMesa(a, c)
  PROVE  MapaPleno'
<1> DEFINE p == editor[a]
           i == SelectInSeq(p.mesas, LAMBDA m : m.cid = c)
           mesa == p.mesas[i]
           mesas == Sin(p.mesas, c)
           eliminadas == IF mesa.id = SinId THEN p.eliminadas ELSE Append(p.eliminadas, mesa)
           ultima == <<[mesa |-> mesa, indice |-> i]>>
           toco == p.toco \/ Guardando(a)
           q == [p EXCEPT !.mesas = mesas, !.eliminadas = eliminadas,
                          !.ultima = ultima, !.toco = toco]
<1>1. /\ editor' = [editor EXCEPT ![a] = q] /\ UNCHANGED <<filaMesa, agregadas>>
      /\ UNCHANGED <<dudosas, repetidas>>
  BY DEF QuitarMesa, salaVars, MapaPleno, MapaInv, MapaForma
<1>2. p \in PaginasMapa /\ Distintas(p) /\ Acorde(p) /\ p.fase = "edita" /\ c \in CidsDe(p.mesas)
  BY DEF MapaPleno, PaginaBien, QuitarMesa, Edita
<1>3. toco \in BOOLEAN /\ (~toco => ~p.toco /\ p.guardado.fase = "no")
  BY <1>2 DEF Guardando, PaginasMapa
<1> HIDE DEF p, toco
<1>4. p.mesas \in Seq(MesasMapa) /\ p.eliminadas \in Seq(MesasConFila)
  BY <1>2 DEF PaginasMapa
<1>5. i \in DOMAIN p.mesas /\ mesa.cid = c
  BY <1>2, <1>4, PrimeraEs
<1> HIDE DEF i
<1>6. i \in Nat \ {0} /\ mesa \in MesasMapa
  BY <1>4, <1>5
<1>7. mesa \in Range(p.mesas)
  BY <1>5 DEF Range
<1> HIDE DEF mesa
<1>8. \/ mesa.id = SinId /\ c \in Nuevas
      \/ mesa.id # SinId /\ mesa \in MesasConFila
  BY <1>5, <1>6, MapaAssumption DEF MesasMapa, MesasConFila
<1>9. /\ mesas \in Seq(MesasMapa) /\ Range(mesas) = {m \in Range(p.mesas) : m.cid # c}
      /\ CidsDe(mesas) = CidsDe(p.mesas) \ {c}
      /\ \A x : ALoSumoUna(p.mesas, x) => ALoSumoUna(mesas, x)
  BY <1>4, SinEs
<1>10. /\ eliminadas \in Seq(MesasConFila)
       /\ CidsDe(eliminadas) = IF mesa.id = SinId THEN CidsDe(p.eliminadas)
                               ELSE CidsDe(p.eliminadas) \cup {c}
       /\ \A x : ALoSumoUna(p.eliminadas, x) /\ (x = c => x \notin CidsDe(p.eliminadas))
            => ALoSumoUna(eliminadas, x)
  <2>1. CASE mesa.id = SinId
    BY <1>4, <2>1
  <2>2. CASE mesa.id # SinId
    BY <1>4, <1>5, <1>8, <2>2, AgregadaEs
  <2> QED BY <2>1, <2>2
<1>11. ultima \in Seq([mesa : MesasMapa, indice : Nat \ {0}])
       /\ \A u \in Range(ultima) : u.mesa = mesa
  BY <1>6 DEF Range
<1> HIDE DEF mesas, eliminadas, ultima
<1>12. /\ q \in PaginasMapa /\ q.toco = toco /\ q.eliminadas = eliminadas
       /\ q.guardado = p.guardado /\ q.mesas = mesas /\ q.fase = p.fase /\ q.ultima = ultima
       /\ q.cargadas = p.cargadas
  BY <1>2, <1>3, <1>9, <1>10, <1>11 DEF PaginasMapa
<1> HIDE DEF q
<1>13. Distintas(q)
  BY <1>2, <1>5, <1>9, <1>11, <1>12 DEF Distintas
<1>14. Acorde(q)
  <2>1. ASSUME ~p.toco, NEW f \in p.cargadas PROVE UnaVez(mesas, eliminadas, f)
    <3>1. UnaVez(p.mesas, p.eliminadas, f) /\ f \in Filas
      BY <1>2, <2>1 DEF Acorde, PaginasMapa
    <3>2. CASE f # c
      BY <1>9, <1>10, <3>1, <3>2 DEF UnaVez
    <3>3. CASE f = c
      <4>1. mesa.id # SinId
        BY <1>8, <3>1, <3>3, MapaAssumption
      <4> QED BY <1>2, <1>9, <1>10, <3>1, <3>3, <4>1 DEF UnaVez
    <3> QED BY <3>2, <3>3
  <2> QED BY <1>2, <1>3, <1>12, <2>1 DEF Acorde
<1>15. \A x, n : Lleva(q, x, n) => Lleva(p, x, n)
  BY <1>2, <1>7, <1>9, <1>11, <1>12 DEF Lleva, EnMapa
<1> QED BY <1>1, <1>12, <1>13, <1>14, <1>15, PasoDePagina DEF p

LEMMA ReponerMesaPleno ==
  ASSUME MapaPleno, MapaInv', NEW a \in Editores, ReponerMesa(a)
  PROVE  MapaPleno'
<1> DEFINE p == editor[a]
           u == p.ultima[1]
           c == u.mesa.cid
           lugar == IF u.indice > Len(p.mesas) + 1 THEN Len(p.mesas) + 1 ELSE u.indice
           esta == c \in CidsDe(p.mesas)
           mesas == IF esta THEN p.mesas ELSE InsertAt(p.mesas, lugar, u.mesa)
           eliminadas == IF esta THEN p.eliminadas ELSE Sin(p.eliminadas, c)
           toco == p.toco \/ Guardando(a)
           q == [p EXCEPT !.mesas = mesas, !.eliminadas = eliminadas,
                          !.ultima = <<>>, !.toco = toco]
<1>1. /\ editor' = [editor EXCEPT ![a] = q] /\ UNCHANGED <<filaMesa, agregadas>>
      /\ UNCHANGED <<dudosas, repetidas>>
  BY DEF ReponerMesa, salaVars, MapaPleno, MapaInv, MapaForma
<1>2. p \in PaginasMapa /\ Distintas(p) /\ Acorde(p) /\ p.fase = "edita" /\ p.ultima # <<>>
  BY DEF MapaPleno, PaginaBien, ReponerMesa
<1>3. toco \in BOOLEAN /\ (~toco => ~p.toco /\ p.guardado.fase = "no")
  BY <1>2 DEF Guardando, PaginasMapa
<1> HIDE DEF p, toco
<1>4. /\ p.mesas \in Seq(MesasMapa) /\ p.eliminadas \in Seq(MesasConFila)
      /\ p.ultima \in Seq([mesa : MesasMapa, indice : Nat \ {0}])
  BY <1>2 DEF PaginasMapa
<1>5. u \in Range(p.ultima) /\ u.mesa \in MesasMapa /\ u.indice \in Nat \ {0}
  <2>1. 1 \in DOMAIN p.ultima
    BY <1>2, <1>4
  <2>2. u \in Range(p.ultima)
    BY <2>1 DEF Range
  <2> HIDE DEF u
  <2>3. u \in [mesa : MesasMapa, indice : Nat \ {0}]
    BY <1>4, <2>2, EnRango
  <2> QED BY <2>2, <2>3
<1> HIDE DEF u
<1>6. lugar \in 1 .. Len(p.mesas) + 1
  <2>1. Len(p.mesas) \in Nat
    BY <1>4
  <2> QED BY <1>5, <2>1
<1> HIDE DEF lugar
<1>7. /\ mesas \in Seq(MesasMapa)
      /\ ~esta => /\ Range(mesas) = Range(p.mesas) \cup {u.mesa}
                  /\ CidsDe(mesas) = CidsDe(p.mesas) \cup {c}
      /\ esta => mesas = p.mesas
      /\ \A x : ALoSumoUna(p.mesas, x) => ALoSumoUna(mesas, x)
  <2>1. CASE esta
    BY <1>4, <2>1
  <2>2. CASE ~esta
    <3> DEFINE z == InsertAt(p.mesas, lugar, u.mesa)
    <3>1. /\ z \in Seq(MesasMapa) /\ Range(z) = Range(p.mesas) \cup {u.mesa}
          /\ CidsDe(z) = CidsDe(p.mesas) \cup {c}
          /\ \A x : ALoSumoUna(p.mesas, x) /\ (x = c => x \notin CidsDe(p.mesas))
                      => ALoSumoUna(z, x)
      BY <1>4, <1>5, <1>6, ReinsertadaEs
    <3>2. mesas = z /\ c \notin CidsDe(p.mesas)
      BY <2>2
    <3> HIDE DEF z, mesas
    <3> QED BY <2>2, <3>1, <3>2
  <2> QED BY <2>1, <2>2
<1>8. /\ eliminadas \in Seq(MesasConFila)
      /\ ~esta => CidsDe(eliminadas) = CidsDe(p.eliminadas) \ {c}
      /\ esta => eliminadas = p.eliminadas
      /\ \A x : ALoSumoUna(p.eliminadas, x) => ALoSumoUna(eliminadas, x)
  <2>1. CASE esta
    BY <1>4, <2>1
  <2>2. CASE ~esta
    BY <1>4, <2>2, SinEs
  <2> QED BY <2>1, <2>2
<1> HIDE DEF mesas, eliminadas
<1>9. /\ q \in PaginasMapa /\ q.toco = toco /\ q.eliminadas = eliminadas
      /\ q.guardado = p.guardado /\ q.mesas = mesas /\ q.fase = p.fase /\ q.ultima = <<>>
      /\ q.cargadas = p.cargadas
  BY <1>2, <1>3, <1>7, <1>8, NadaEs DEF PaginasMapa
<1> HIDE DEF q
<1>10. Distintas(q)
  BY <1>2, <1>7, <1>9, NingunaEs DEF Distintas
<1>11. Acorde(q)
  <2>1. ASSUME ~p.toco, NEW f \in p.cargadas PROVE UnaVez(mesas, eliminadas, f)
    <3>1. UnaVez(p.mesas, p.eliminadas, f)
      BY <1>2, <2>1 DEF Acorde
    <3> QED BY <1>7, <1>8, <3>1 DEF UnaVez
  <2> QED BY <1>2, <1>3, <1>9, <2>1 DEF Acorde
<1>12. \A x, n : Lleva(q, x, n) => Lleva(p, x, n)
  <2>1. \A x, n : EnMapa(mesas, x, n) => EnMapa(p.mesas, x, n)
                                        \/ (x = c /\ n = u.mesa.numero)
    BY <1>7 DEF EnMapa
  <2> QED BY <1>2, <1>5, <1>9, <2>1, NingunaEs DEF Lleva
<1> QED BY <1>1, <1>9, <1>10, <1>11, <1>12, PasoDePagina DEF p

LEMMA LlevaEs ==
  ASSUME NEW p \in PaginasMapa, NEW c \in Nuevas
  PROVE  /\ p.fase = "edita" /\ c \in CidsDe(p.mesas) => c \in NuevasDe(p)
         /\ c \in CidsDe(p.guardado.mesas) => c \in NuevasDe(p)
         /\ (\E u \in Range(p.ultima) : u.mesa.cid = c) => c \in NuevasDe(p)
<1>1. /\ p.mesas \in Seq(MesasMapa) /\ p.guardado.mesas \in Seq(MesasMapa)
      /\ p.ultima \in Seq([mesa : MesasMapa, indice : Nat \ {0}])
  BY DEF PaginasMapa, Guardados
<1>2. \A m \in Range(p.mesas) \cup Range(p.guardado.mesas) : m.numero \in Nat
  BY <1>1, EnRango DEF MesasMapa
<1>3. \A u \in Range(p.ultima) : u.mesa.numero \in Nat
  <2> TAKE u \in Range(p.ultima)
  <2>1. u \in [mesa : MesasMapa, indice : Nat \ {0}]
    BY <1>1, EnRango
  <2> QED BY <2>1 DEF MesasMapa
<1> QED BY <1>2, <1>3, CidsEs DEF NuevasDe, Lleva, EnMapa

\* A table that is added has a number of its own, and no row.
LEMMA AgregarMesaPleno ==
  ASSUME MapaPleno, MapaInv', NEW a \in Editores, NEW c, AgregarMesa(a, c)
  PROVE  MapaPleno'
<1> DEFINE p == editor[a]
           num == SiguienteNumero(p.mesas)
           m == [cid |-> c, id |-> SinId, numero |-> num, estado |-> "LIBRE"]
           mesas == Append(p.mesas, m)
           q == [p EXCEPT !.mesas = mesas]
<1>1. /\ editor' = [editor EXCEPT ![a] = q] /\ UNCHANGED filaMesa
      /\ UNCHANGED <<dudosas, repetidas>> /\ agregadas' = agregadas \cup {c}
      /\ c \in Nuevas /\ c \notin agregadas
  BY DEF AgregarMesa, salaVars, MapaPleno, MapaInv, MapaForma
<1>2. /\ p \in PaginasMapa /\ Distintas(p) /\ Acorde(p) /\ p.fase = "edita"
      /\ UnNumero(p, filaMesa, repetidas) /\ Contadas(p, filaMesa, dudosas)
      /\ NuevasDe(p) \subseteq agregadas
  BY DEF MapaPleno, PaginaBien, AgregarMesa, Edita
<1> HIDE DEF p
<1>3. p.mesas \in Seq(MesasMapa)
  BY <1>2 DEF PaginasMapa
<1>4. num \in Nat
  BY <1>3, SiguienteEs
<1> HIDE DEF num
<1>5. m \in MesasMapa /\ m.cid = c /\ m.numero = num
  BY <1>1, <1>4 DEF MesasMapa
<1> HIDE DEF m
<1>6. /\ mesas \in Seq(MesasMapa) /\ Range(mesas) = Range(p.mesas) \cup {m}
      /\ CidsDe(mesas) = CidsDe(p.mesas) \cup {c}
      /\ \A x : ALoSumoUna(p.mesas, x) /\ (x = c => x \notin CidsDe(p.mesas))
            => ALoSumoUna(mesas, x)
  BY <1>3, <1>5, AgregadaEs
<1> HIDE DEF mesas
<1>7. /\ q \in PaginasMapa /\ q.toco = p.toco /\ q.eliminadas = p.eliminadas
      /\ q.guardado = p.guardado /\ q.mesas = mesas /\ q.fase = p.fase /\ q.ultima = p.ultima
      /\ q.cargadas = p.cargadas
  BY <1>2, <1>6 DEF PaginasMapa
<1> HIDE DEF q
<1>8. /\ c \notin CidsDe(p.mesas) /\ c \notin CidsDe(p.guardado.mesas)
      /\ \A u \in Range(p.ultima) : u.mesa.cid # c
  BY <1>1, <1>2, LlevaEs
<1>9. Distintas(q)
  BY <1>2, <1>6, <1>7, <1>8 DEF Distintas
<1>10. Acorde(q)
  <2>1. ASSUME NEW f \in p.cargadas, UnaVez(p.mesas, p.eliminadas, f)
        PROVE  UnaVez(mesas, p.eliminadas, f)
    <3>1. f # c
      BY <1>1, <1>2, MapaAssumption DEF PaginasMapa
    <3> QED BY <1>6, <2>1, <3>1 DEF UnaVez
  <2> QED BY <1>2, <1>7, <2>1 DEF Acorde
<1>11. /\ \A x, n : x # c => (Lleva(q, x, n) <=> Lleva(p, x, n))
       /\ \A n : Lleva(q, c, n) <=> n = num
  <2>1. \A x, n : EnMapa(mesas, x, n) <=> EnMapa(p.mesas, x, n) \/ (x = c /\ n = num)
    BY <1>5, <1>6 DEF EnMapa
  <2>2. \A n : ~EnMapa(p.mesas, c, n) /\ ~EnMapa(p.guardado.mesas, c, n)
    BY <1>8, CidsEs DEF EnMapa
  <2> QED BY <1>2, <1>7, <1>8, <2>1, <2>2 DEF Lleva
<1>12. Tales(filaMesa, c) = {}
  BY <1>1, MapaAssumption DEF Tales, MapaPleno
<1>13. NuevasDe(q) = NuevasDe(p) \cup {c}
  <2>1. c \notin NuevasDe(p)
    BY <1>1, <1>2
  <2> QED BY <1>1, <1>4, <1>11, <2>1 DEF NuevasDe
<1>14. UnNumero(q, filaMesa, repetidas)
  BY <1>2, <1>11, <1>12 DEF UnNumero
<1>15. Contadas(q, filaMesa, dudosas)
  BY <1>2, <1>7, <1>12, <1>13 DEF Contadas
<1>16. PaginaBien(q, filaMesa, dudosas', repetidas')
  BY <1>1, <1>7, <1>9, <1>10, <1>14, <1>15 DEF PaginaBien
<1>17. agregadas' \in SUBSET Nuevas
  BY <1>1 DEF MapaPleno
<1> QED BY <1>1, <1>13, <1>16, <1>17, MueveEditor DEF p

\* Another number: of a table with a row it is told apart, or it has none.
LEMMA NumerarPleno ==
  ASSUME MapaPleno, MapaInv', NEW a \in Editores, NEW c, NEW num \in Numeros, Numerar(a, c, num)
  PROVE  MapaPleno'
<1> DEFINE p == editor[a]
           mesas == [i \in DOMAIN p.mesas |->
                       IF p.mesas[i].cid = c THEN [p.mesas[i] EXCEPT !.numero = num]
                       ELSE p.mesas[i]]
           q == [p EXCEPT !.mesas = mesas]
<1>1. /\ editor' = [editor EXCEPT ![a] = q] /\ UNCHANGED <<filaMesa, agregadas, dudosas>>
      /\ repetidas' = repetidas \cup (IF Guardando(a) THEN {c} ELSE dudosas \cap {c})
  BY DEF Numerar, salaVars, MapaPleno, MapaInv, MapaForma
<1>2. /\ p \in PaginasMapa /\ Distintas(p) /\ Acorde(p) /\ p.fase = "edita"
      /\ c \in CidsDe(p.mesas)
      /\ UnNumero(p, filaMesa, repetidas) /\ Contadas(p, filaMesa, dudosas)
  BY DEF MapaPleno, PaginaBien, Numerar, Edita
<1>3. c \notin repetidas' => p.guardado.fase = "no" /\ c \notin dudosas
  BY <1>1 DEF Guardando
<1>4. num \in Nat
  BY MapaAssumption
<1> HIDE DEF p
<1>5. p.mesas \in Seq(MesasMapa) /\ p.guardado \in Guardados
  BY <1>2 DEF PaginasMapa
<1>6. \A i \in DOMAIN p.mesas :
        /\ mesas[i] \in MesasMapa /\ mesas[i].cid = p.mesas[i].cid
        /\ mesas[i].numero = IF p.mesas[i].cid = c THEN num ELSE p.mesas[i].numero
  <2> TAKE i \in DOMAIN p.mesas
  <2>1. p.mesas[i] \in MesasMapa
    BY <1>5
  <2> QED BY <1>4, <2>1 DEF MesasMapa
<1>7. DOMAIN mesas = DOMAIN p.mesas
  OBVIOUS
<1>8. mesas \in Seq(MesasMapa)
  <2>1. DOMAIN p.mesas = 1 .. Len(p.mesas) /\ Len(p.mesas) \in Nat
    BY <1>5
  <2>2. mesas \in [1 .. Len(p.mesas) -> MesasMapa]
    BY <1>6, <2>1
  <2> HIDE DEF mesas
  <2> QED BY <2>1, <2>2
<1> HIDE DEF mesas
<1>9. CidsDe(mesas) = CidsDe(p.mesas) /\ \A x : ALoSumoUna(p.mesas, x) => ALoSumoUna(mesas, x)
  BY <1>6, <1>7, <1>8, EscritasEs
<1>10. /\ \A x, n : x # c => (EnMapa(mesas, x, n) <=> EnMapa(p.mesas, x, n))
       /\ \A n : EnMapa(mesas, c, n) => n = num
  BY <1>6, <1>7 DEF EnMapa, Range
<1>11. /\ q \in PaginasMapa /\ q.toco = p.toco /\ q.eliminadas = p.eliminadas
       /\ q.guardado = p.guardado /\ q.mesas = mesas /\ q.fase = p.fase /\ q.ultima = p.ultima
       /\ q.cargadas = p.cargadas
  BY <1>2, <1>8 DEF PaginasMapa
<1> HIDE DEF q
<1>12. Distintas(q)
  BY <1>2, <1>9, <1>11 DEF Distintas
<1>13. Acorde(q)
  <2>1. \A x : UnaVez(p.mesas, p.eliminadas, x) => UnaVez(mesas, p.eliminadas, x)
    BY <1>9 DEF UnaVez
  <2> QED BY <1>2, <1>11, <2>1 DEF Acorde
<1>14. \A x, n : x # c => (Lleva(q, x, n) <=> Lleva(p, x, n))
  BY <1>10, <1>11 DEF Lleva
<1>15. NuevasDe(q) \subseteq NuevasDe(p)
  <2>1. c \in Nuevas => c \in NuevasDe(p)
    BY <1>2, LlevaEs
  <2> QED BY <1>14, <2>1 DEF NuevasDe
<1>16. UnNumero(q, filaMesa, repetidas')
  <2>1. ASSUME c \in Nuevas \ repetidas'
        PROVE  Tales(filaMesa, c) = {} /\ \A n : Lleva(q, c, n) => n = num
    <3>1. p.guardado.fase = "no" /\ c \notin dudosas /\ c \in NuevasDe(p)
      BY <1>2, <1>3, <2>1, LlevaEs
    <3>2. Tales(filaMesa, c) = {}
      BY <1>2, <3>1 DEF Contadas
    <3>3. \A u \in Range(p.ultima) : u.mesa.cid # c
      BY <1>2, <2>1 DEF Distintas
    <3>4. \A n : ~EnMapa(p.guardado.mesas, c, n)
      <4>1. p.guardado.mesas = <<>>
        BY <1>5, <3>1, VaciaEs DEF Guardados
      <4> QED BY <4>1, NingunaEs DEF EnMapa
    <3> QED BY <1>10, <1>11, <3>2, <3>3, <3>4 DEF Lleva
  <2>2. repetidas \subseteq repetidas'
    BY <1>1
  <2> QED BY <1>2, <1>14, <2>1, <2>2 DEF UnNumero
<1>17. Contadas(q, filaMesa, dudosas)
  BY <1>2, <1>11, <1>15 DEF Contadas
<1>18. PaginaBien(q, filaMesa, dudosas', repetidas')
  BY <1>1, <1>11, <1>12, <1>13, <1>16, <1>17 DEF PaginaBien
<1>19. agregadas' \in SUBSET Nuevas
  BY <1>1 DEF MapaPleno
<1> QED BY <1>1, <1>15, <1>18, <1>19, MueveEditor DEF p

-----------------------------------------------------------------------------
(* The map and its tables: the rows *)

\* A step of the dining room changes neither which tables there are, nor their
\* numbers.
LEMMA SalaPlena ==
  ASSUME MapaPleno, MapaInv', NEW f \in Filas, AbrirMesa(f) \/ DejarMesa(f) \/ PedirEnMesa(f)
  PROVE  MapaPleno'
<1>1. UNCHANGED <<editor, agregadas, dudosas, repetidas>>
  BY DEF AbrirMesa, DejarMesa, PedirEnMesa
<1>2. PICK r : /\ filaMesa' = [filaMesa EXCEPT ![f] = r]
               /\ \/ r = [filaMesa[f] EXCEPT !.estado = "OCUPADA"]
                  \/ r = [filaMesa[f] EXCEPT !.estado = "LIBRE"]
                  \/ r = [filaMesa[f] EXCEPT !.pedidos = TRUE]
  BY DEF AbrirMesa, DejarMesa, PedirEnMesa, MapaPleno
<1>3. filaMesa \in [Filas -> FilasMesa]
  BY DEF MapaPleno
<1>4. /\ r \in FilasMesa /\ r.existe = filaMesa[f].existe
      /\ r.numero = filaMesa[f].numero /\ r.de = filaMesa[f].de
  <2>1. filaMesa[f] \in FilasMesa
    BY <1>3
  <2> QED BY <1>2, <2>1 DEF FilasMesa
<1>5. filaMesa' \in [Filas -> FilasMesa]
  BY <1>2, <1>3, <1>4
<1>6. \A g \in Filas : /\ filaMesa'[g].existe = filaMesa[g].existe
                       /\ filaMesa'[g].numero = filaMesa[g].numero
                       /\ filaMesa'[g].de = filaMesa[g].de
  BY <1>2, <1>3, <1>4
<1>7. Existentes' = Existentes /\ \A c : Tales(filaMesa', c) = Tales(filaMesa, c)
  BY <1>6 DEF Existentes, Tales
<1>8. \A a \in Editores : PaginaBien(editor[a], filaMesa', dudosas, repetidas)
  <2> TAKE a \in Editores
  <2>1. PaginaBien(editor[a], filaMesa, dudosas, repetidas)
    BY DEF MapaPleno
  <2> QED BY <1>6, <2>1, FilasIguales
<1>9. CadaUnaLasSuyas' /\ UnaFila'
  BY <1>1, <1>7 DEF MapaPleno, CadaUnaLasSuyas, UnaFila
<1>10. /\ IsFiniteSet(Existentes') /\ \A g \in Filas : filaMesa'[g].de \in agregadas \cup {SinId}
  BY <1>6, <1>7 DEF MapaPleno
<1> QED BY <1>1, <1>5, <1>8, <1>9, <1>10 DEF MapaPleno

\* A save: its new tables are rows, with the numbers that they have on its page;
\* a number that a table keeps cannot be given again, so one of them that had a
\* row has it no more.
LEMMA ConfirmarPleno ==
  ASSUME MapaPleno, MapaInv', NEW a \in Editores, ConfirmarGuardado(a)
  PROVE  MapaPleno'
<1> DEFINE p == editor[a]
           nuevas == Creadas(a)
           libres == {f \in Filas : filaMesa[f] = NoExiste}
           g == [p.guardado EXCEPT !.fase = "hecho"]
           q == [p EXCEPT !.guardado = g]
           fuera == AEliminar(a)
<1>1. /\ p.guardado.fase = "reviso" /\ CabenLasNuevas(a)
      /\ editor' = [editor EXCEPT ![a] = q]
      /\ UNCHANGED <<agregadas, dudosas, repetidas>>
  BY DEF ConfirmarGuardado, SePuedeGuardar, MapaPleno, MapaInv, MapaForma
<1>2. PICK ids \in [DOMAIN nuevas -> libres] :
        /\ IsInjective(ids)
        /\ filaMesa' = [f \in Filas |->
             CASE f \in fuera -> [filaMesa[f] EXCEPT !.existe = FALSE]
               [] \E i \in DOMAIN ids : ids[i] = f ->
                    LET i == CHOOSE k \in DOMAIN ids : ids[k] = f
                    IN  MesaNueva(nuevas[i].numero, nuevas[i].cid)
               [] OTHER -> filaMesa[f]]
  BY DEF ConfirmarGuardado
<1>3. /\ p \in PaginasMapa /\ Acorde(p) /\ Distintas(p)
      /\ UnNumero(p, filaMesa, repetidas) /\ Contadas(p, filaMesa, dudosas)
      /\ NuevasDe(p) \subseteq agregadas
  BY DEF MapaPleno, PaginaBien
<1>4. /\ nuevas \in Seq(MesasMapa)
      /\ Range(nuevas) = {m \in Range(p.guardado.mesas) : m.cid \in Nuevas}
      /\ \A c : ALoSumoUna(p.guardado.mesas, c) => ALoSumoUna(nuevas, c)
  <2>1. p.guardado.mesas \in Seq(MesasMapa)
    BY <1>3 DEF PaginasMapa, Guardados
  <2> QED BY <2>1, CreadasEs
<1>5. \A i \in DOMAIN nuevas :
        /\ nuevas[i].cid \in Nuevas /\ nuevas[i].numero \in Nat
        /\ nuevas[i].cid \in CidsDe(p.guardado.mesas)
        /\ Lleva(p, nuevas[i].cid, nuevas[i].numero)
  <2> TAKE i \in DOMAIN nuevas
  <2> HIDE DEF nuevas
  <2>1. nuevas[i] \in Range(nuevas)
    BY DEF Range
  <2>2. nuevas[i] \in Range(p.guardado.mesas) /\ nuevas[i].cid \in Nuevas
    BY <1>4, <2>1
  <2>3. nuevas[i].numero \in Nat
    BY <1>4, <2>1, EnRango DEF MesasMapa
  <2> QED BY <2>2, <2>3, CidsEs DEF Lleva, EnMapa
<1>6. fuera \subseteq Filas /\ \A f \in fuera : filaMesa[f].existe
  BY <1>1 DEF MapaPleno, MapaInv, RevisadoLibre, AEliminar, IdsDe
<1>7. ASSUME NEW n \in Nat, NEW de \in Nuevas
      PROVE  LET r == MesaNueva(n, de)
             IN  r \in FilasMesa /\ r.existe /\ r.numero = n /\ r.de = de
  BY <1>7 DEF MesaNueva, NoExiste, FilasMesa
<1>8. filaMesa \in [Filas -> FilasMesa]
  BY DEF MapaPleno
<1> HIDE DEF fuera
<1>9. \A f \in fuera : ~\E i \in DOMAIN ids : ids[i] = f
  BY <1>2, <1>6 DEF NoExiste
<1> HIDE DEF nuevas
\* A row of after it was there, or is one of the new ones.
<1>10. ASSUME NEW f \in Filas
       PROVE  \/ f \in fuera /\ ~filaMesa'[f].existe /\ filaMesa'[f].de = filaMesa[f].de
                             /\ filaMesa'[f] \in FilasMesa
              \/ f \notin fuera /\ filaMesa'[f] = filaMesa[f]
              \/ \E i \in DOMAIN nuevas :
                   /\ ids[i] = f /\ filaMesa'[f] \in FilasMesa
                   /\ filaMesa'[f].numero = nuevas[i].numero
                   /\ filaMesa'[f].de = nuevas[i].cid
  <2>1. CASE f \in fuera
    <3>1. filaMesa'[f] = [filaMesa[f] EXCEPT !.existe = FALSE]
      BY <1>2, <2>1, <1>9
    <3>2. filaMesa[f] \in FilasMesa
      BY <1>8
    <3> QED BY <2>1, <3>1, <3>2 DEF FilasMesa
  <2>2. CASE f \notin fuera /\ \E i \in DOMAIN ids : ids[i] = f
    <3>1. PICK i \in DOMAIN nuevas :
            ids[i] = f /\ filaMesa'[f] = MesaNueva(nuevas[i].numero, nuevas[i].cid)
      BY <1>2, <2>2
    <3> QED BY <1>5, <1>7, <3>1
  <2>3. CASE f \notin fuera /\ ~\E i \in DOMAIN ids : ids[i] = f
    BY <1>2, <2>3
  <2> QED BY <2>1, <2>2, <2>3
<1>11. ASSUME NEW c \in Nuevas, NEW f \in Tales(filaMesa', c)
       PROVE  \/ /\ f \in Tales(filaMesa, c) /\ f \notin fuera
                 /\ filaMesa'[f].numero = filaMesa[f].numero
              \/ \E i \in DOMAIN nuevas :
                   /\ ids[i] = f /\ nuevas[i].cid = c
                   /\ filaMesa'[f].numero = nuevas[i].numero
  BY <1>10, <1>11 DEF Tales
<1>12. filaMesa' \in [Filas -> FilasMesa]
  <2>1. \A f \in Filas : filaMesa'[f] \in FilasMesa
    BY <1>8, <1>10
  <2>2. filaMesa' = [f \in Filas |-> filaMesa'[f]]
    BY <1>2
  <2> QED BY <2>1, <2>2
<1>13. IsFiniteSet(Existentes')
  <2> DEFINE R == {ids[i] : i \in DOMAIN nuevas}
  <2>1. DOMAIN nuevas = 1 .. Len(nuevas) /\ Len(nuevas) \in Nat
    BY <1>4
  <2>2. IsFiniteSet(DOMAIN nuevas)
    BY <2>1, FS_Interval
  <2>3. ids \in Surjection(DOMAIN nuevas, R)
    BY <1>2 DEF Surjection
  <2>4. IsFiniteSet(R)
    <3> HIDE DEF R
    <3> QED BY <2>2, <2>3, FS_Surjection
  <2>5. Existentes' \subseteq Existentes \cup R
    <3>1. SUFFICES ASSUME NEW f \in Filas, filaMesa'[f].existe
                   PROVE  f \in Existentes \cup R
      BY DEF Existentes
    <3> QED BY <1>10, <3>1 DEF Existentes
  <2> HIDE DEF R
  <2>6. IsFiniteSet(Existentes \cup R)
    BY <2>4, FS_Union DEF MapaPleno
  <2> QED BY <2>5, <2>6, FS_Subset
<1>14. \A f \in Filas : filaMesa'[f].de \in agregadas \cup {SinId}
  <2> TAKE f \in Filas
  <2>1. filaMesa[f].de \in agregadas \cup {SinId}
    BY DEF MapaPleno
  <2>2. \A i \in DOMAIN nuevas : nuevas[i].cid \in agregadas
    BY <1>3, <1>5, LlevaEs
  <2> QED BY <1>10, <2>1, <2>2
<1>15. /\ editor'[a] = q /\ \A b \in Editores \ {a} : editor'[b] = editor[b]
  BY <1>1 DEF MapaPleno, MapaInv, MapaForma
<1>16. /\ q \in PaginasMapa /\ q.toco = p.toco /\ q.eliminadas = p.eliminadas
       /\ q.mesas = p.mesas /\ q.fase = p.fase /\ q.ultima = p.ultima
       /\ q.cargadas = p.cargadas /\ q.guardado.mesas = p.guardado.mesas
       /\ q.guardado.fase = "hecho" /\ q.guardado.eliminadas = p.guardado.eliminadas
  <2>1. /\ g \in Guardados /\ g.fase = "hecho" /\ g.mesas = p.guardado.mesas
        /\ g.eliminadas = p.guardado.eliminadas
    BY <1>1, <1>3 DEF PaginasMapa, Guardados
  <2> HIDE DEF g, p
  <2> QED BY <1>3, <2>1 DEF PaginasMapa
<1> HIDE DEF q
<1>17. Distintas(q) /\ Acorde(q)
  BY <1>1, <1>3, <1>16 DEF Distintas, Acorde
<1>18. \A c, n : Lleva(q, c, n) <=> Lleva(p, c, n)
  BY <1>16 DEF Lleva
<1>19. NuevasDe(q) = NuevasDe(p)
  BY <1>18 DEF NuevasDe
<1>20. UnNumero(q, filaMesa', repetidas)
  <2>1. SUFFICES ASSUME NEW c \in Nuevas \ repetidas, NEW n \in Nat, Lleva(p, c, n),
                        NEW f \in Tales(filaMesa', c)
                 PROVE  filaMesa'[f].numero = n
    BY <1>3, <1>18 DEF UnNumero
  <2>2. CASE f \in Tales(filaMesa, c) /\ filaMesa'[f].numero = filaMesa[f].numero
    BY <1>3, <2>1, <2>2 DEF UnNumero
  <2>3. CASE \E i \in DOMAIN nuevas : nuevas[i].cid = c /\ filaMesa'[f].numero = nuevas[i].numero
    BY <1>3, <1>5, <2>1, <2>3 DEF UnNumero
  <2> QED BY <1>11, <2>1, <2>2, <2>3
<1>21. Contadas(q, filaMesa', dudosas)
  <2>1. SUFFICES ASSUME NEW c \in NuevasDe(p), NEW f \in Tales(filaMesa', c)
                 PROVE  c \in dudosas \/ c \in CidsDe(p.guardado.mesas)
    BY <1>16, <1>19 DEF Contadas
  <2>2. c \in Nuevas
    BY DEF NuevasDe
  <2>3. CASE f \in Tales(filaMesa, c)
    BY <1>1, <1>3, <2>1, <2>3 DEF Contadas
  <2>4. CASE \E i \in DOMAIN nuevas : nuevas[i].cid = c
    BY <1>5, <2>4
  <2> QED BY <1>11, <2>2, <2>3, <2>4
<1>22. \A b \in Editores \ {a} : PaginaBien(editor[b], filaMesa', dudosas, repetidas)
  <2> TAKE b \in Editores \ {a}
  <2>1. PaginaBien(editor[b], filaMesa, dudosas, repetidas)
    BY DEF MapaPleno
  <2>2. NuevasDe(editor[b]) \cap NuevasDe(p) = {}
    BY DEF MapaPleno, CadaUnaLasSuyas
  <2>3. \A i \in DOMAIN nuevas : nuevas[i].cid \in NuevasDe(p)
    BY <1>3, <1>5, LlevaEs
  <2>4. ASSUME NEW c \in NuevasDe(editor[b]), NEW f \in Tales(filaMesa', c)
        PROVE  f \in Tales(filaMesa, c) /\ filaMesa'[f].numero = filaMesa[f].numero
    <3>1. c \in Nuevas /\ c \notin NuevasDe(p)
      BY <2>2, <2>4 DEF NuevasDe
    <3> QED BY <1>11, <2>3, <2>4, <3>1
  <2>5. Contadas(editor[b], filaMesa', dudosas)
    BY <2>1, <2>4 DEF Contadas, PaginaBien
  <2>6. UnNumero(editor[b], filaMesa', repetidas)
    <3>1. \A c \in Nuevas, n \in Nat : Lleva(editor[b], c, n) => c \in NuevasDe(editor[b])
      BY DEF NuevasDe
    <3> QED BY <2>1, <2>4, <3>1 DEF UnNumero, PaginaBien
  <2> QED BY <2>1, <2>5, <2>6 DEF PaginaBien
<1>23. \A b \in Editores : PaginaBien(editor'[b], filaMesa', dudosas, repetidas)
  BY <1>15, <1>16, <1>17, <1>20, <1>21, <1>22 DEF PaginaBien
<1>24. \A b \in Editores : NuevasDe(editor'[b]) = NuevasDe(editor[b])
  BY <1>15, <1>19
<1>25. UnaFila'
  <2>1. SUFFICES ASSUME NEW c \in Nuevas \ repetidas, NEW f \in Tales(filaMesa', c),
                        NEW h \in Tales(filaMesa', c)
                 PROVE  f = h
    BY <1>1 DEF UnaFila
  <2>2. \A x, y \in Tales(filaMesa, c) : x = y
    BY DEF MapaPleno, UnaFila
\* One of before and a new one: the number would be of both.
  <2>3. ASSUME NEW x \in Tales(filaMesa, c), x \notin fuera,
               NEW i \in DOMAIN nuevas, nuevas[i].cid = c
        PROVE  FALSE
    <3>1. filaMesa[x].numero = nuevas[i].numero
      BY <1>3, <1>5, <2>1, <2>3 DEF UnNumero
    <3>2. x \in Quedan(a)
      BY <2>3 DEF Quedan, Existentes, Tales, fuera
    <3>3. nuevas[i].numero \in NumerosDe(nuevas)
      BY DEF NumerosDe
    <3>4. NumerosDe(nuevas) \cap {filaMesa[z].numero : z \in Quedan(a)} = {}
      BY <1>1 DEF CabenLasNuevas, nuevas
    <3> QED BY <3>1, <3>2, <3>3, <3>4
  <2>4. ASSUME NEW i \in DOMAIN nuevas, NEW j \in DOMAIN nuevas,
               nuevas[i].cid = c, nuevas[j].cid = c
        PROVE  i = j
    <3>1. ALoSumoUna(nuevas, c)
      BY <1>3, <1>4 DEF Distintas
    <3> QED BY <2>4, <3>1 DEF ALoSumoUna
  <2>5. \/ f \in Tales(filaMesa, c) /\ f \notin fuera
        \/ \E i \in DOMAIN nuevas : ids[i] = f /\ nuevas[i].cid = c
    BY <1>11, <2>1
  <2>6. \/ h \in Tales(filaMesa, c) /\ h \notin fuera
        \/ \E i \in DOMAIN nuevas : ids[i] = h /\ nuevas[i].cid = c
    BY <1>11, <2>1
  <2> QED BY <2>2, <2>3, <2>4, <2>5, <2>6
<1>26. CadaUnaLasSuyas'
  BY <1>24 DEF MapaPleno, CadaUnaLasSuyas
<1>27. \A b \in Editores : NuevasDe(editor'[b]) \subseteq agregadas
  BY <1>24 DEF MapaPleno
<1> QED BY <1>1, <1>12, <1>13, <1>14, <1>23, <1>25, <1>26, <1>27 DEF MapaPleno

-----------------------------------------------------------------------------
(* The map and its tables: the theorem *)

LEMMA PlenoInicio == MapaInit => MapaPleno
<1>1. SUFFICES ASSUME MapaInit PROVE MapaPleno
  OBVIOUS
<1>2. MapaInv
  BY <1>1, MapaInicio
<1>3. /\ editor = [a \in Editores |-> PaginaVacia] /\ agregadas = {} /\ repetidas = {}
      /\ filaMesa = [f \in Filas |->
           IF Contains(DeAntes, f)
           THEN MesaNueva(SelectInSeq(DeAntes, LAMBDA x : x = f), SinId)
           ELSE NoExiste]
  BY <1>1 DEF MapaInit
<1>4. ASSUME NEW f \in Filas
      PROVE  /\ filaMesa[f] \in FilasMesa /\ filaMesa[f].de = SinId
             /\ filaMesa[f].existe => f \in Range(DeAntes)
  <2>1. CASE Contains(DeAntes, f)
    <3> DEFINE I == {i \in 1 .. Len(DeAntes) : DeAntes[i] = f}
               n == SelectInSeq(DeAntes, LAMBDA x : x = f)
    <3>1. I # {} /\ I \subseteq Nat /\ f \in Range(DeAntes)
      BY <2>1, MapaAssumption DEF Contains, Range
    <3>2. n = Min(I)
      BY <3>1 DEF SelectInSeq
    <3>3. Min(I) \in Nat
      <4> HIDE DEF I
      <4>1. \E x \in I : \A y \in I : x <= y
        BY <3>1, Minimo
      <4> QED BY <3>1, <4>1 DEF Min
    <3>4. filaMesa[f] = MesaNueva(n, SinId) /\ n \in Nat
      BY <1>3, <2>1, <3>2, <3>3
    <3> HIDE DEF n
    <3> QED BY <3>1, <3>4 DEF MesaNueva, NoExiste, FilasMesa
  <2>2. CASE ~Contains(DeAntes, f)
    BY <1>3, <2>2 DEF NoExiste, FilasMesa
  <2> QED BY <2>1, <2>2
<1>5. filaMesa \in [Filas -> FilasMesa]
  BY <1>3, <1>4
<1>6. IsFiniteSet(Existentes)
  <2>1. IsFiniteSet(DOMAIN DeAntes)
    <3>1. DOMAIN DeAntes = 1 .. Len(DeAntes) /\ Len(DeAntes) \in Nat
      BY MapaAssumption
    <3> QED BY <3>1, FS_Interval
  <2>2. DeAntes \in Surjection(DOMAIN DeAntes, Range(DeAntes))
    BY MapaAssumption DEF Surjection, Range
  <2>3. IsFiniteSet(Range(DeAntes))
    BY <2>1, <2>2, FS_Surjection
  <2>4. Existentes \subseteq Range(DeAntes)
    BY <1>4 DEF Existentes
  <2> QED BY <2>3, <2>4, FS_Subset
<1>7. NuevasDe(PaginaVacia) = {}
  BY VaciaEs DEF NuevasDe
<1>8. PaginaBien(PaginaVacia, filaMesa, dudosas, repetidas)
  BY <1>7, VaciaEs DEF PaginaBien, UnNumero, Contadas
<1>9. CadaUnaLasSuyas
  BY <1>3, <1>7 DEF CadaUnaLasSuyas
<1>10. UnaFila
  BY <1>4, MapaAssumption DEF UnaFila, Tales
<1> QED BY <1>2, <1>3, <1>4, <1>5, <1>6, <1>7, <1>8, <1>9, <1>10 DEF MapaPleno

LEMMA PlenoPaso == MapaPleno /\ [MapaNext]_mapaVars => MapaPleno'
<1>1. SUFFICES ASSUME MapaPleno, [MapaNext]_mapaVars PROVE MapaPleno'
  OBVIOUS
<1>2. MapaInv'
  BY <1>1, MapaPaso DEF MapaPleno
<1>3. CASE UNCHANGED mapaVars
  <2>1. UNCHANGED <<filaMesa, editor, agregadas, dudosas, repetidas>>
    BY <1>3 DEF mapaVars, salaVars
  <2>2. Existentes' = Existentes
    BY <2>1 DEF Existentes
  <2>3. CadaUnaLasSuyas' /\ UnaFila'
    BY <1>1, <2>1 DEF MapaPleno, CadaUnaLasSuyas, UnaFila
  <2> QED BY <1>1, <1>2, <2>1, <2>2, <2>3 DEF MapaPleno
<1>4. ASSUME NEW f \in Filas, AbrirMesa(f) \/ DejarMesa(f) \/ PedirEnMesa(f)
      PROVE  MapaPleno'
  BY <1>1, <1>2, <1>4, SalaPlena
<1>5. ASSUME NEW a \in Editores,
             \/ Cargar(a) \/ RenovarToken(a) \/ RecargarMapa(a) \/ ReponerMesa(a)
             \/ CerrarDeshacer(a) \/ GuardarMapa(a)
      PROVE  MapaPleno'
  BY <1>1, <1>2, <1>5, CargarPleno, RenovarTokenPleno, RecargarMapaPleno, ReponerMesaPleno,
     CerrarDeshacerPleno, GuardarMapaPleno
<1>6. ASSUME NEW a \in Editores, \E f \in Filas : VerEstado(a, f)
      PROVE  MapaPleno'
  BY <1>1, <1>2, <1>6, VerEstadoPleno
<1>7. ASSUME NEW a \in Editores, \E c \in Nuevas : AgregarMesa(a, c)
      PROVE  MapaPleno'
  BY <1>1, <1>2, <1>7, AgregarMesaPleno
<1>8. ASSUME NEW a \in Editores, NEW c, QuitarMesa(a, c) \/ \E n \in Numeros : Numerar(a, c, n)
      PROVE  MapaPleno'
  BY <1>1, <1>2, <1>8, QuitarMesaPleno, NumerarPleno
<1>9. ASSUME NEW a \in Editores, RevisarGuardado(a) \/ RechazarGuardado(a) \/ AbortarGuardado(a)
      PROVE  MapaPleno'
  BY <1>1, <1>2, <1>9, FasePleno
     DEF RevisarGuardado, RechazarGuardado, AbortarGuardado, salaVars
<1>10. ASSUME NEW a \in Editores, ConfirmarGuardado(a)
       PROVE  MapaPleno'
  BY <1>1, <1>2, <1>10, ConfirmarPleno
<1>11. ASSUME NEW a \in Editores, LlegaGuardado(a) \/ LlegaRechazo(a) \/ PierdeGuardado(a)
       PROVE  MapaPleno'
  BY <1>1, <1>2, <1>11, RespuestasPlenas
<1> QED
  BY <1>1, <1>3, <1>4, <1>5, <1>6, <1>7, <1>8, <1>9, <1>10, <1>11 DEF MapaNext

LEMMA UnaSola ==
  ASSUME NEW p \in PaginasMapa, NEW f \in Filas, UnaVez(p.mesas, p.eliminadas, f)
  PROVE  Cardinality({i \in DOMAIN p.mesas : p.mesas[i].id = f})
         + Cardinality({i \in DOMAIN p.eliminadas : p.eliminadas[i].id = f}) = 1
<1> DEFINE s == p.mesas
           t == p.eliminadas
<1>1. s \in Seq(MesasMapa) /\ t \in Seq(MesasMapa)
  BY ConFilaEs DEF PaginasMapa
<1>2. ALoSumoUna(s, f) /\ ALoSumoUna(t, f) /\ (f \in CidsDe(s) <=> f \notin CidsDe(t))
  BY DEF UnaVez
<1> HIDE DEF s, t
<1>3. ASSUME NEW l \in Seq(MesasMapa), ALoSumoUna(l, f)
      PROVE  Cardinality({i \in DOMAIN l : l[i].id = f}) = IF f \in CidsDe(l) THEN 1 ELSE 0
  <2>1. \A i \in DOMAIN l : l[i].id = f <=> l[i].cid = f
    <3> TAKE i \in DOMAIN l
    <3>1. l[i] \in MesasMapa
      BY <1>3
    <3> QED BY <3>1, MapaAssumption DEF MesasMapa
  <2> DEFINE I == {i \in DOMAIN l : l[i].id = f}
  <2>2. CASE f \in CidsDe(l)
    <3>1. PICK i \in DOMAIN l : l[i].cid = f
      BY <2>2 DEF CidsDe
    <3>2. I = {i}
      BY <1>3, <2>1, <3>1 DEF ALoSumoUna
    <3> QED BY <2>2, <3>2, FS_Singleton
  <2>3. CASE f \notin CidsDe(l)
    <3>1. I = {}
      BY <2>1, <2>3 DEF CidsDe
    <3> QED BY <2>3, <3>1, FS_EmptySet
  <2> QED BY <2>2, <2>3
<1>4. /\ Cardinality({i \in DOMAIN s : s[i].id = f}) = IF f \in CidsDe(s) THEN 1 ELSE 0
      /\ Cardinality({i \in DOMAIN t : t[i].id = f}) = IF f \in CidsDe(t) THEN 1 ELSE 0
  BY <1>1, <1>2, <1>3
<1> QED BY <1>2, <1>4 DEF s, t

\* The inductive invariant: what each page has of the tables that it loaded and
\* of those that it added, and the rows of the latter.
THEOREM MapaSpecInv == MapaSpec => []MapaPleno
BY PlenoInicio, PlenoPaso, PTL DEF MapaSpec

\* The map and the tables agree, for any number of pages, tables, edits, failures
\* and lost answers: a page that is not saving has each table that it loaded
\* once, on the map or to be deleted, whatever its saves came to, with the
\* exceptions that the property names; and a table that was added is one row at
\* most, because it keeps its number, and no two rows have the same.
THEOREM ElMapaAcuerda == MapaSpec => []MapaAcorde
<1>1. MapaPleno => MapaAcorde
  <2>1. SUFFICES ASSUME MapaPleno PROVE MapaAcorde
    OBVIOUS
  <2>2. ASSUME NEW a \in Editores, editor[a].fase = "edita", ~Guardando(a), ~editor[a].toco,
               NEW f \in editor[a].cargadas
        PROVE  Veces(a, f) = 1
    <3>1. editor[a] \in PaginasMapa /\ Acorde(editor[a])
      BY <2>1 DEF MapaPleno, PaginaBien
    <3>2. UnaVez(editor[a].mesas, editor[a].eliminadas, f) /\ f \in Filas
      BY <2>2, <3>1 DEF Acorde, PaginasMapa
    <3> QED BY <3>1, <3>2, UnaSola DEF Veces
  <2>3. ASSUME NEW c \in agregadas \ repetidas
        PROVE  Cardinality({f \in Existentes : filaMesa[f].de = c}) <= 1
    <3> DEFINE S == {f \in Existentes : filaMesa[f].de = c}
    <3>1. \A f, g \in S : f = g
      BY <2>1, <2>3 DEF MapaPleno, UnaFila, Tales, Existentes
    <3>2. S = {} \/ \E f : S = {f}
      BY <3>1
    <3>3. Cardinality(S) = 0 \/ Cardinality(S) = 1
      <4> HIDE DEF S
      <4> QED BY <3>2, FS_Singleton, FS_EmptySet
    <3> QED BY <3>3
  <2> QED BY <2>2, <2>3 DEF MapaAcorde
<1> QED BY <1>1, MapaSpecInv, PTL

-----------------------------------------------------------------------------
(* Who waits for whom: the invariant *)

Modos == {"KEY SHARE", "UPDATE", "FOR UPDATE"}

DeUna == {"restaurante", "pago", "mesa", "pedido", "item", "cola"}

FilasBD == (DeUna \cup {"promover", "cancelar"}) \X Nat

Sentencias ==
  [fila : FilasBD, modo : Modos, si : SUBSET Estados, queda : Estados \cup {Igual},
   sino : {"nunca", "termina", "sigue"}]

\* Only orders are given a state, and they are locked by an UPDATE.
Cabal(s) ==
  /\ s \in Sentencias
  /\ s.queda # Igual => s.fila[1] = "pedido" /\ s.queda # "PENDIENTE_PAGO"
  /\ s.fila[1] = "pedido" => s.fila[2] \in Comandas /\ s.modo = "UPDATE"

LaMesa == LaFila("mesa", 0)
LaCola == LaFila("cola", 0)
Pedido(c) == <<LaFila("pedido", c), "UPDATE">>

Clases ==
  {"por empezar", "terminada", "reservar con receptor", "resolver", "vencer",
   "cobro en efectivo", "mover", "cerrar", "configurar", "crear", "ajustar"}

UnasTransacciones ==
  [que : Clases, resto : Seq(Sentencias), tiene : SUBSET (FilasBD \X Modos),
   escrito : [Comandas -> Estados \cup {Igual}]]

\* What it has written, it has.
TxBien(r) ==
  /\ r \in UnasTransacciones
  /\ \A i \in DOMAIN r.resto : Cabal(r.resto[i])
  /\ \A x \in r.tiene : x[1][1] \in DeUna /\ (x[1][1] = "pedido" => x[2] = "UPDATE")
  /\ \A c \in Comandas : r.escrito[c] # Igual => Pedido(c) \in r.tiene

\* Two transactions do not have the same row with locks that exclude each other.
Exclusivas ==
  \A t, u \in Transacciones : t # u =>
    \A x \in tr[t].tiene, y \in tr[u].tiene : x[1] = y[1] => ~Chocan(x[2], y[2])

\* The order in which charges, closes and the configuration take the rows.
Ultimo == NPlatos + 4

Nivel(s) ==
  CASE s.fila[1] \in {"restaurante", "pago"} -> 0
    [] s.fila[1] = "mesa" -> 1
    [] s.fila[1] = "cancelar" -> 2
    [] s.fila[1] = "item" -> 2 + s.fila[2]
    [] s.fila[1] = "cola" -> NPlatos + 3
    [] s.fila[1] = "promover" -> Ultimo
    [] OTHER -> IF s.si = {"PENDIENTE_PAGO"} THEN 2 ELSE Ultimo

Formado(s) ==
  /\ Cabal(s)
  /\ s.modo # "KEY SHARE"
  /\ s.fila[1] \in {"mesa", "cola"} => s.fila[2] = 0 /\ s.modo = "UPDATE"
  /\ s.fila[1] = "item" => s.fila[2] \in PlatosCarta
  /\ s.fila[1] = "pedido" => s.si \in {{"PENDIENTE_PAGO"}, {"RECIBIDO"}}

\* Orders that are promoted, or cancelled, are taken in any order.
Sube(q, que) ==
  \A i, j \in DOMAIN q : i < j =>
    \/ Nivel(q[i]) < Nivel(q[j])
    \/ Nivel(q[i]) = Ultimo /\ Nivel(q[j]) = Ultimo
    \/ Nivel(q[i]) = 2 /\ Nivel(q[j]) = 2 /\ que = "cerrar"

\* The statements of a level come after a row without which they are not run.
Tras(r, nivel, fila) ==
  \A i \in DOMAIN r.resto : Nivel(r.resto[i]) = nivel =>
    \/ <<fila, "UPDATE">> \in r.tiene
    \/ \E j \in DOMAIN r.resto :
         j < i /\ r.resto[j].fila = fila /\ r.resto[j].modo = "UPDATE"
           /\ r.resto[j].sino = "termina"

\* It has rows of lower levels than those that it will ask for.
DeAbajo(x, s, que) ==
  /\ x[1][1] \in {"restaurante", "pago"} => 0 < Nivel(s)
  /\ x[1][1] = "mesa" => 1 < Nivel(s)
  /\ x[1][1] = "item" => 2 + x[1][2] < Nivel(s)
  /\ x[1][1] = "cola" => NPlatos + 3 < Nivel(s)
  /\ x[1][1] = "pedido" => 2 < Nivel(s) \/ (Nivel(s) = 2 /\ que = "cerrar")

Ordenada(r) ==
  /\ \A i \in DOMAIN r.resto : Formado(r.resto[i])
  /\ Sube(r.resto, r.que)
  /\ \A i \in DOMAIN r.resto : r.resto[i].fila[1] = "cancelar" => r.que = "cerrar"
  /\ Tras(r, Ultimo, LaCola)
  /\ r.que = "cerrar" => Tras(r, 2, LaMesa)
  /\ \A x \in r.tiene, i \in DOMAIN r.resto : DeAbajo(x, r.resto[i], r.que)

\* Before it promotes, an order that it has waits for its payment.
Pendientes(r) ==
  \A c \in Comandas, i \in DOMAIN r.resto :
    Pedido(c) \in r.tiene /\ Nivel(r.resto[i]) < Ultimo => comanda[c] = "PENDIENTE_PAGO"

TrabasTipos ==
  /\ comanda \in [Comandas -> Estados]
  /\ tr \in [Transacciones -> UnasTransacciones]
  /\ \A t \in Transacciones : TxBien(tr[t])

TrabasInv ==
  /\ TrabasTipos /\ Exclusivas
  /\ \A t \in Transacciones :
       tr[t].que \notin SinOrden => Ordenada(tr[t]) /\ Pendientes(tr[t])

-----------------------------------------------------------------------------
(* Who waits for whom: the programs *)

LEMMA NivelEs ==
  ASSUME NEW s, Formado(s)
  PROVE  /\ Nivel(s) \in Nat /\ Nivel(s) <= Ultimo
         /\ s.fila[1] \in DeUna \cup {"promover", "cancelar"}
         /\ s.fila[1] = "pedido" => Nivel(s) = 2 \/ Nivel(s) = Ultimo
         /\ s.fila[1] = "item" => Nivel(s) = 2 + s.fila[2] /\ Nivel(s) > 2 /\ Nivel(s) < Ultimo - 1
<1>1. /\ s.fila[1] \in DeUna \cup {"promover", "cancelar"}
      /\ s.fila[1] = "item" => s.fila[2] \in 1 .. NPlatos
      /\ s.fila[1] = "pedido" => s.si \in {{"PENDIENTE_PAGO"}, {"RECIBIDO"}}
  BY DEF Formado, Cabal, Sentencias, FilasBD, PlatosCarta
<1>2. NPlatos \in Nat /\ Ultimo = NPlatos + 4
  BY TrabasAssumption DEF Ultimo
<1>3. CASE s.fila[1] = "item"
  BY <1>1, <1>2, <1>3 DEF Nivel
<1>4. CASE s.fila[1] # "item"
  <2>1. Nivel(s) \in {0, 1, 2, NPlatos + 3, Ultimo}
    BY <1>1, <1>4 DEF Nivel, DeUna
  <2>2. s.fila[1] = "pedido" => Nivel(s) = 2 \/ Nivel(s) = Ultimo
    BY DEF Nivel
  <2> QED BY <1>1, <1>2, <1>4, <2>1, <2>2
<1> QED BY <1>3, <1>4

\* What is left is the same but for the first statement.
LEMMA SinLaPrimera ==
  ASSUME NEW S, NEW q \in Seq(S), q # <<>>
  PROVE  /\ Tail(q) \in Seq(S) /\ Head(q) = q[1] /\ 1 \in DOMAIN q /\ Head(q) \in S
         /\ \A i \in DOMAIN Tail(q) :
              i \in Nat /\ i + 1 \in DOMAIN q /\ Tail(q)[i] = q[i + 1] /\ i + 1 > 1
         /\ \A i \in DOMAIN q : i > 1 => i - 1 \in DOMAIN Tail(q)
OBVIOUS

\* A transaction that has nothing to do and nothing taken.
LEMMA Terminada ==
  ASSUME NEW que \in Clases
  PROVE  /\ TxBien(Una(que, <<>>)) /\ Ordenada(Una(que, <<>>)) /\ Pendientes(Una(que, <<>>))
         /\ Una(que, <<>>).tiene = {}
BY DEF Una, TxBien, UnasTransacciones, Ordenada, Pendientes, Sube, Tras

LEMMA ActualizaEs ==
  ASSUME NEW clase \in {"restaurante", "pago", "mesa", "cola", "promover", "cancelar"},
         NEW n \in Nat, NEW sino \in {"nunca", "termina", "sigue"},
         clase \in {"mesa", "cola"} => n = 0
  PROVE  LET s == Actualiza(clase, n, sino)
         IN  /\ Formado(s) /\ s \in Sentencias /\ s.fila = LaFila(clase, n) /\ s.modo = "UPDATE"
             /\ s.sino = sino /\ s.fila[1] = clase
<1> DEFINE s == Actualiza(clase, n, sino)
<1>1. s \in Sentencias
  BY DEF Actualiza, Sentencia, Sentencias, LaFila, FilasBD, DeUna, Modos, Estados, Igual
<1>2. /\ s.fila = <<clase, n>> /\ s.modo = "UPDATE" /\ s.sino = sino /\ s.queda = Igual
  BY DEF Actualiza, Sentencia, LaFila
<1>3. s.fila[1] = clase /\ s.fila[2] = n
  BY <1>2
<1> QED BY <1>1, <1>2, <1>3 DEF Formado, Cabal, LaFila

LEMMA CambiaComandaEs ==
  ASSUME NEW c \in Comandas, NEW si \in SUBSET Estados, NEW queda \in Estados \cup {Igual},
         NEW sino \in {"nunca", "termina", "sigue"}, queda # "PENDIENTE_PAGO"
  PROVE  LET s == CambiaComanda(c, si, queda, sino)
         IN  /\ Cabal(s) /\ s \in Sentencias /\ s.fila = LaFila("pedido", c) /\ s.modo = "UPDATE"
             /\ s.si = si /\ s.sino = sino /\ s.fila[1] = "pedido" /\ s.fila[2] = c
             /\ si \in {{"PENDIENTE_PAGO"}, {"RECIBIDO"}} => Formado(s)
<1> DEFINE s == CambiaComanda(c, si, queda, sino)
<1>0. c \in Nat
  BY TrabasAssumption DEF Comandas
<1>1. s \in Sentencias
  BY <1>0 DEF CambiaComanda, Sentencia, Sentencias, LaFila, FilasBD, DeUna, Modos, Estados, Igual
<1>2. s.fila = <<"pedido", c>> /\ s.modo = "UPDATE" /\ s.sino = sino /\ s.si = si
  BY DEF CambiaComanda, Sentencia, LaFila
<1>3. s.fila[1] = "pedido" /\ s.fila[2] = c
  BY <1>2
<1>4. s.queda = queda
  BY DEF CambiaComanda, Sentencia
<1> QED BY <1>1, <1>2, <1>3, <1>4 DEF Formado, Cabal, LaFila

LEMMA ListaEs ==
  ASSUME NEW S, NEW n \in Nat, NEW f \in [1 .. n -> S]
  PROVE  f \in Seq(S) /\ DOMAIN f = 1 .. n
OBVIOUS

LEMMA PlatosFinitos ==
  ASSUME NEW x \in SUBSET PlatosCarta
  PROVE  IsFiniteSet(x) /\ x \subseteq Nat
<1>1. x \subseteq 1 .. NPlatos /\ NPlatos \in Nat
  BY TrabasAssumption DEF PlatosCarta
<1>2. IsFiniteSet(1 .. NPlatos)
  BY <1>1, FS_Interval
<1>3. IsFiniteSet(x)
  BY <1>1, <1>2, FS_Subset
<1> QED BY <1>1, <1>3

\* The items of a payment, in the order of their ids.
LEMMA DescontadosEs ==
  ASSUME NEW c \in Comandas
  PROVE  /\ Descontados(c) \in Seq(Sentencias)
         /\ \A i \in DOMAIN Descontados(c) :
              Formado(Descontados(c)[i]) /\ Descontados(c)[i].fila[1] = "item"
         /\ \A i, j \in DOMAIN Descontados(c) : i < j =>
              Descontados(c)[i].fila[2] < Descontados(c)[j].fila[2]
<1> DEFINE P == PlatosDe[c]
           k == [n \in P |-> n]
<1>1. P \subseteq 1 .. NPlatos /\ IsFiniteSet(P) /\ k \in [P -> Nat]
  <2>1. P \in SUBSET PlatosCarta
    BY TrabasAssumption
  <2>2. IsFiniteSet(P) /\ P \subseteq Nat
    BY <2>1, PlatosFinitos
  <2> QED BY <2>1, <2>2 DEF PlatosCarta
<1> HIDE DEF P
<1> DEFINE s == EnOrden(P, k)
<1>2. s \in SetToSeqs(P) /\ EnOrdenDe(s, k)
  <2>1. \E z \in SetToSeqs(P) : EnOrdenDe(z, k)
    BY <1>1, Ordenable
  <2> QED BY <2>1 DEF EnOrden
<1>3. \A i, j \in DOMAIN s : i < j => s[i] < s[j]
  <2>1. /\ s \in [1 .. Cardinality(P) -> P]
        /\ \A i, j \in 1 .. Cardinality(P) : i # j => s[i] # s[j]
    BY <1>2 DEF SetToSeqs
  <2>2. Cardinality(P) \in Nat
    BY <1>1, FS_CardinalityType
  <2>3. ASSUME NEW i \in DOMAIN s, NEW j \in DOMAIN s, i < j PROVE s[i] < s[j]
    <3>1. s[i] \in P /\ s[j] \in P /\ s[i] # s[j]
      BY <2>1, <2>2, <2>3
    <3>2. k[s[i]] <= k[s[j]]
      BY <1>2, <2>3 DEF EnOrdenDe
    <3>3. s[i] \in Nat /\ s[j] \in Nat /\ k[s[i]] = s[i] /\ k[s[j]] = s[j]
      BY <1>1, <3>1
    <3> QED BY <3>1, <3>2, <3>3
  <2> QED BY <2>3
<1>4. Descontados(c) = DeCadaPlato(s, "FOR UPDATE")
  BY DEF Descontados, P
<1> HIDE DEF s
<1>5. s \in [1 .. Cardinality(P) -> P] /\ Cardinality(P) \in Nat
  BY <1>1, <1>2, FS_CardinalityType DEF SetToSeqs
<1>6. DOMAIN s = 1 .. Cardinality(P)
  BY <1>5
<1>7. ASSUME NEW i \in DOMAIN s
      PROVE  LET e == Sentencia(LaFila("item", s[i]), "FOR UPDATE", Estados, Igual, "nunca")
             IN  e \in Sentencias /\ Formado(e) /\ e.fila[1] = "item" /\ e.fila[2] = s[i]
  <2> DEFINE e == Sentencia(LaFila("item", s[i]), "FOR UPDATE", Estados, Igual, "nunca")
  <2>1. s[i] \in 1 .. NPlatos /\ s[i] \in Nat
    BY <1>1, <1>5, <1>7
  <2>2. e.fila = <<"item", s[i]>> /\ e.modo = "FOR UPDATE" /\ e.queda = Igual
    BY DEF Sentencia, LaFila
  <2>3. e.fila[1] = "item" /\ e.fila[2] = s[i]
    <3>1. \A n : <<"item", n>>[1] = "item" /\ <<"item", n>>[2] = n
      OBVIOUS
    <3> HIDE DEF e
    <3> QED BY <2>2, <3>1
  <2>4. e \in Sentencias
    BY <2>1 DEF Sentencia, Sentencias, LaFila, FilasBD, DeUna, Modos, Estados, Igual
  <2> QED BY <2>1, <2>2, <2>3, <2>4 DEF Formado, Cabal, PlatosCarta
<1> DEFINE D == DeCadaPlato(s, "FOR UPDATE")
<1>8. /\ DOMAIN D = 1 .. Cardinality(P)
      /\ \A i \in DOMAIN s :
           D[i] = Sentencia(LaFila("item", s[i]), "FOR UPDATE", Estados, Igual, "nunca")
  BY <1>6 DEF DeCadaPlato
<1> HIDE DEF D
<1>10. \A i \in DOMAIN s : D[i] \in Sentencias /\ Formado(D[i]) /\ D[i].fila[1] = "item"
                           /\ D[i].fila[2] = s[i]
  BY <1>7, <1>8
<1>9. D \in Seq(Sentencias)
  <2>1. D = [i \in 1 .. Cardinality(P) |-> D[i]]
    BY <1>6 DEF D, DeCadaPlato
  <2> QED BY <1>5, <1>6, <1>10, <2>1
<1>11. ASSUME NEW i \in DOMAIN D, NEW j \in DOMAIN D, i < j
       PROVE  D[i].fila[2] < D[j].fila[2]
  <2>1. i \in DOMAIN s /\ j \in DOMAIN s
    BY <1>6, <1>8, <1>11
  <2>2. s[i] < s[j]
    BY <1>3, <1>11, <2>1
  <2> QED BY <1>10, <2>1, <2>2
<1> QED BY <1>4, <1>6, <1>8, <1>9, <1>10, <1>11 DEF D

\* A list whose statements are of levels a .. b, in order.
EnFila(q, que, a, b) ==
  /\ q \in Seq(Sentencias)
  /\ \A i \in DOMAIN q :
       /\ Formado(q[i]) /\ a <= Nivel(q[i]) /\ Nivel(q[i]) <= b
       /\ q[i].fila[1] = "cancelar" => que = "cerrar"
  /\ Sube(q, que)
  /\ Tras(Una(que, q), Ultimo, LaCola)

LEMMA UnaEs ==
  ASSUME NEW que, NEW q
  PROVE  /\ Una(que, q).que = que /\ Una(que, q).resto = q /\ Una(que, q).tiene = {}
         /\ Una(que, q).escrito = [c \in Comandas |-> Igual]
BY DEF Una

LEMMA Sola ==
  ASSUME NEW que, NEW s \in Sentencias, Formado(s), Nivel(s) # Ultimo,
         s.fila[1] # "cancelar"
  PROVE  EnFila(<<s>>, que, Nivel(s), Nivel(s))
<1> DEFINE q == <<s>>
<1>1. q \in Seq(Sentencias) /\ DOMAIN q = {1} /\ q[1] = s
  OBVIOUS
<1>2. Nivel(s) <= Nivel(s)
  BY NivelEs
<1>3. Sube(q, que)
  BY <1>1 DEF Sube
<1>4. Tras(Una(que, q), Ultimo, LaCola)
  BY <1>1, UnaEs DEF Tras
<1> HIDE DEF q
<1> QED BY <1>1, <1>2, <1>3, <1>4 DEF EnFila, q

\* One list after another, of higher levels.
LEMMA Pegadas ==
  ASSUME NEW que, NEW p, NEW q, NEW a \in Nat, NEW b \in Nat, NEW c \in Nat, NEW d \in Nat,
         EnFila(p, que, a, b), EnFila(q, que, c, d), b < c, a <= c, b <= d
  PROVE  EnFila(p \o q, que, a, d)
<1> DEFINE r == p \o q
<1>1. p \in Seq(Sentencias) /\ q \in Seq(Sentencias)
  BY DEF EnFila
<1>2. /\ r \in Seq(Sentencias)
      /\ \A i \in DOMAIN r : i \in Nat /\ (i \in DOMAIN p \/ (i > Len(p) /\ i - Len(p) \in DOMAIN q))
      /\ \A i \in DOMAIN p : i \in DOMAIN r /\ r[i] = p[i] /\ i <= Len(p) /\ i \in Nat
      /\ \A i \in DOMAIN q : i + Len(p) \in DOMAIN r /\ i \in Nat
      /\ \A i \in DOMAIN r : i > Len(p) => r[i] = q[i - Len(p)]
      /\ Len(p) \in Nat
  BY <1>1
<1> HIDE DEF r
<1>3. \A i \in DOMAIN p :
        Formado(p[i]) /\ a <= Nivel(p[i]) /\ Nivel(p[i]) <= b /\ Nivel(p[i]) \in Nat
        /\ (p[i].fila[1] = "cancelar" => que = "cerrar")
  BY NivelEs DEF EnFila
<1>4. \A i \in DOMAIN q :
        Formado(q[i]) /\ c <= Nivel(q[i]) /\ Nivel(q[i]) <= d /\ Nivel(q[i]) \in Nat
        /\ (q[i].fila[1] = "cancelar" => que = "cerrar")
  BY NivelEs DEF EnFila
<1>5. ASSUME NEW i \in DOMAIN r
      PROVE  Formado(r[i]) /\ a <= Nivel(r[i]) /\ Nivel(r[i]) <= d
             /\ (r[i].fila[1] = "cancelar" => que = "cerrar")
  <2>1. CASE i \in DOMAIN p
    BY <1>2, <1>3, <2>1
  <2>2. CASE i > Len(p) /\ i - Len(p) \in DOMAIN q
    BY <1>2, <1>4, <2>2
  <2> QED BY <1>2, <1>5, <2>1, <2>2
<1>6. Sube(r, que)
  <2> SUFFICES ASSUME NEW i \in DOMAIN r, NEW j \in DOMAIN r, i < j
               PROVE  \/ Nivel(r[i]) < Nivel(r[j])
                      \/ Nivel(r[i]) = Ultimo /\ Nivel(r[j]) = Ultimo
                      \/ Nivel(r[i]) = 2 /\ Nivel(r[j]) = 2 /\ que = "cerrar"
    BY DEF Sube
  <2>1. CASE i \in DOMAIN p /\ j \in DOMAIN p
    BY <1>2, <2>1 DEF EnFila, Sube
  <2>2. CASE i > Len(p) /\ i - Len(p) \in DOMAIN q /\ j > Len(p) /\ j - Len(p) \in DOMAIN q
    <3>1. i - Len(p) < j - Len(p)
      BY <1>2
    <3>2. r[i] = q[i - Len(p)] /\ r[j] = q[j - Len(p)]
      BY <1>2, <2>2
    <3>3. Sube(q, que)
      BY DEF EnFila
    <3> QED BY <2>2, <3>1, <3>2, <3>3 DEF Sube
  <2>3. CASE i \in DOMAIN p /\ j > Len(p) /\ j - Len(p) \in DOMAIN q
    BY <1>2, <1>3, <1>4, <2>3
  <2> QED BY <1>2, <2>1, <2>2, <2>3
<1>7. Tras(Una(que, r), Ultimo, LaCola)
  <2> SUFFICES ASSUME NEW i \in DOMAIN r, Nivel(r[i]) = Ultimo
               PROVE  \E j \in DOMAIN r : j < i /\ r[j].fila = LaCola /\ r[j].modo = "UPDATE"
                                            /\ r[j].sino = "termina"
    BY UnaEs DEF Tras
  <2>1. /\ \A k \in DOMAIN p : Nivel(p[k]) = Ultimo =>
              \E j \in DOMAIN p : j < k /\ p[j].fila = LaCola /\ p[j].modo = "UPDATE"
                                            /\ p[j].sino = "termina"
        /\ \A k \in DOMAIN q : Nivel(q[k]) = Ultimo =>
              \E j \in DOMAIN q : j < k /\ q[j].fila = LaCola /\ q[j].modo = "UPDATE"
                                            /\ q[j].sino = "termina"
    <3>1. Tras(Una(que, p), Ultimo, LaCola) /\ Tras(Una(que, q), Ultimo, LaCola)
      BY DEF EnFila
    <3>2. /\ Una(que, p).resto = p /\ Una(que, p).tiene = {}
          /\ Una(que, q).resto = q /\ Una(que, q).tiene = {}
      BY UnaEs
    <3> QED BY <3>1, <3>2 DEF Tras
  <2>2. CASE i \in DOMAIN p
    BY <1>2, <2>1, <2>2
  <2>3. CASE i > Len(p) /\ i - Len(p) \in DOMAIN q
    <3>1. PICK j \in DOMAIN q : j < i - Len(p) /\ q[j].fila = LaCola /\ q[j].modo = "UPDATE"
                                            /\ q[j].sino = "termina"
      BY <1>2, <2>1, <2>3
    <3>2. j + Len(p) \in DOMAIN r /\ j + Len(p) < i /\ r[j + Len(p)] = q[j]
      <4>1. j \in Nat /\ j > 0
        BY <1>1
      <4>2. Len(p) \in Nat /\ i \in Nat
        BY <1>2
      <4>3. j + Len(p) > Len(p) /\ (j + Len(p)) - Len(p) = j /\ j + Len(p) < i
        BY <3>1, <4>1, <4>2
      <4>4. j + Len(p) \in DOMAIN r
        BY <1>2
      <4>5. r[j + Len(p)] = q[j]
        BY <1>2, <4>3, <4>4
      <4> QED BY <4>3, <4>4, <4>5
    <3> QED BY <3>1, <3>2
  <2> QED BY <1>2, <2>2, <2>3
<1> QED BY <1>2, <1>5, <1>6, <1>7 DEF EnFila, r

\* The queue, and what is promoted.
LEMMA CapacidadEs ==
  ASSUME NEW que
  PROVE  EnFila(CompletarCapacidad, que, NPlatos + 3, Ultimo)
<1> DEFINE a == Actualiza("cola", 0, "termina")
           b == Actualiza("promover", 0, "nunca")
           q == CompletarCapacidad
<1>0. NPlatos \in Nat /\ Ultimo = NPlatos + 4
  BY TrabasAssumption DEF Ultimo
<1>1. /\ Formado(a) /\ a \in Sentencias /\ a.fila = LaCola /\ a.modo = "UPDATE"
      /\ a.sino = "termina" /\ a.fila[1] = "cola"
  BY ActualizaEs DEF LaCola
<1>2. Formado(b) /\ b \in Sentencias /\ b.fila[1] = "promover"
  BY ActualizaEs
<1>9. q = <<a>> \o <<b>>
  BY DEF CompletarCapacidad, Promover
<1> HIDE DEF a, b, q
<1>4. Nivel(a) = NPlatos + 3 /\ Nivel(b) = Ultimo
  BY <1>1, <1>2 DEF Nivel
<1>5. q \in Seq(Sentencias) /\ DOMAIN q = {1, 2} /\ q[1] = a /\ q[2] = b
  BY <1>1, <1>2, <1>9
<1>6. Sube(q, que)
  BY <1>0, <1>4, <1>5 DEF Sube
<1>7. Tras(Una(que, q), Ultimo, LaCola)
  BY <1>0, <1>1, <1>4, <1>5, UnaEs DEF Tras
<1>8. \A i \in DOMAIN q :
       /\ Formado(q[i]) /\ NPlatos + 3 <= Nivel(q[i]) /\ Nivel(q[i]) <= Ultimo
       /\ q[i].fila[1] = "cancelar" => que = "cerrar"
  BY <1>0, <1>1, <1>2, <1>4, <1>5
<1> QED BY <1>5, <1>6, <1>7, <1>8 DEF EnFila, q

LEMMA ConfirmarEs ==
  ASSUME NEW que, NEW c \in Comandas, NEW sino \in {"nunca", "termina", "sigue"}
  PROVE  EnFila(ConfirmarComanda(c, sino), que, 2, Ultimo)
<1> DEFINE a == CambiaComanda(c, {"PENDIENTE_PAGO"}, "RECIBIDO", sino)
           d == Descontados(c)
<1>0. NPlatos \in Nat /\ Ultimo = NPlatos + 4
  BY TrabasAssumption DEF Ultimo
<1>1. Formado(a) /\ a \in Sentencias /\ a.fila[1] = "pedido" /\ a.si = {"PENDIENTE_PAGO"}
  BY CambiaComandaEs DEF Estados
<1>2. d \in Seq(Sentencias)
  BY DescontadosEs
<1>3. \A i \in DOMAIN d : Formado(d[i]) /\ d[i].fila[1] = "item"
  BY DescontadosEs
<1>4. \A i, j \in DOMAIN d : i < j => d[i].fila[2] < d[j].fila[2]
  BY DescontadosEs
<1>9. ConfirmarComanda(c, sino) = (<<a>> \o d) \o CompletarCapacidad
  BY DEF ConfirmarComanda
<1> HIDE DEF a, d
<1>5. Nivel(a) = 2 /\ EnFila(<<a>>, que, 2, 2)
  <2>1. Nivel(a) = 2
    BY <1>1 DEF Nivel
  <2> QED BY <1>0, <1>1, <2>1, Sola
<1>6. \A i \in DOMAIN d :
        Nivel(d[i]) = 2 + d[i].fila[2] /\ Nivel(d[i]) \in Nat /\ 3 <= Nivel(d[i])
        /\ Nivel(d[i]) <= NPlatos + 2 /\ d[i].fila[2] \in Nat
  <2> SUFFICES ASSUME NEW i \in DOMAIN d
               PROVE  Nivel(d[i]) = 2 + d[i].fila[2] /\ Nivel(d[i]) \in Nat /\ 3 <= Nivel(d[i])
                      /\ Nivel(d[i]) <= NPlatos + 2 /\ d[i].fila[2] \in Nat
    OBVIOUS
  <2>1. Formado(d[i]) /\ d[i].fila[1] = "item"
    BY <1>3
  <2>2. Nivel(d[i]) = 2 + d[i].fila[2] /\ Nivel(d[i]) > 2 /\ Nivel(d[i]) < Ultimo - 1
        /\ Nivel(d[i]) \in Nat
    BY <2>1, NivelEs
  <2>3. d[i].fila[2] \in 1 .. NPlatos
    BY <2>1 DEF Formado, PlatosCarta
  <2> QED BY <1>0, <2>2, <2>3
<1>7. EnFila(d, que, 3, NPlatos + 2)
  <2>1. Sube(d, que)
    BY <1>4, <1>6 DEF Sube
  <2>2. Tras(Una(que, d), Ultimo, LaCola)
    BY <1>0, <1>6, UnaEs DEF Tras
  <2> QED BY <1>2, <1>3, <1>6, <2>1, <2>2 DEF EnFila
<1>8. EnFila(<<a>> \o d, que, 2, NPlatos + 2)
  BY <1>0, <1>5, <1>7, Pegadas
<1> QED BY <1>0, <1>8, <1>9, CapacidadEs, Pegadas

LEMMA CaducarEs ==
  ASSUME NEW que, NEW c \in Comandas
  PROVE  EnFila(Caducar(c), que, 0, 1)
<1> DEFINE a == Actualiza("pago", c, "termina")
           b == Actualiza("mesa", 0, "sigue")
<1>1. Formado(a) /\ a \in Sentencias /\ a.fila[1] = "pago"
  BY ActualizaEs, TrabasAssumption DEF Comandas
<1>2. Formado(b) /\ b \in Sentencias /\ b.fila[1] = "mesa"
  BY ActualizaEs
<1>3. Caducar(c) = <<a, b>>
  BY DEF Caducar
<1> HIDE DEF a, b
<1>4. Nivel(a) = 0 /\ Nivel(b) = 1 /\ Ultimo > 1 /\ Ultimo \in Nat
  BY <1>1, <1>2, TrabasAssumption DEF Nivel, Ultimo
<1> DEFINE q == <<a, b>>
<1>5. q \in Seq(Sentencias) /\ DOMAIN q = {1, 2} /\ q[1] = a /\ q[2] = b
  BY <1>1, <1>2
<1> HIDE DEF q
<1>6. Sube(q, que)
  BY <1>4, <1>5 DEF Sube
<1>7. Tras(Una(que, q), Ultimo, LaCola)
  BY <1>4, <1>5, UnaEs DEF Tras
<1>8. EnFila(q, que, 0, 1)
  BY <1>1, <1>2, <1>4, <1>5, <1>6, <1>7 DEF EnFila
<1> QED BY <1>3, <1>8 DEF q

LEMMA ResolverEs ==
  ASSUME NEW que, NEW c \in Comandas
  PROVE  EnFila(Resolver(c), que, 0, Ultimo)
<1>1. Resolver(c) = Caducar(c) \o ConfirmarComanda(c, "termina")
  BY DEF Resolver, Caducar
<1>2. Ultimo \in Nat /\ Ultimo > 2
  BY TrabasAssumption DEF Ultimo
<1>3. EnFila(ConfirmarComanda(c, "termina"), que, 2, Ultimo)
  BY ConfirmarEs
<1>4. EnFila(Caducar(c), que, 0, 1)
  BY CaducarEs
<1> QED BY <1>1, <1>2, <1>3, <1>4, Pegadas

LEMMA ConfigurarEs ==
  ASSUME NEW que
  PROVE  EnFila(Configurar, que, 0, Ultimo)
<1> DEFINE a == Actualiza("restaurante", 0, "nunca")
<1>0. NPlatos \in Nat /\ Ultimo = NPlatos + 4
  BY TrabasAssumption DEF Ultimo
<1>1. Formado(a) /\ a \in Sentencias /\ a.fila[1] = "restaurante"
  BY ActualizaEs
<1>2. Configurar = <<a>> \o CompletarCapacidad
  BY DEF Configurar
<1> HIDE DEF a
<1>3. Nivel(a) = 0
  BY <1>1 DEF Nivel
<1>4. EnFila(<<a>>, que, 0, 0)
  BY <1>0, <1>1, <1>3, Sola
<1> QED BY <1>0, <1>2, <1>4, CapacidadEs, Pegadas

\* The close: the table, and then the orders that nobody has paid.
LEMMA CerrarEs ==
  /\ EnFila(Cerrar, "cerrar", 1, 2)
  /\ Tras(Una("cerrar", Cerrar), 2, LaMesa)
<1> DEFINE a == Actualiza("mesa", 0, "termina")
           b == Actualiza("cancelar", 0, "nunca")
           q == Cerrar
<1>0. NPlatos \in Nat /\ Ultimo = NPlatos + 4
  BY TrabasAssumption DEF Ultimo
<1>1. /\ Formado(a) /\ a \in Sentencias /\ a.fila = LaMesa /\ a.modo = "UPDATE"
      /\ a.sino = "termina" /\ a.fila[1] = "mesa"
  BY ActualizaEs DEF LaMesa
<1>2. Formado(b) /\ b \in Sentencias /\ b.fila[1] = "cancelar"
  BY ActualizaEs
<1>9. q = <<a>> \o <<b>>
  BY DEF Cerrar, Cancelar
<1> HIDE DEF a, b, q
<1>4. Nivel(a) = 1 /\ Nivel(b) = 2
  BY <1>1, <1>2 DEF Nivel
<1>5. q \in Seq(Sentencias) /\ DOMAIN q = {1, 2} /\ q[1] = a /\ q[2] = b
  BY <1>1, <1>2, <1>9
<1>6. Sube(q, "cerrar")
  BY <1>0, <1>4, <1>5 DEF Sube
<1>7. Tras(Una("cerrar", q), Ultimo, LaCola) /\ Tras(Una("cerrar", q), 2, LaMesa)
  BY <1>0, <1>1, <1>4, <1>5, UnaEs DEF Tras
<1>8. \A i \in DOMAIN q :
       /\ Formado(q[i]) /\ 1 <= Nivel(q[i]) /\ Nivel(q[i]) <= 2
       /\ q[i].fila[1] = "cancelar" => "cerrar" = "cerrar"
  BY <1>0, <1>1, <1>2, <1>4, <1>5
<1> QED BY <1>5, <1>6, <1>7, <1>8 DEF EnFila, q

\* A list of statements that begins.
LEMMA EmpiezaBien ==
  ASSUME NEW que \in Clases, NEW q \in Seq(Sentencias), \A i \in DOMAIN q : Cabal(q[i])
  PROVE  TxBien(Una(que, q))
<1>1. Una(que, q) \in UnasTransacciones
  BY DEF Una, UnasTransacciones
<1> QED BY <1>1, UnaEs DEF TxBien

LEMMA EmpiezaEnFila ==
  ASSUME NEW que \in Clases, NEW q, NEW a \in Nat, NEW b \in Nat, EnFila(q, que, a, b),
         que = "cerrar" => Tras(Una(que, q), 2, LaMesa)
  PROVE  TxBien(Una(que, q)) /\ Ordenada(Una(que, q)) /\ Pendientes(Una(que, q))
<1>1. q \in Seq(Sentencias) /\ \A i \in DOMAIN q : Cabal(q[i])
  BY DEF EnFila, Formado
<1>2. TxBien(Una(que, q))
  BY <1>1, EmpiezaBien
<1>3. Ordenada(Una(que, q))
  BY UnaEs DEF Ordenada, EnFila
<1>4. Pendientes(Una(que, q))
  BY UnaEs DEF Pendientes
<1> QED BY <1>2, <1>3, <1>4

\* Kinds that take the items in the order of a request.
LEMMA DeCadaPlatoEs ==
  ASSUME NEW modo \in {"KEY SHARE", "UPDATE"}, NEW q \in EnElOrdenPedido(modo)
  PROVE  q \in Seq(Sentencias) /\ \A i \in DOMAIN q : Cabal(q[i])
<1>1. PICK x \in SUBSET PlatosCarta :
          \E s \in SetToSeqs(x) : q = DeCadaPlato(s, modo)
  BY DEF EnElOrdenPedido
<1>6. PICK s \in SetToSeqs(x) : q = DeCadaPlato(s, modo)
  BY <1>1
<1>2. IsFiniteSet(x) /\ x \subseteq Nat
  BY PlatosFinitos
<1>3. Cardinality(x) \in Nat /\ s \in [1 .. Cardinality(x) -> x]
  BY <1>2, FS_CardinalityType DEF SetToSeqs
<1>4. ASSUME NEW i \in 1 .. Cardinality(x)
      PROVE  q[i] \in Sentencias /\ Cabal(q[i])
  <2> DEFINE e == Sentencia(LaFila("item", s[i]), modo, Estados, Igual, "nunca")
  <2>1. s[i] \in Nat
    BY <1>2, <1>3
  <2>2. q[i] = e
    BY <1>6, <1>3 DEF DeCadaPlato
  <2>3. e \in Sentencias
    BY <2>1 DEF Sentencia, Sentencias, LaFila, FilasBD, DeUna, Modos, Estados, Igual
  <2>4. e.fila = <<"item", s[i]>> /\ e.queda = Igual
    BY DEF Sentencia, LaFila
  <2>5. e.fila[1] = "item"
    <3>1. \A n : <<"item", n>>[1] = "item"
      OBVIOUS
    <3> HIDE DEF e
    <3> QED BY <2>4, <3>1
  <2> QED BY <2>2, <2>3, <2>4, <2>5 DEF Cabal
<1>5. q = [i \in 1 .. Cardinality(x) |-> q[i]]
  BY <1>6, <1>3 DEF DeCadaPlato
<1>7. \A i \in 1 .. Cardinality(x) : q[i] \in Sentencias /\ Cabal(q[i])
  BY <1>4
<1>8. q \in [1 .. Cardinality(x) -> Sentencias]
  <2> DEFINE F == [i \in 1 .. Cardinality(x) |-> q[i]]
  <2>1. F \in [1 .. Cardinality(x) -> Sentencias]
    BY <1>7
  <2>2. q = F
    BY <1>5
  <2> HIDE DEF F
  <2> QED BY <2>1, <2>2
<1>9. q \in Seq(Sentencias) /\ DOMAIN q = 1 .. Cardinality(x)
  BY <1>3, <1>8, ListaEs
<1> QED BY <1>7, <1>9

\* The diner's request that writes the order before the table, and an order
\* that is moved by hand.
LEMMA OtrasEs ==
  /\ \A c \in Comandas :
       /\ ReservarConReceptor(c) \in Seq(Sentencias)
       /\ \A i \in DOMAIN ReservarConReceptor(c) : Cabal(ReservarConReceptor(c)[i])
  /\ \A c \in Comandas : comanda[c] \in {"RECIBIDO", "EN_PREPARACION"} =>
       /\ Mover(c) \in Seq(Sentencias)
       /\ \A i \in DOMAIN Mover(c) : Cabal(Mover(c)[i])
<1>1. ASSUME NEW c \in Comandas
      PROVE  /\ ReservarConReceptor(c) \in Seq(Sentencias)
             /\ \A i \in DOMAIN ReservarConReceptor(c) : Cabal(ReservarConReceptor(c)[i])
  <2> DEFINE a == CambiaComanda(c, Estados, Igual, "nunca")
             b == Actualiza("mesa", 0, "nunca")
  <2>3. Cabal(a) /\ a \in Sentencias
    <3>1. Estados \in SUBSET Estados /\ Igual \in Estados \cup {Igual} /\ Igual # "PENDIENTE_PAGO"
      BY DEF Igual
    <3> QED BY <3>1, CambiaComandaEs
  <2>4. Cabal(b) /\ b \in Sentencias
    BY ActualizaEs DEF Formado
  <2>1. Cabal(a) /\ a \in Sentencias /\ Cabal(b) /\ b \in Sentencias
    BY <2>3, <2>4
  <2>2. ReservarConReceptor(c) = <<a, b>>
    BY DEF ReservarConReceptor
  <2> HIDE DEF a, b
  <2> QED BY <2>1, <2>2
<1>2. ASSUME NEW c \in Comandas, comanda[c] = "RECIBIDO"
      PROVE  /\ Mover(c) \in Seq(Sentencias)
             /\ \A i \in DOMAIN Mover(c) : Cabal(Mover(c)[i])
  <2> DEFINE a == Actualiza("cola", 0, "sigue")
             b == CambiaComanda(c, Estados, "EN_PREPARACION", "nunca")
  <2>3. Cabal(b) /\ b \in Sentencias
    <3>1. Estados \in SUBSET Estados /\ "EN_PREPARACION" \in Estados \cup {Igual}
      BY DEF Estados
    <3> QED BY <3>1, CambiaComandaEs
  <2>4. Cabal(a) /\ a \in Sentencias
    BY ActualizaEs DEF Formado
  <2>1. Cabal(a) /\ a \in Sentencias /\ Cabal(b) /\ b \in Sentencias
    BY <2>3, <2>4
  <2>2. Mover(c) = <<a, b>>
    BY <1>2 DEF Mover
  <2> HIDE DEF a, b
  <2> QED BY <2>1, <2>2
<1>3. ASSUME NEW c \in Comandas, comanda[c] = "EN_PREPARACION"
      PROVE  /\ Mover(c) \in Seq(Sentencias)
             /\ \A i \in DOMAIN Mover(c) : Cabal(Mover(c)[i])
  <2> DEFINE a == CambiaComanda(c, Estados, "LISTO_PARA_ENTREGAR", "nunca")
             q == CompletarCapacidad
  <2>1. Cabal(a) /\ a \in Sentencias
    BY CambiaComandaEs DEF Estados
  <2>2. q \in Seq(Sentencias) /\ \A i \in DOMAIN q : Cabal(q[i])
    BY CapacidadEs DEF EnFila, Formado
  <2>3. Mover(c) = <<a>> \o q
    BY <1>3 DEF Mover
  <2> HIDE DEF a, q
  <2> QED BY <2>1, <2>2, <2>3
<1> QED BY <1>1, <1>2, <1>3

LEMMA ParEs ==
  ASSUME NEW a, NEW b
  PROVE  <<a, b>>[1] = a /\ <<a, b>>[2] = b
OBVIOUS

LEMMA ProgramasEs ==
  ASSUME NEW p \in Programas
  PROVE  /\ TxBien(Una(p[1], p[2]))
         /\ p[1] \notin SinOrden =>
              Ordenada(Una(p[1], p[2])) /\ Pendientes(Una(p[1], p[2]))
<1>0. Ultimo \in Nat
  BY TrabasAssumption DEF Ultimo
<1>1. CASE \E c \in Comandas : p = <<"reservar con receptor", ReservarConReceptor(c)>>
  <2>1. PICK c \in Comandas : p = <<"reservar con receptor", ReservarConReceptor(c)>>
    BY <1>1
  <2>2. p[1] = "reservar con receptor" /\ p[2] = ReservarConReceptor(c)
    BY <2>1, ParEs
  <2>3. p[1] \in Clases /\ p[1] \in SinOrden
    BY <2>2 DEF Clases, SinOrden
  <2>4. p[2] \in Seq(Sentencias) /\ \A i \in DOMAIN p[2] : Cabal(p[2][i])
    BY <2>1, <2>2, OtrasEs
  <2> QED BY <2>3, <2>4, EmpiezaBien
<1>2. CASE \E c \in Comandas : p = <<"resolver", Resolver(c)>>
  <2>1. PICK c \in Comandas : p = <<"resolver", Resolver(c)>>
    BY <1>2
  <2>2. p[1] = "resolver" /\ p[2] = Resolver(c)
    BY <2>1, ParEs
  <2>3. p[1] \in Clases /\ p[1] # "cerrar"
    BY <2>2 DEF Clases
  <2>4. EnFila(p[2], p[1], 0, Ultimo)
    BY <2>2, ResolverEs
  <2> QED BY <1>0, <2>3, <2>4, EmpiezaEnFila
<1>3. CASE \E c \in Comandas : p = <<"vencer", Caducar(c)>>
  <2>1. PICK c \in Comandas : p = <<"vencer", Caducar(c)>>
    BY <1>3
  <2>2. p[1] = "vencer" /\ p[2] = Caducar(c)
    BY <2>1, ParEs
  <2>3. p[1] \in Clases /\ p[1] # "cerrar"
    BY <2>2 DEF Clases
  <2>4. EnFila(p[2], p[1], 0, 1)
    BY <2>2, CaducarEs
  <2> QED BY <1>0, <2>3, <2>4, EmpiezaEnFila
<1>4. CASE \E c \in Comandas : p = <<"cobro en efectivo", ConfirmarComanda(c, "termina")>>
  <2>1. PICK c \in Comandas : p = <<"cobro en efectivo", ConfirmarComanda(c, "termina")>>
    BY <1>4
  <2>2. p[1] = "cobro en efectivo" /\ p[2] = ConfirmarComanda(c, "termina")
    BY <2>1, ParEs
  <2>3. p[1] \in Clases /\ p[1] # "cerrar"
    BY <2>2 DEF Clases
  <2>4. EnFila(p[2], p[1], 2, Ultimo)
    BY <2>2, ConfirmarEs
  <2> QED BY <1>0, <2>3, <2>4, EmpiezaEnFila
<1>5. CASE \E c \in {d \in Comandas : comanda[d] \in {"RECIBIDO", "EN_PREPARACION"}} : p = <<"mover", Mover(c)>>
  <2>1. PICK c \in {d \in Comandas : comanda[d] \in {"RECIBIDO", "EN_PREPARACION"}} : p = <<"mover", Mover(c)>>
    BY <1>5
  <2>2. p[1] = "mover" /\ p[2] = Mover(c)
    BY <2>1, ParEs
  <2>3. p[1] \in Clases /\ p[1] \in SinOrden
    BY <2>2 DEF Clases, SinOrden
  <2>4. p[2] \in Seq(Sentencias) /\ \A i \in DOMAIN p[2] : Cabal(p[2][i])
    BY <2>1, <2>2, OtrasEs
  <2> QED BY <2>3, <2>4, EmpiezaBien
<1>6. CASE p = <<"cerrar", Cerrar>>
  <2>2. p[1] = "cerrar" /\ p[2] = Cerrar
    BY <1>6, ParEs
  <2>3. p[1] \in Clases
    BY <2>2 DEF Clases
  <2>4. EnFila(p[2], p[1], 1, 2) /\ Tras(Una(p[1], p[2]), 2, LaMesa)
    BY <2>2, CerrarEs
  <2> QED BY <2>3, <2>4, EmpiezaEnFila
<1>7. CASE p = <<"configurar", Configurar>>
  <2>2. p[1] = "configurar" /\ p[2] = Configurar
    BY <1>7, ParEs
  <2>3. p[1] \in Clases /\ p[1] # "cerrar"
    BY <2>2 DEF Clases
  <2>4. EnFila(p[2], p[1], 0, Ultimo)
    BY <2>2, ConfigurarEs
  <2> QED BY <1>0, <2>3, <2>4, EmpiezaEnFila
<1>8. CASE \E s \in EnElOrdenPedido("KEY SHARE") : p = <<"crear", s>>
  <2>1. PICK s \in EnElOrdenPedido("KEY SHARE") : p = <<"crear", s>>
    BY <1>8
  <2>2. p[1] = "crear" /\ p[2] = s
    BY <2>1, ParEs
  <2>3. p[1] \in Clases /\ p[1] \in SinOrden
    BY <2>2 DEF Clases, SinOrden
  <2>4. p[2] \in Seq(Sentencias) /\ \A i \in DOMAIN p[2] : Cabal(p[2][i])
    BY <2>1, <2>2, DeCadaPlatoEs
  <2> QED BY <2>3, <2>4, EmpiezaBien
<1>9. CASE \E s \in EnElOrdenPedido("UPDATE") : p = <<"ajustar", s>>
  <2>1. PICK s \in EnElOrdenPedido("UPDATE") : p = <<"ajustar", s>>
    BY <1>9
  <2>2. p[1] = "ajustar" /\ p[2] = s
    BY <2>1, ParEs
  <2>3. p[1] \in Clases /\ p[1] \in SinOrden
    BY <2>2 DEF Clases, SinOrden
  <2>4. p[2] \in Seq(Sentencias) /\ \A i \in DOMAIN p[2] : Cabal(p[2][i])
    BY <2>1, <2>2, DeCadaPlatoEs
  <2> QED BY <2>3, <2>4, EmpiezaBien
<1>10. CASE \E c \in Comandas :
              p \in {<<"reservar con receptor", ReservarConReceptor(c)>>,
                    <<"resolver", Resolver(c)>>,
                    <<"vencer", Caducar(c)>>,
                    <<"cobro en efectivo", ConfirmarComanda(c, "termina")>>}
  <2> PICK c \in Comandas :
         \/ p = <<"reservar con receptor", ReservarConReceptor(c)>>
         \/ p = <<"resolver", Resolver(c)>>
         \/ p = <<"vencer", Caducar(c)>>
         \/ p = <<"cobro en efectivo", ConfirmarComanda(c, "termina")>>
    BY <1>10
  <2> QED BY <1>1, <1>2, <1>3, <1>4
<1>11. CASE p \in {<<"cerrar", Cerrar>>, <<"configurar", Configurar>>}
  BY <1>6, <1>7, <1>11
<1> HIDE DEF SinOrden
<1> QED
  <2>1. \/ \E c \in Comandas :
              p \in {<<"reservar con receptor", ReservarConReceptor(c)>>,
                    <<"resolver", Resolver(c)>>,
                    <<"vencer", Caducar(c)>>,
                    <<"cobro en efectivo", ConfirmarComanda(c, "termina")>>}
        \/ \E c \in {d \in Comandas : comanda[d] \in {"RECIBIDO", "EN_PREPARACION"}} :
             p = <<"mover", Mover(c)>>
        \/ p \in {<<"cerrar", Cerrar>>, <<"configurar", Configurar>>}
        \/ \E s \in EnElOrdenPedido("KEY SHARE") : p = <<"crear", s>>
        \/ \E s \in EnElOrdenPedido("UPDATE") : p = <<"ajustar", s>>
    <3> DEFINE De(c) == {<<"reservar con receptor", ReservarConReceptor(c)>>,
                    <<"resolver", Resolver(c)>>,
                    <<"vencer", Caducar(c)>>,
                    <<"cobro en efectivo", ConfirmarComanda(c, "termina")>>}
               A == UNION {De(c) : c \in Comandas}
               M == {<<"mover", Mover(c)>> :
                       c \in {d \in Comandas : comanda[d] \in {"RECIBIDO", "EN_PREPARACION"}}}
               C == {<<"crear", s>> : s \in EnElOrdenPedido("KEY SHARE")}
               J == {<<"ajustar", s>> : s \in EnElOrdenPedido("UPDATE")}
               D == {<<"cerrar", Cerrar>>, <<"configurar", Configurar>>}
    <3>1. p \in A \/ p \in M \/ p \in D \/ p \in C \/ p \in J
      BY DEF Programas
    <3>2. p \in A => \E c \in Comandas : p \in De(c)
      <4> HIDE DEF De
      <4> QED OBVIOUS
    <3>3. p \in M => \E c \in {d \in Comandas : comanda[d] \in {"RECIBIDO", "EN_PREPARACION"}} :
             p = <<"mover", Mover(c)>>
      BY Zenon
    <3>4. /\ p \in C => \E s \in EnElOrdenPedido("KEY SHARE") : p = <<"crear", s>>
          /\ p \in J => \E s \in EnElOrdenPedido("UPDATE") : p = <<"ajustar", s>>
      BY Zenon
    <3> HIDE DEF A, M, C, J
    <3> QED BY <3>1, <3>2, <3>3, <3>4
  <2> QED BY <1>5, <1>8, <1>9, <1>10, <1>11, <2>1

-----------------------------------------------------------------------------
(* Who waits for whom: the steps *)

\* One transaction changes, and takes nothing that another one has.
LEMMA Avanza ==
  ASSUME TrabasInv, NEW t \in Transacciones, NEW r, TxBien(r),
         tr' = [tr EXCEPT ![t] = r], comanda' = comanda,
         \A x \in r.tiene : x \in tr[t].tiene \/
           \A u \in Transacciones : u # t =>
             \A y \in tr[u].tiene : y[1] = x[1] => ~Chocan(y[2], x[2]),
         r.que \notin SinOrden => Ordenada(r) /\ Pendientes(r)
  PROVE  TrabasInv'
<1>1. /\ comanda \in [Comandas -> Estados] /\ tr \in [Transacciones -> UnasTransacciones]
      /\ \A u \in Transacciones : TxBien(tr[u])
      /\ Exclusivas
      /\ \A u \in Transacciones :
           tr[u].que \notin SinOrden => Ordenada(tr[u]) /\ Pendientes(tr[u])
  BY DEF TrabasInv, TrabasTipos
<1>2. /\ \A u \in Transacciones : tr'[u] = IF u = t THEN r ELSE tr[u]
      /\ r \in UnasTransacciones
      /\ tr' \in [Transacciones -> UnasTransacciones]
  BY <1>1 DEF TxBien
<1>3. TrabasTipos'
  BY <1>1, <1>2 DEF TrabasTipos
<1>4. Exclusivas'
  <2> SUFFICES ASSUME NEW u \in Transacciones, NEW v \in Transacciones, u # v,
                      NEW x \in tr'[u].tiene, NEW y \in tr'[v].tiene, x[1] = y[1]
               PROVE  ~Chocan(x[2], y[2])
    BY DEF Exclusivas
  <2>1. CASE u # t /\ v # t
    BY <1>1, <1>2, <2>1 DEF Exclusivas
  <2>2. CASE u = t
    <3>1. x \in r.tiene /\ y \in tr[v].tiene
      BY <1>2, <2>2
    <3> QED BY <1>1, <2>2, <3>1 DEF Exclusivas, Chocan
  <2>3. CASE v = t
    <3>1. y \in r.tiene /\ x \in tr[u].tiene
      BY <1>2, <2>3
    <3> QED BY <1>1, <2>3, <3>1 DEF Exclusivas, Chocan
  <2> QED BY <2>1, <2>2, <2>3
<1>5. ASSUME NEW u \in Transacciones, tr'[u].que \notin SinOrden
      PROVE  Ordenada(tr'[u]) /\ Pendientes(tr[u])'
  <2>1. Pendientes(tr[u])' <=> Pendientes(tr'[u])
    BY DEF Pendientes
  <2> QED BY <1>1, <1>2, <1>5, <2>1
<1> QED BY <1>3, <1>4, <1>5 DEF TrabasInv

\* What a transaction is about to do.
LEMMA AhoraEs ==
  ASSUME TrabasInv, NEW t \in Transacciones, tr[t].resto # <<>>
  PROVE  /\ tr[t].resto \in Seq(Sentencias) /\ 1 \in DOMAIN tr[t].resto
         /\ Ahora(t) = tr[t].resto[1] /\ Cabal(Ahora(t)) /\ Ahora(t) \in Sentencias
         /\ Ahora(t).fila = <<Ahora(t).fila[1], Ahora(t).fila[2]>>
         /\ Ahora(t).fila[1] \in DeUna \cup {"promover", "cancelar"}
         /\ Ahora(t).fila[2] \in Nat
         /\ tr[t].que \notin SinOrden => Formado(Ahora(t)) /\ Ordenada(tr[t]) /\ Pendientes(tr[t])
         /\ TxBien(tr[t])
<1>1. TxBien(tr[t]) /\ (tr[t].que \notin SinOrden => Ordenada(tr[t]) /\ Pendientes(tr[t]))
  BY DEF TrabasInv, TrabasTipos
<1>2. tr[t].resto \in Seq(Sentencias)
  BY <1>1 DEF TxBien, UnasTransacciones
<1>3. 1 \in DOMAIN tr[t].resto /\ Ahora(t) = tr[t].resto[1] /\ Ahora(t) \in Sentencias
  BY <1>2, SinLaPrimera DEF Ahora
<1>4. Cabal(Ahora(t)) /\ (tr[t].que \notin SinOrden => Formado(Ahora(t)))
  BY <1>1, <1>3 DEF TxBien, Ordenada
<1>5. Ahora(t).fila \in FilasBD
  BY <1>3 DEF Sentencias
<1> QED BY <1>1, <1>2, <1>3, <1>4, <1>5 DEF FilasBD

\* A transaction with a row of an order keeps the others from it.
LEMMA PedidoDeUna ==
  ASSUME TrabasInv, NEW t \in Transacciones, NEW u \in Transacciones, t # u,
         NEW fila, <<fila, "UPDATE">> \in tr[t].tiene
  PROVE  <<fila, "UPDATE">> \notin tr[u].tiene
<1>1. Exclusivas
  BY DEF TrabasInv
<1>2. <<fila, "UPDATE">>[1] = fila /\ <<fila, "UPDATE">>[2] = "UPDATE"
  OBVIOUS
<1> QED BY <1>1, <1>2 DEF Exclusivas, Chocan

LEMMA TrabasAlEmpezar == TrabasInit => TrabasInv
<1> SUFFICES ASSUME TrabasInit PROVE TrabasInv
  OBVIOUS
<1>1. /\ comanda \in [Comandas -> Estados]
      /\ tr = [t \in Transacciones |-> Una("por empezar", <<>>)]
  BY DEF TrabasInit, Estados
<1>2. /\ TxBien(Una("por empezar", <<>>)) /\ Ordenada(Una("por empezar", <<>>))
      /\ Pendientes(Una("por empezar", <<>>)) /\ Una("por empezar", <<>>).tiene = {}
  BY Terminada DEF Clases
<1>3. TrabasTipos
  BY <1>1, <1>2 DEF TrabasTipos, TxBien
<1>4. Exclusivas
  BY <1>1, <1>2 DEF Exclusivas
<1> QED BY <1>1, <1>2, <1>3, <1>4 DEF TrabasInv

LEMMA AlEmpezarTx ==
  ASSUME TrabasInv, NEW t \in Transacciones, EmpezarTx(t)
  PROVE  TrabasInv'
<1>1. PICK p \in Programas : tr' = [tr EXCEPT ![t] = Una(p[1], p[2])]
  BY DEF EmpezarTx
<1>2. Una(p[1], p[2]).tiene = {} /\ Una(p[1], p[2]).que = p[1]
  BY UnaEs
<1>3. comanda' = comanda
  BY DEF EmpezarTx
<1> QED BY <1>1, <1>2, <1>3, ProgramasEs, Avanza

LEMMA AlAbortar ==
  ASSUME TrabasInv, NEW t \in Transacciones, Aborta(t)
  PROVE  TrabasInv'
<1> DEFINE r == Una("terminada", <<>>)
<1>1. TxBien(r) /\ Ordenada(r) /\ Pendientes(r) /\ r.tiene = {}
  BY Terminada DEF Clases
<1> HIDE DEF r
<1>2. tr' = [tr EXCEPT ![t] = r] /\ comanda' = comanda
  BY DEF Aborta, r
<1> QED BY <1>1, <1>2, Avanza

\* What is left once the first statement is not.
LEMMA SinLaPrimeraEnFila ==
  ASSUME NEW q \in Seq(Sentencias), q # <<>>, NEW que, Sube(q, que)
  PROVE  Sube(Tail(q), que)
<1> SUFFICES ASSUME NEW i \in DOMAIN Tail(q), NEW j \in DOMAIN Tail(q), i < j
             PROVE  \/ Nivel(Tail(q)[i]) < Nivel(Tail(q)[j])
                    \/ Nivel(Tail(q)[i]) = Ultimo /\ Nivel(Tail(q)[j]) = Ultimo
                    \/ Nivel(Tail(q)[i]) = 2 /\ Nivel(Tail(q)[j]) = 2 /\ que = "cerrar"
  BY DEF Sube
<1>1. /\ i + 1 \in DOMAIN q /\ Tail(q)[i] = q[i + 1]
      /\ j + 1 \in DOMAIN q /\ Tail(q)[j] = q[j + 1]
      /\ i \in Nat /\ j \in Nat
  BY SinLaPrimera
<1>2. i + 1 < j + 1
  BY <1>1
<1> QED BY <1>1, <1>2 DEF Sube

LEMMA TxCambiaResto ==
  ASSUME NEW z \in UnasTransacciones, NEW a \in Seq(Sentencias)
  PROVE  /\ [z EXCEPT !.resto = a] \in UnasTransacciones
         /\ [z EXCEPT !.resto = a].que = z.que
         /\ [z EXCEPT !.resto = a].resto = a
         /\ [z EXCEPT !.resto = a].tiene = z.tiene
         /\ [z EXCEPT !.resto = a].escrito = z.escrito
<1> DEFINE S == Seq(Sentencias)
           T == SUBSET (FilasBD \X Modos)
           E == [Comandas -> Estados \cup {Igual}]
<1>1. z \in [que : Clases, resto : S, tiene : T, escrito : E] /\ a \in S
  BY DEF UnasTransacciones
<1>2. UnasTransacciones = [que : Clases, resto : S, tiene : T, escrito : E]
  BY DEF UnasTransacciones
<1> HIDE DEF S, T, E
<1> QED BY <1>1, <1>2

LEMMA AlEjecutar ==
  ASSUME TrabasInv, NEW t \in Transacciones, Ejecutar(t)
  PROVE  TrabasInv'
<1> DEFINE s == Ahora(t)
           q == tr[t].resto
           nueva == <<s.fila, s.modo>>
           r == [tr[t] EXCEPT !.resto = Tail(q), !.tiene = tr[t].tiene \cup {nueva},
                              !.escrito = Anotado(t, s)]
<1>1. /\ q # <<>> /\ EsUnaFila(s) /\ Aplica(t, s)
      /\ \A u \in Transacciones : ~Ocupada(t, s, u)
      /\ comanda' = comanda
  BY DEF Ejecutar
<1>2. /\ q \in Seq(Sentencias) /\ 1 \in DOMAIN q
      /\ s = q[1] /\ Cabal(s) /\ s \in Sentencias
      /\ s.fila = <<s.fila[1], s.fila[2]>>
      /\ s.fila[1] \in DeUna \cup {"promover", "cancelar"} /\ s.fila[2] \in Nat
      /\ TxBien(tr[t])
  BY <1>1, AhoraEs
<1>3. tr[t].que \notin SinOrden => Formado(s) /\ Ordenada(tr[t]) /\ Pendientes(tr[t])
  BY <1>1, AhoraEs
<1>4. /\ tr \in [Transacciones -> UnasTransacciones] /\ comanda \in [Comandas -> Estados]
      /\ tr[t] \in UnasTransacciones
  BY DEF TrabasInv, TrabasTipos
<1>5. tr' = [tr EXCEPT ![t] = r]
  <2>1. tr' = [tr EXCEPT ![t].resto = Tail(@),
                      ![t].tiene = @ \cup {<<s.fila, s.modo>>},
                      ![t].escrito = Anotado(t, s)]
    BY DEF Ejecutar
  <2>4. tr' = [tr EXCEPT ![t] = [tr[t] EXCEPT !.resto = Tail(q), !.tiene = tr[t].tiene \cup {nueva},
                     !.escrito = Anotado(t, s)]]
    <3> DEFINE a == Tail(q)
               b == {<<s.fila, s.modo>>}
               c == Anotado(t, s)
    <3>1. tr' = [tr EXCEPT ![t].resto = a, ![t].tiene = @ \cup b, ![t].escrito = c]
      BY <1>4, <2>1
    <3> HIDE DEF a, b, c
    <3>2. tr' = [tr EXCEPT ![t] = [tr[t] EXCEPT !.resto = a, !.tiene = tr[t].tiene \cup b,
                                            !.escrito = c]]
      BY <1>4, <3>1
    <3> QED BY <3>2 DEF a, b, c
  <2> QED BY <2>4
<1>6. /\ s.fila[1] \in DeUna /\ nueva \in FilasBD \X Modos /\ s.modo \in Modos
      /\ nueva[1] = s.fila /\ nueva[2] = s.modo
      /\ s.fila[1] = "pedido" => s.fila[2] \in Comandas /\ s.modo = "UPDATE"
  <2>1. s.fila[1] \in DeUna
    BY <1>1, <1>2 DEF EsUnaFila
  <2>2. s.fila \in FilasBD /\ s.modo \in Modos
    BY <1>2 DEF Sentencias
  <2>3. s.fila[1] = "pedido" => s.fila[2] \in Comandas /\ s.modo = "UPDATE"
    BY <1>2 DEF Cabal
  <2> HIDE DEF s
  <2> QED BY <2>1, <2>2, <2>3
<1>7. /\ Tail(q) \in Seq(Sentencias)
      /\ \A i \in DOMAIN Tail(q) :
           i \in Nat /\ i + 1 \in DOMAIN q /\ Tail(q)[i] = q[i + 1] /\ i + 1 > 1
      /\ \A i \in DOMAIN q : i > 1 => i - 1 \in DOMAIN Tail(q)
  BY <1>1, <1>2, SinLaPrimera
<1>8. \A i \in DOMAIN q : i \in Nat /\ i >= 1
  BY <1>2
<1> HIDE DEF s, q, nueva
<1>9. Anotado(t, s) \in [Comandas -> Estados \cup {Igual}]
      /\ \A c \in Comandas : Anotado(t, s)[c] # Igual =>
           tr[t].escrito[c] # Igual \/ nueva = Pedido(c)
  <2>1. tr[t].escrito \in [Comandas -> Estados \cup {Igual}]
    BY <1>4 DEF UnasTransacciones
  <2>2. CASE s.queda = Igual
    BY <2>1, <2>2 DEF Anotado
  <2>3. CASE s.queda # Igual
    <3>1. s.fila[1] = "pedido" /\ s.queda \in Estados
      BY <1>2, <2>3 DEF Cabal, Sentencias
    <3>2. nueva = Pedido(s.fila[2]) /\ s.fila[2] \in Comandas
      BY <1>2, <1>6, <3>1 DEF nueva, Pedido, LaFila
    <3>3. Anotado(t, s) = [tr[t].escrito EXCEPT ![s.fila[2]] = s.queda]
      BY <2>3 DEF Anotado
    <3> QED BY <2>1, <3>1, <3>2, <3>3
  <2> QED BY <2>2, <2>3
<1>10. /\ r.que = tr[t].que /\ r.resto = Tail(q) /\ r.tiene = tr[t].tiene \cup {nueva}
       /\ r.escrito = Anotado(t, s)
       /\ r \in UnasTransacciones
  <2>1. tr[t].tiene \cup {nueva} \in SUBSET (FilasBD \X Modos)
    BY <1>4, <1>6 DEF UnasTransacciones
  <2> DEFINE a == Tail(q)
             b == tr[t].tiene \cup {nueva}
             c == Anotado(t, s)
  <2>2. /\ a \in Seq(Sentencias) /\ b \in SUBSET (FilasBD \X Modos)
        /\ c \in [Comandas -> Estados \cup {Igual}]
    BY <1>7, <1>9, <2>1
  <2> HIDE DEF a, b, c
  <2>4. r = [tr[t] EXCEPT !.resto = a, !.tiene = b, !.escrito = c]
    BY DEF a, b, c
  <2> HIDE DEF r
  <2>5. tr[t] \in UnasTransacciones
    BY <1>4
  <2>3. /\ r \in UnasTransacciones
        /\ r.que = tr[t].que /\ r.resto = a /\ r.tiene = b /\ r.escrito = c
    <3> DEFINE S == Seq(Sentencias)
               T == SUBSET (FilasBD \X Modos)
               E == [Comandas -> Estados \cup {Igual}]
               z == tr[t]
    <3>1. UnasTransacciones = [que : Clases, resto : S, tiene : T, escrito : E]
      BY DEF UnasTransacciones
    <3>2. z \in [que : Clases, resto : S, tiene : T, escrito : E] /\ a \in S /\ b \in T /\ c \in E
      BY <2>2, <2>5, <3>1
    <3>3. r = [z EXCEPT !.resto = a, !.tiene = b, !.escrito = c]
      BY <2>4
    <3> HIDE DEF S, T, E, z
    <3>4. /\ r \in [que : Clases, resto : S, tiene : T, escrito : E]
          /\ r.que = z.que /\ r.resto = a /\ r.tiene = b /\ r.escrito = c
      BY <3>2, <3>3
    <3> QED BY <3>1, <3>4 DEF z
  <2> QED BY <2>3 DEF a, b, c
<1> HIDE DEF r
<1>12. TxBien(r)
  <2>1. \A i \in DOMAIN r.resto : Cabal(r.resto[i])
    BY <1>2, <1>7, <1>10 DEF TxBien, q
  <2>2. \A x \in r.tiene : x[1][1] \in DeUna /\ (x[1][1] = "pedido" => x[2] = "UPDATE")
    BY <1>2, <1>6, <1>10 DEF TxBien
  <2>3. \A c \in Comandas : r.escrito[c] # Igual => Pedido(c) \in r.tiene
    BY <1>2, <1>9, <1>10 DEF TxBien
  <2> QED BY <1>10, <2>1, <2>2, <2>3 DEF TxBien
<1>13. \A x \in r.tiene : x \in tr[t].tiene \/
           \A u \in Transacciones : u # t =>
             \A y \in tr[u].tiene : y[1] = x[1] => ~Chocan(y[2], x[2])
  BY <1>1, <1>6, <1>10 DEF Ocupada
<1>14. ASSUME tr[t].que \notin SinOrden PROVE Ordenada(r)
  <2>1. /\ Formado(s) /\ Sube(q, tr[t].que)
        /\ \A i \in DOMAIN q : Formado(q[i]) /\ (q[i].fila[1] = "cancelar" => tr[t].que = "cerrar")
        /\ \A x \in tr[t].tiene, i \in DOMAIN q : DeAbajo(x, q[i], tr[t].que)
        /\ Tras(tr[t], Ultimo, LaCola)
        /\ tr[t].que = "cerrar" => Tras(tr[t], 2, LaMesa)
    BY <1>3, <1>14 DEF Ordenada, q
  <2>2. Sube(r.resto, r.que)
    BY <1>1, <1>2, <1>10, <2>1, SinLaPrimeraEnFila
  <2>3. \A i \in DOMAIN r.resto :
          Formado(r.resto[i]) /\ (r.resto[i].fila[1] = "cancelar" => r.que = "cerrar")
    BY <1>7, <1>10, <2>1
  <2>4. ASSUME NEW nivel, NEW fila, Tras(tr[t], nivel, fila) PROVE Tras(r, nivel, fila)
    <3> SUFFICES ASSUME NEW i \in DOMAIN r.resto, Nivel(r.resto[i]) = nivel
                 PROVE  \/ <<fila, "UPDATE">> \in r.tiene
                        \/ \E j \in DOMAIN r.resto :
                             j < i /\ r.resto[j].fila = fila /\ r.resto[j].modo = "UPDATE"
                               /\ r.resto[j].sino = "termina"
      BY DEF Tras
    <3>1. i \in Nat /\ i + 1 \in DOMAIN q /\ r.resto[i] = q[i + 1]
      BY <1>7, <1>10
    <3>2. \/ <<fila, "UPDATE">> \in tr[t].tiene
          \/ \E j \in DOMAIN q :
               j < i + 1 /\ q[j].fila = fila /\ q[j].modo = "UPDATE" /\ q[j].sino = "termina"
      BY <2>4, <3>1 DEF Tras, q
    <3>3. CASE <<fila, "UPDATE">> \in tr[t].tiene
      BY <1>10, <3>3
    <3>4. ASSUME NEW j \in DOMAIN q, j < i + 1, q[j].fila = fila, q[j].modo = "UPDATE",
                 q[j].sino = "termina"
          PROVE  \/ <<fila, "UPDATE">> \in r.tiene
                 \/ \E k \in DOMAIN r.resto :
                      k < i /\ r.resto[k].fila = fila /\ r.resto[k].modo = "UPDATE"
                        /\ r.resto[k].sino = "termina"
      <4>1. CASE j = 1
        BY <1>2, <1>10, <3>4, <4>1 DEF nueva
      <4>2. CASE j > 1
        <5>1. j - 1 \in DOMAIN Tail(q) /\ j \in Nat
          BY <1>7, <1>8, <4>2
        <5>2. Tail(q)[j - 1] = q[j] /\ j - 1 < i
          <6>1. Tail(q)[j - 1] = q[(j - 1) + 1]
            BY <1>7, <5>1
          <6> QED BY <3>1, <3>4, <5>1, <6>1
        <5> QED BY <1>10, <3>4, <5>1, <5>2
      <4> QED BY <1>8, <4>1, <4>2
    <3> QED BY <3>2, <3>3, <3>4
  <2>5. ASSUME NEW x \in r.tiene, NEW i \in DOMAIN r.resto
        PROVE  DeAbajo(x, r.resto[i], r.que)
    <3>1. i \in Nat /\ i + 1 \in DOMAIN q /\ r.resto[i] = q[i + 1] /\ 1 < i + 1
      BY <1>7, <1>10
    <3>2. CASE x \in tr[t].tiene
      BY <1>10, <2>1, <3>1, <3>2
    <3>3. CASE x = nueva
      <4> DEFINE z == q[i + 1]
      <4>1. \/ Nivel(s) < Nivel(z)
            \/ Nivel(s) = Ultimo /\ Nivel(z) = Ultimo
            \/ Nivel(s) = 2 /\ Nivel(z) = 2 /\ r.que = "cerrar"
        BY <1>2, <1>10, <2>1, <3>1 DEF Sube
      <4>2. Formado(z)
        BY <2>1, <3>1
      <4>3. Nivel(z) \in Nat /\ Nivel(s) \in Nat /\ NPlatos \in Nat /\ Ultimo = NPlatos + 4
        BY <2>1, <4>2, NivelEs, TrabasAssumption DEF Ultimo
      <4>4. /\ s.fila[1] \in {"restaurante", "pago"} => Nivel(s) = 0
            /\ s.fila[1] = "mesa" => Nivel(s) = 1
            /\ s.fila[1] = "item" =>
                 Nivel(s) = 2 + s.fila[2] /\ Nivel(s) > 2 /\ Nivel(s) < Ultimo - 1
            /\ s.fila[1] = "cola" => Nivel(s) = NPlatos + 3
            /\ s.fila[1] = "pedido" => Nivel(s) = 2 \/ Nivel(s) = Ultimo
        BY <2>1, NivelEs DEF Nivel
      <4>5. x[1] = s.fila
        BY <1>6, <3>3
      <4> HIDE DEF z
      <4>6. DeAbajo(x, z, r.que)
        BY <1>2, <4>1, <4>3, <4>4, <4>5 DEF DeAbajo
      <4> QED BY <3>1, <4>6 DEF z
    <3> QED BY <1>10, <3>2, <3>3
  <2> QED BY <1>10, <2>1, <2>2, <2>3, <2>4, <2>5 DEF Ordenada
<1>15. ASSUME tr[t].que \notin SinOrden PROVE Pendientes(r)
  <2> SUFFICES ASSUME NEW c \in Comandas, NEW i \in DOMAIN r.resto,
                      Pedido(c) \in r.tiene, Nivel(r.resto[i]) < Ultimo
               PROVE  comanda[c] = "PENDIENTE_PAGO"
    BY DEF Pendientes
  <2>1. i \in Nat /\ i + 1 \in DOMAIN q /\ r.resto[i] = q[i + 1] /\ 1 < i + 1
    BY <1>7, <1>10
  <2>2. CASE Pedido(c) \in tr[t].tiene
    BY <1>3, <1>15, <2>1, <2>2 DEF Pendientes, q
  <2>3. CASE Pedido(c) \notin tr[t].tiene
    <3>1. nueva = Pedido(c)
      BY <1>10, <2>3
    <3>2. s.fila = <<"pedido", c>>
      BY <1>6, <3>1, ParEs DEF Pedido, LaFila
    <3>3. s.fila[1] = "pedido" /\ s.fila[2] = c
      BY <3>2, ParEs
    <3>4. \/ Nivel(s) < Nivel(q[i + 1])
          \/ Nivel(s) = Ultimo /\ Nivel(q[i + 1]) = Ultimo
          \/ Nivel(s) = 2 /\ Nivel(q[i + 1]) = 2
      BY <1>2, <1>3, <1>15, <2>1 DEF Sube, Ordenada, q
    <3>5. Formado(s) /\ Formado(q[i + 1])
      BY <1>3, <1>15, <2>1 DEF Ordenada, q
    <3>6. Nivel(s) \in Nat /\ Nivel(q[i + 1]) \in Nat /\ Ultimo \in Nat
      BY <3>5, NivelEs, TrabasAssumption DEF Ultimo
    <3>7. Nivel(s) # Ultimo
      BY <2>1, <3>4, <3>6
    <3>8. s.si = {"PENDIENTE_PAGO"}
      BY <3>3, <3>7 DEF Nivel
    <3>9. Ve(t, c) = "PENDIENTE_PAGO"
      BY <1>1, <3>3, <3>8 DEF Aplica
    <3>10. tr[t].escrito[c] = Igual
      BY <1>2, <2>3 DEF TxBien
    <3> QED BY <3>9, <3>10 DEF Ve
  <2> QED BY <2>2, <2>3
<1> QED BY <1>1, <1>5, <1>10, <1>12, <1>13, <1>14, <1>15, Avanza

LEMMA AlNoAplicar ==
  ASSUME TrabasInv, NEW t \in Transacciones, NoAplicar(t)
  PROVE  TrabasInv'
<1> DEFINE s == Ahora(t)
           q == tr[t].resto
           l == IF s.sino = "termina" THEN <<>> ELSE Tail(q)
           r == [tr[t] EXCEPT !.resto = l]
<1>1. q # <<>> /\ PuedeNoAplicar(t, s) /\ comanda' = comanda
      /\ tr' = [tr EXCEPT ![t].resto = l]
  BY DEF NoAplicar
<1>2. q \in Seq(Sentencias) /\ 1 \in DOMAIN q /\ s = q[1] /\ TxBien(tr[t])
  BY <1>1, AhoraEs
<1>3. tr[t].que \notin SinOrden => Formado(s) /\ Ordenada(tr[t]) /\ Pendientes(tr[t])
  BY <1>1, AhoraEs
<1>4. /\ tr \in [Transacciones -> UnasTransacciones] /\ comanda \in [Comandas -> Estados]
      /\ tr[t] \in UnasTransacciones
  BY DEF TrabasInv, TrabasTipos
<1>7. /\ Tail(q) \in Seq(Sentencias)
      /\ \A i \in DOMAIN Tail(q) :
           i \in Nat /\ i + 1 \in DOMAIN q /\ Tail(q)[i] = q[i + 1] /\ i + 1 > 1
      /\ \A i \in DOMAIN q : i > 1 => i - 1 \in DOMAIN Tail(q)
  BY <1>1, <1>2, SinLaPrimera
<1>8. \A i \in DOMAIN q : i \in Nat /\ i >= 1
  BY <1>2
<1> HIDE DEF s, q
<1>9. /\ l \in Seq(Sentencias)
      /\ \A i \in DOMAIN l :
           /\ i \in Nat /\ i + 1 \in DOMAIN q /\ l[i] = q[i + 1] /\ i + 1 > 1
           /\ s.sino # "termina" /\ l = Tail(q)
  BY <1>7
<1> HIDE DEF l
<1>5. tr' = [tr EXCEPT ![t] = r]
  BY <1>1, <1>4
<1>10. /\ r.que = tr[t].que /\ r.resto = l /\ r.tiene = tr[t].tiene
       /\ r.escrito = tr[t].escrito
       /\ r \in UnasTransacciones
  BY <1>4, <1>9, TxCambiaResto
<1> HIDE DEF r
<1>12. TxBien(r)
  <2>1. \A i \in DOMAIN r.resto : Cabal(r.resto[i])
    BY <1>2, <1>9, <1>10 DEF TxBien, q
  <2> QED BY <1>2, <1>10, <2>1 DEF TxBien
<1>14. ASSUME tr[t].que \notin SinOrden PROVE Ordenada(r)
  <2>1. /\ Formado(s) /\ Sube(q, tr[t].que)
        /\ \A i \in DOMAIN q : Formado(q[i]) /\ (q[i].fila[1] = "cancelar" => tr[t].que = "cerrar")
        /\ \A x \in tr[t].tiene, i \in DOMAIN q : DeAbajo(x, q[i], tr[t].que)
        /\ Tras(tr[t], Ultimo, LaCola)
        /\ tr[t].que = "cerrar" => Tras(tr[t], 2, LaMesa)
    BY <1>3, <1>14 DEF Ordenada, q
  <2>2. Sube(r.resto, r.que)
    <3>1. Sube(Tail(q), r.que)
      BY <1>1, <1>2, <1>10, <2>1, SinLaPrimeraEnFila DEF q
    <3> QED BY <1>9, <1>10, <3>1 DEF Sube
  <2>3. \A i \in DOMAIN r.resto :
          Formado(r.resto[i]) /\ (r.resto[i].fila[1] = "cancelar" => r.que = "cerrar")
    BY <1>9, <1>10, <2>1
  <2>4. ASSUME NEW nivel, NEW fila, Tras(tr[t], nivel, fila) PROVE Tras(r, nivel, fila)
    <3> SUFFICES ASSUME NEW i \in DOMAIN r.resto, Nivel(r.resto[i]) = nivel
                 PROVE  \/ <<fila, "UPDATE">> \in r.tiene
                        \/ \E j \in DOMAIN r.resto :
                             j < i /\ r.resto[j].fila = fila /\ r.resto[j].modo = "UPDATE"
                               /\ r.resto[j].sino = "termina"
      BY DEF Tras
    <3>1. /\ i \in Nat /\ i + 1 \in DOMAIN q /\ r.resto[i] = q[i + 1]
          /\ s.sino # "termina" /\ r.resto = Tail(q)
      BY <1>9, <1>10
    <3>2. \/ <<fila, "UPDATE">> \in tr[t].tiene
          \/ \E j \in DOMAIN q :
               j < i + 1 /\ q[j].fila = fila /\ q[j].modo = "UPDATE" /\ q[j].sino = "termina"
      BY <2>4, <3>1 DEF Tras, q
    <3>3. CASE <<fila, "UPDATE">> \in tr[t].tiene
      BY <1>10, <3>3
    <3>4. ASSUME NEW j \in DOMAIN q, j < i + 1, q[j].fila = fila, q[j].modo = "UPDATE",
                 q[j].sino = "termina"
          PROVE  \E k \in DOMAIN r.resto :
                      k < i /\ r.resto[k].fila = fila /\ r.resto[k].modo = "UPDATE"
                        /\ r.resto[k].sino = "termina"
      <4>1. j > 1
        BY <1>2, <1>8, <3>1, <3>4
      <4>2. j - 1 \in DOMAIN Tail(q) /\ j \in Nat
        BY <1>7, <1>8, <4>1
      <4>3. Tail(q)[j - 1] = q[(j - 1) + 1]
        BY <1>7, <4>2
      <4>4. Tail(q)[j - 1] = q[j] /\ j - 1 < i
        BY <3>1, <3>4, <4>2, <4>3
      <4> QED BY <3>1, <3>4, <4>2, <4>4
    <3> QED BY <3>2, <3>3, <3>4
  <2>5. \A x \in r.tiene, i \in DOMAIN r.resto : DeAbajo(x, r.resto[i], r.que)
    BY <1>9, <1>10, <2>1
  <2> QED BY <1>10, <2>1, <2>2, <2>3, <2>4, <2>5 DEF Ordenada
<1>15. ASSUME tr[t].que \notin SinOrden PROVE Pendientes(r)
  BY <1>3, <1>9, <1>10, <1>15 DEF Pendientes, q
<1> QED BY <1>1, <1>5, <1>10, <1>12, <1>14, <1>15, Avanza

\* The orders of a list.
LEMMA ListaDe ==
  ASSUME TrabasInv, NEW t \in Transacciones, NEW desde \in {"PENDIENTE_PAGO", "RECIBIDO"},
         NEW hacia \in {"CANCELADO", "EN_PREPARACION"}, NEW todas \in BOOLEAN,
         NEW l \in Lista(t, desde, hacia, todas)
  PROVE  /\ l \in Seq(Sentencias)
         /\ \A i \in DOMAIN l :
              /\ Cabal(l[i]) /\ Formado(l[i]) /\ l[i].fila[1] = "pedido"
              /\ Nivel(l[i]) = IF desde = "PENDIENTE_PAGO" THEN 2 ELSE Ultimo
<1>1. PICK x \in SUBSET Comandas :
        \E s \in SetToSeqs(x) :
          l = [i \in DOMAIN s |-> CambiaComanda(s[i], {desde}, hacia, "sigue")]
  BY DEF Lista
<1>2. PICK s \in SetToSeqs(x) :
        l = [i \in DOMAIN s |-> CambiaComanda(s[i], {desde}, hacia, "sigue")]
  BY <1>1
<1>3. Cardinality(x) \in Nat
  <2>1. NComandas \in Nat /\ x \subseteq 1 .. NComandas
    BY TrabasAssumption DEF Comandas
  <2>2. IsFiniteSet(1 .. NComandas)
    BY <2>1, FS_Interval
  <2> QED BY <2>1, <2>2, FS_Subset, FS_CardinalityType
<1>4. s \in [1 .. Cardinality(x) -> x]
  BY DEF SetToSeqs
<1>5. ASSUME NEW i \in 1 .. Cardinality(x)
      PROVE  /\ l[i] \in Sentencias /\ Cabal(l[i]) /\ Formado(l[i]) /\ l[i].fila[1] = "pedido"
             /\ Nivel(l[i]) = IF desde = "PENDIENTE_PAGO" THEN 2 ELSE Ultimo
  <2> DEFINE e == CambiaComanda(s[i], {desde}, hacia, "sigue")
  <2>1. s[i] \in Comandas
    BY <1>4
  <2>2. l[i] = e
    BY <1>2, <1>4
  <2>3. Cabal(e) /\ Formado(e) /\ e \in Sentencias /\ e.fila[1] = "pedido" /\ e.si = {desde}
    BY <2>1, CambiaComandaEs DEF Estados
  <2> HIDE DEF e
  <2>4. Nivel(e) = IF desde = "PENDIENTE_PAGO" THEN 2 ELSE Ultimo
    BY <2>3 DEF Nivel
  <2> QED BY <2>2, <2>3, <2>4
<1>6. l \in [1 .. Cardinality(x) -> Sentencias]
  <2> DEFINE F == [i \in 1 .. Cardinality(x) |-> CambiaComanda(s[i], {desde}, hacia, "sigue")]
  <2>1. l = F
    BY <1>2, <1>4
  <2>2. \A i \in 1 .. Cardinality(x) : F[i] \in Sentencias
    BY <1>5, <2>1
  <2>3. F \in [1 .. Cardinality(x) -> Sentencias]
    BY <2>2
  <2> QED BY <2>1, <2>3
<1>7. l \in Seq(Sentencias) /\ DOMAIN l = 1 .. Cardinality(x)
  BY <1>3, <1>6, ListaEs
<1> QED BY <1>5, <1>7

LEMMA AlListar ==
  ASSUME TrabasInv, NEW t \in Transacciones, Listar(t)
  PROVE  TrabasInv'
<1> DEFINE s == Ahora(t)
           q == tr[t].resto
<1>1. q # <<>> /\ ~EsUnaFila(s) /\ comanda' = comanda
  BY DEF Listar
<1>2. q \in Seq(Sentencias) /\ 1 \in DOMAIN q /\ s = q[1] /\ TxBien(tr[t])
  BY <1>1, AhoraEs
<1>3. tr[t].que \notin SinOrden => Formado(s) /\ Ordenada(tr[t]) /\ Pendientes(tr[t])
  BY <1>1, AhoraEs
<1>4. /\ tr \in [Transacciones -> UnasTransacciones] /\ comanda \in [Comandas -> Estados]
      /\ tr[t] \in UnasTransacciones
  BY DEF TrabasInv, TrabasTipos
<1>5. s.fila[1] \in {"promover", "cancelar"}
  BY <1>1 DEF EsUnaFila
<1> DEFINE nivel == IF s.fila[1] = "promover" THEN Ultimo ELSE 2
<1>6. \E l : /\ l \in Seq(Sentencias)
             /\ \A i \in DOMAIN l :
                  /\ Cabal(l[i]) /\ Formado(l[i]) /\ l[i].fila[1] = "pedido"
                  /\ Nivel(l[i]) = nivel
             /\ tr' = [tr EXCEPT ![t].resto = l]
  <2>1. CASE s.fila[1] = "promover"
    <3>1. PICK l \in Lista(t, "RECIBIDO", "EN_PREPARACION", FALSE) :
            tr' = [tr EXCEPT ![t].resto = l]
      BY <2>1 DEF Listar
    <3> QED BY <2>1, <3>1, ListaDe
  <2>2. CASE s.fila[1] = "cancelar"
    <3>1. PICK l \in Lista(t, "PENDIENTE_PAGO", "CANCELADO", TRUE) :
            tr' = [tr EXCEPT ![t].resto = l]
      BY <2>2 DEF Listar
    <3> QED BY <2>2, <3>1, ListaDe
  <2> QED BY <1>5, <2>1, <2>2
<1>7. PICK l :
        /\ l \in Seq(Sentencias)
        /\ \A i \in DOMAIN l :
             /\ Cabal(l[i]) /\ Formado(l[i]) /\ l[i].fila[1] = "pedido"
             /\ Nivel(l[i]) = nivel
        /\ tr' = [tr EXCEPT ![t].resto = l]
  BY <1>6
<1> DEFINE r == [tr[t] EXCEPT !.resto = l]
<1>8. Ultimo \in Nat /\ Ultimo > 2
  BY TrabasAssumption DEF Ultimo
<1>9. tr[t].que \notin SinOrden => Nivel(s) = nivel /\ (nivel = 2 => tr[t].que = "cerrar")
  <2>1. Nivel(s) = nivel
    BY <1>5 DEF Nivel
  <2>2. nivel = 2 => s.fila[1] = "cancelar"
    BY <1>5, <1>8
  <2> QED BY <1>2, <1>3, <2>1, <2>2 DEF Ordenada
<1> HIDE DEF s, q, nivel
<1>10. /\ r.que = tr[t].que /\ r.resto = l /\ r.tiene = tr[t].tiene
       /\ r.escrito = tr[t].escrito
       /\ r \in UnasTransacciones
  BY <1>4, <1>7, TxCambiaResto
<1>11. tr' = [tr EXCEPT ![t] = r]
  BY <1>4, <1>7
<1> HIDE DEF r
<1>12. TxBien(r)
  BY <1>2, <1>7, <1>10 DEF TxBien
<1>13. ASSUME tr[t].que \notin SinOrden PROVE Ordenada(r)
  <2>1. nivel = Ultimo \/ (nivel = 2 /\ tr[t].que = "cerrar")
    BY <1>9, <1>13 DEF nivel
  <2>2. /\ \A x \in tr[t].tiene : DeAbajo(x, q[1], tr[t].que)
        /\ Tras(tr[t], Ultimo, LaCola)
        /\ tr[t].que = "cerrar" => Tras(tr[t], 2, LaMesa)
    BY <1>2, <1>3, <1>13 DEF Ordenada, q
  <2>3. Sube(r.resto, r.que)
    BY <1>7, <1>10, <2>1 DEF Sube
  <2>4. \A i \in DOMAIN r.resto :
          Formado(r.resto[i]) /\ (r.resto[i].fila[1] = "cancelar" => r.que = "cerrar")
    BY <1>7, <1>10
  <2>5. ASSUME NEW n, NEW fila, Tras(tr[t], n, fila) PROVE Tras(r, n, fila)
    <3> SUFFICES ASSUME n = nivel PROVE <<fila, "UPDATE">> \in r.tiene
      BY <1>7, <1>10 DEF Tras
    <3>1. Nivel(q[1]) = n
      BY <1>2, <1>9, <1>13
    <3>2. \A j \in DOMAIN q : ~(j < 1)
      BY <1>2
    <3> QED BY <1>2, <1>10, <2>5, <3>1, <3>2 DEF Tras, q
  <2>6. ASSUME NEW x \in r.tiene, NEW i \in DOMAIN r.resto
        PROVE  DeAbajo(x, r.resto[i], r.que)
    <3>1. DeAbajo(x, q[1], r.que)
      BY <1>10, <2>2
    <3>2. Nivel(q[1]) = Nivel(r.resto[i])
      BY <1>2, <1>7, <1>9, <1>10, <1>13
    <3> QED BY <3>1, <3>2 DEF DeAbajo
  <2> QED BY <1>10, <2>2, <2>3, <2>4, <2>5, <2>6 DEF Ordenada
<1>14. ASSUME tr[t].que \notin SinOrden PROVE Pendientes(r)
  <2> SUFFICES ASSUME NEW c \in Comandas, NEW i \in DOMAIN r.resto,
                      Pedido(c) \in r.tiene, Nivel(r.resto[i]) < Ultimo
               PROVE  comanda[c] = "PENDIENTE_PAGO"
    BY DEF Pendientes
  <2>1. Nivel(q[1]) < Ultimo
    BY <1>2, <1>7, <1>9, <1>10, <1>14
  <2> QED BY <1>2, <1>3, <1>10, <1>14, <2>1 DEF Pendientes, q
<1> QED BY <1>1, <1>10, <1>11, <1>12, <1>13, <1>14, Avanza

LEMMA AlConfirmar ==
  ASSUME TrabasInv, NEW t \in Transacciones, Confirma(t)
  PROVE  TrabasInv'
<1> DEFINE r == Una("terminada", <<>>)
<1>1. /\ comanda \in [Comandas -> Estados] /\ tr \in [Transacciones -> UnasTransacciones]
      /\ \A u \in Transacciones : TxBien(tr[u])
      /\ Exclusivas
      /\ \A u \in Transacciones :
           tr[u].que \notin SinOrden => Ordenada(tr[u]) /\ Pendientes(tr[u])
  BY DEF TrabasInv, TrabasTipos
<1>2. TxBien(r) /\ Ordenada(r) /\ Pendientes(r) /\ r.tiene = {} /\ r.resto = <<>>
  <2>1. TxBien(r) /\ Ordenada(r) /\ Pendientes(r) /\ r.tiene = {}
    BY Terminada DEF Clases
  <2>2. r.resto = <<>>
    BY UnaEs
  <2> QED BY <2>1, <2>2
<1> HIDE DEF r
<1>3. /\ tr' = [tr EXCEPT ![t] = r] /\ comanda' = [c \in Comandas |-> Ve(t, c)]
  BY DEF Confirma, r
<1>4. /\ \A u \in Transacciones : tr'[u] = IF u = t THEN r ELSE tr[u]
      /\ r \in UnasTransacciones
      /\ tr' \in [Transacciones -> UnasTransacciones]
  BY <1>1, <1>2, <1>3 DEF TxBien
<1>5. comanda' \in [Comandas -> Estados]
  <2>1. tr[t].escrito \in [Comandas -> Estados \cup {Igual}]
    BY <1>1 DEF UnasTransacciones
  <2>2. \A c \in Comandas : Ve(t, c) \in Estados
    BY <1>1, <2>1 DEF Ve
  <2> QED BY <1>3, <2>2
<1>6. TrabasTipos'
  BY <1>1, <1>2, <1>4, <1>5 DEF TrabasTipos
<1>7. Exclusivas'
  BY <1>1, <1>2, <1>4 DEF Exclusivas
<1>8. ASSUME NEW u \in Transacciones, tr'[u].que \notin SinOrden
      PROVE  Ordenada(tr'[u]) /\ Pendientes(tr[u])'
  <2>1. CASE u = t
    BY <1>2, <1>4, <2>1 DEF Pendientes
  <2>2. CASE u # t
    <3>1. tr'[u] = tr[u] /\ Ordenada(tr[u]) /\ Pendientes(tr[u])
      BY <1>1, <1>4, <1>8, <2>2
    <3>2. ASSUME NEW c \in Comandas, Pedido(c) \in tr[u].tiene
          PROVE  comanda'[c] = comanda[c]
      <4>1. Pedido(c) \notin tr[t].tiene
        BY <2>2, <3>2, PedidoDeUna DEF Pedido
      <4>2. tr[t].escrito[c] = Igual
        BY <1>1, <4>1 DEF TxBien
      <4> QED BY <1>3, <4>2 DEF Ve
    <3> QED BY <3>1, <3>2 DEF Pendientes
  <2> QED BY <2>1, <2>2
<1> QED BY <1>6, <1>7, <1>8 DEF TrabasInv

LEMMA TrabasSigue == TrabasInv /\ [TrabasNext]_trabasVars => TrabasInv'
<1> SUFFICES ASSUME TrabasInv, [TrabasNext]_trabasVars PROVE TrabasInv'
  OBVIOUS
<1>1. CASE TrabasNext
  BY <1>1, AlEmpezarTx, AlEjecutar, AlNoAplicar, AlListar, AlConfirmar, AlAbortar DEF TrabasNext
<1>2. CASE UNCHANGED trabasVars
  <2>1. comanda' = comanda /\ tr' = tr
    BY <1>2 DEF trabasVars
  <2> QED BY <2>1 DEF TrabasInv, TrabasTipos, Exclusivas, Pendientes
<1> QED BY <1>1, <1>2

\* Whoever is waited for, and waits, is further on.
LEMMA EsperaSube ==
  ASSUME TrabasInv, NEW t \in Transacciones, NEW u \in Transacciones,
         tr[t].que \notin SinOrden, tr[u].que \notin SinOrden,
         Espera(t, u), tr[u].resto # <<>>
  PROVE  \/ Nivel(Ahora(t)) < Nivel(Ahora(u))
         \/ Nivel(Ahora(t)) = Nivel(Ahora(u)) /\ tr[t].que # "cerrar" /\ tr[u].que = "cerrar"
<1> DEFINE s == Ahora(t)
           z == Ahora(u)
<1>1. tr[t].resto # <<>> /\ EsUnaFila(s) /\ Aplica(t, s) /\ Ocupada(t, s, u)
  BY DEF Espera
<1>2. /\ 1 \in DOMAIN tr[t].resto /\ s = tr[t].resto[1] /\ Formado(s) /\ Ordenada(tr[t])
      /\ s.fila = <<s.fila[1], s.fila[2]>>
      /\ s.fila[1] \in DeUna \cup {"promover", "cancelar"} /\ s.fila[2] \in Nat
      /\ TxBien(tr[t]) /\ tr[t].resto \in Seq(Sentencias)
  BY <1>1, AhoraEs
<1>3. /\ 1 \in DOMAIN tr[u].resto /\ z = tr[u].resto[1] /\ Formado(z) /\ Ordenada(tr[u])
      /\ Pendientes(tr[u]) /\ TxBien(tr[u]) /\ tr[u].resto \in Seq(Sentencias)
  BY AhoraEs
<1> HIDE DEF s, z
<1>4. u # t /\ \E x \in tr[u].tiene : x[1] = s.fila
  BY <1>1 DEF Ocupada
<1>5. PICK x \in tr[u].tiene : x[1] = s.fila
  BY <1>4
<1>6. DeAbajo(x, z, tr[u].que)
  BY <1>3, <1>5 DEF Ordenada
<1>7. /\ Nivel(z) \in Nat /\ Nivel(s) \in Nat /\ Nivel(z) <= Ultimo
      /\ NPlatos \in Nat /\ Ultimo = NPlatos + 4
  BY <1>2, <1>3, NivelEs, TrabasAssumption DEF Ultimo
<1>8. s.fila[1] \in DeUna
  BY <1>1, <1>2 DEF EsUnaFila
<1>9. CASE s.fila[1] # "pedido"
  <2>1. /\ s.fila[1] \in {"restaurante", "pago"} => Nivel(s) = 0
        /\ s.fila[1] = "mesa" => Nivel(s) = 1
        /\ s.fila[1] = "item" => Nivel(s) = 2 + s.fila[2]
        /\ s.fila[1] = "cola" => Nivel(s) = NPlatos + 3
    BY DEF Nivel
  <2>2. Nivel(s) < Nivel(z)
    BY <1>5, <1>6, <1>7, <1>8, <1>9, <2>1 DEF DeAbajo, DeUna
  <2> QED BY <2>2 DEF s, z
<1>10. CASE s.fila[1] = "pedido"
  <2>1. Nivel(s) = 2 \/ Nivel(s) = Ultimo
    BY <1>2, <1>10, NivelEs
  <2>2. 2 < Nivel(z) \/ (Nivel(z) = 2 /\ tr[u].que = "cerrar")
    BY <1>5, <1>6, <1>10 DEF DeAbajo
  <2>3. \A j \in DOMAIN tr[t].resto : ~(j < 1)
    BY <1>2
  <2>4. \A j \in DOMAIN tr[u].resto : ~(j < 1)
    BY <1>3
  <2>5. CASE Nivel(s) = 2
    <3>1. CASE 2 < Nivel(z)
      BY <2>5, <3>1 DEF s, z
    <3>2. CASE Nivel(z) = 2 /\ tr[u].que = "cerrar"
      <4>1. <<LaMesa, "UPDATE">> \in tr[u].tiene
        BY <1>3, <2>4, <3>2 DEF Ordenada, Tras
      <4>2. tr[t].que = "cerrar" => <<LaMesa, "UPDATE">> \in tr[t].tiene
        BY <1>2, <2>3, <2>5 DEF Ordenada, Tras
      <4>3. tr[t].que # "cerrar"
        BY <1>4, <4>1, <4>2, PedidoDeUna
      <4> QED BY <2>5, <3>2, <4>3 DEF s, z
    <3> QED BY <2>2, <3>1, <3>2
  <2>6. CASE Nivel(s) = Ultimo
    <3> DEFINE c == s.fila[2]
    <3>1. s.si = {"RECIBIDO"} /\ c \in Comandas
      <4>1. s.si \in {{"PENDIENTE_PAGO"}, {"RECIBIDO"}} /\ c \in Comandas
        BY <1>2, <1>10 DEF Formado, Cabal
      <4>2. s.si # {"PENDIENTE_PAGO"}
        BY <1>7, <1>10, <2>6 DEF Nivel
      <4> QED BY <4>1, <4>2
    <3>2. <<LaCola, "UPDATE">> \in tr[t].tiene
      BY <1>2, <2>3, <2>6 DEF Ordenada, Tras
    <3>3. <<LaCola, "UPDATE">> \notin tr[u].tiene
      BY <1>4, <3>2, PedidoDeUna
    <3>4. Nivel(z) # Ultimo
      BY <1>3, <2>4, <3>3 DEF Ordenada, Tras
    <3>5. Pedido(c) \in tr[u].tiene
      <4>1. x[2] = "UPDATE" /\ x \in FilasBD \X Modos
        BY <1>3, <1>5, <1>10 DEF TxBien, UnasTransacciones
      <4>2. x = <<s.fila, "UPDATE">>
        BY <1>5, <4>1
      <4>3. s.fila = <<"pedido", c>>
        BY <1>2, <1>10
      <4> QED BY <4>2, <4>3 DEF Pedido, LaFila
    <3>6. Pedido(c) \notin tr[t].tiene
      BY <1>4, <3>5, PedidoDeUna DEF Pedido
    <3>7. Ve(t, c) = "RECIBIDO"
      BY <1>1, <1>10, <3>1 DEF Aplica
    <3>8. comanda[c] = "RECIBIDO"
      BY <1>2, <3>1, <3>6, <3>7 DEF TxBien, Ve
    <3>9. comanda[c] = "PENDIENTE_PAGO"
      BY <1>3, <1>7, <3>1, <3>4, <3>5 DEF Pendientes
    <3> QED BY <3>8, <3>9
  <2> QED BY <2>1, <2>5, <2>6
<1> QED BY <1>9, <1>10

LEMMA SinCirculo == TrabasInv => CobrosNoSeTraban
<1> SUFFICES ASSUME TrabasInv,
                    NEW ts \in SUBSET {t \in Transacciones : tr[t].que \notin SinOrden},
                    ts # {}, EnCirculo(ts)
             PROVE  FALSE
  BY DEF CobrosNoSeTraban
<1> DEFINE R(t) == 2 * Nivel(Ahora(t)) + (IF tr[t].que = "cerrar" THEN 1 ELSE 0)
           N == {R(t) : t \in ts}
<1>1. \A t \in ts : t \in Transacciones /\ tr[t].que \notin SinOrden /\ tr[t].resto # <<>>
  BY DEF EnCirculo, Espera
<1>2. \A t \in ts : Nivel(Ahora(t)) \in Nat /\ Nivel(Ahora(t)) <= Ultimo
  BY <1>1, AhoraEs, NivelEs
<1>3. \A t \in ts : R(t) \in Nat /\ R(t) <= 2 * Ultimo + 1
  BY <1>2, TrabasAssumption DEF Ultimo
<1>4. ASSUME NEW t \in ts PROVE \E u \in ts : R(t) < R(u)
  <2>1. PICK u \in ts : Espera(t, u)
    BY DEF EnCirculo
  <2>2. \/ Nivel(Ahora(t)) < Nivel(Ahora(u))
        \/ Nivel(Ahora(t)) = Nivel(Ahora(u)) /\ tr[t].que # "cerrar" /\ tr[u].que = "cerrar"
    BY <1>1, <2>1, EsperaSube
  <2> QED BY <1>2, <2>2
<1> HIDE DEF R
<1>5. N \subseteq Nat /\ N # {} /\ \A x \in N : x <= 2 * Ultimo + 1
  BY <1>3
<1>6. 2 * Ultimo + 1 \in Nat
  BY TrabasAssumption DEF Ultimo
<1>7. \E x \in N : \A y \in N : y <= x
  <2> HIDE DEF N
  <2> QED BY <1>5, <1>6, Maximo
<1>8. PICK t \in ts : \A u \in ts : R(u) <= R(t)
  BY <1>7
<1>9. PICK u \in ts : R(t) < R(u)
  BY <1>4
<1> QED BY <1>3, <1>8, <1>9

\* The inductive invariant of the locks: two transactions never have the same
\* row with locks that exclude each other; what a transaction writes, it has; and
\* but for the kinds that take them in an order of their own, it asks only for
\* rows of higher levels than those that it has.
THEOREM TrabasSpecInv == TrabasSpec => []TrabasInv
BY TrabasAlEmpezar, TrabasSigue, PTL DEF TrabasSpec

\* In every circle of transactions that wait for each other there is one that
\* reserves with a receptor, orders, adjusts the stock or moves an order by hand:
\* charges, their answers, expiries, cash, closes and the configuration take
\* the payment, the table, the order, the items by their ids, the queue and what
\* it promotes in this order, so each one that waits is below the one that it
\* waits for.  Over an order that nobody paid a close is above a charge; two
\* closes, or two that promote, exclude each other before, by the table or the
\* queue.  For any number of transactions, orders and items.
THEOREM CobrosSinTrabas == TrabasSpec => []CobrosNoSeTraban
<1>1. TrabasInv => CobrosNoSeTraban
  BY SinCirculo
<1> QED BY <1>1, TrabasSpecInv, PTL

=============================================================================
