-------------------------------- MODULE Carta --------------------------------
(***************************************************************************)
(* The menu of a restaurant as its administrators edit it.  Each one has a *)
(* page that shows what it last loaded; its form sends back the version    *)
(* (updatedAt) of the item that it shows, and the save is refused if the   *)
(* row has another one.  Transactions are READ COMMITTED: others commit    *)
(* between the checks of one and its write.                                *)
(*                                                                         *)
(* The content of an item is the number of the edit that wrote it, and the *)
(* page that made it.  The order of the menu is left out, and so is the    *)
(* edit of a category, which has a version in the same way.  Versions are  *)
(* times in milliseconds: two writes in the same one are left out too.     *)
(***************************************************************************)
EXTENDS Naturals

CONSTANTS
  Platos,          \* items of the menu
  PorCrear,        \* the ones that are still to be created
  Secciones,       \* its categories
  Primera,         \* the category where the items are
  Paginas,         \* pages of administrators
  Escrituras,      \* writes that put an item in a category, at once
  NoHay,
  MaxEscritos,     \* bound: writes of an item
  MaxBajasSeccion, \* bound: categories archived or deleted
  MaxCargasPagina  \* bound: loads of the pages

ASSUME CartaAssumption ==
  /\ NoHay \notin Platos \cup Secciones
  /\ Primera \in Secciones
  /\ PorCrear \subseteq Platos
  /\ MaxEscritos \in Nat /\ MaxBajasSeccion \in Nat /\ MaxCargasPagina \in Nat

VARIABLES
  plato,      \* [Platos -> row of item_carta]
  seccion,    \* [Secciones -> "activa", "archivada" or "eliminada"]
  escritura,  \* [Escrituras -> like SinEscritura]
  archivando, \* categories whose transaction found them without active items
  lista,      \* [Paginas -> [Platos -> Ficha]], what the page shows
  carga,      \* [Paginas -> like SinCarga: a list on its way]
  cambio,     \* [Paginas -> answer of its switch on its way]
  formulario, \* [Paginas -> like SinFormulario]
  pisado,     \* history: versions with which a form wrote over an edit
  cruzadas,   \* history: categories archived while something came in
  cartaUsado  \* how much of each bound is used

rowVars == <<plato, seccion, escritura, archivando, cruzadas>>
paginaVars == <<lista, carga, cambio, formulario>>
cartaVars == <<rowVars, paginaVars, pisado, cartaUsado>>

-----------------------------------------------------------------------------
(* State *)

SinEscritura == [que |-> "nada", plato |-> NoHay, en |-> NoHay]

\* propia: the version came with the content, and not from a switch.
Ficha(contenido, version, propia) ==
  [contenido |-> contenido, version |-> version, propia |-> propia]

SinFormulario == [fase |-> "cerrado", plato |-> NoHay, ficha |-> NoHay]

SinCarga == [fase |-> "nada", lista |-> NoHay]

Pedida == [fase |-> "pedida", lista |-> NoHay]

SinCambio == [plato |-> NoHay, version |-> 0]

EnLaCarta(i) == plato[i].estado \in {"activo", "archivado"}

Activos(s) == {i \in Platos : plato[i].estado = "activo" /\ plato[i].en = s}

\* findAllCategorias
Mostrados ==
  [i \in Platos |-> IF plato[i].estado = "activo"
                      THEN Ficha(plato[i].contenido, plato[i].version, TRUE)
                      ELSE NoHay]

CartaInit ==
  /\ plato = [i \in Platos |->
       [estado |-> IF i \in PorCrear THEN "nuevo" ELSE "activo",
        en |-> IF i \in PorCrear THEN NoHay ELSE Primera,
        contenido |-> <<0, NoHay>>, version |-> 0]]
  /\ seccion = [s \in Secciones |-> "activa"]
  /\ escritura = [x \in Escrituras |-> SinEscritura]
  /\ archivando = {}
  /\ lista = [p \in Paginas |-> [i \in Platos |-> NoHay]]
  /\ carga = [p \in Paginas |-> SinCarga]
  /\ cambio = [p \in Paginas |-> SinCambio]
  /\ formulario = [p \in Paginas |-> SinFormulario]
  /\ pisado = {}
  /\ cruzadas = {}
  /\ cartaUsado = [escritos |-> 0, bajas |-> 0, cargas |-> 0]

Usar(que, maximo) ==
  /\ cartaUsado[que] < maximo
  /\ cartaUsado' = [cartaUsado EXCEPT ![que] = @ + 1]

UnEscrito == Usar("escritos", MaxEscritos)

\* The row with a new version, as Prisma writes it.
Con(i, cambios) == [plato EXCEPT ![i] = [cambios EXCEPT !.version = @ + 1]]

-----------------------------------------------------------------------------
(* Items that come into a category *)

\* The writes that are about an item.
EscriturasDe(i) == {o \in Escrituras : escritura[o].plato = i}

\* The category is read, and found active.
EmpezarEscritura(x, i, s) ==
  /\ escritura[x].que = "nada"
  /\ seccion[s] = "activa"
  /\ \E que \in {"crear", "restaurar", "mover"} :
       /\ \/ que = "crear" /\ plato[i].estado = "nuevo"
               /\ EscriturasDe(i) = {}
          \/ que = "restaurar" /\ plato[i].estado = "archivado" /\ plato[i].en = s
          \/ que = "mover" /\ plato[i].estado = "activo" /\ plato[i].en # s
       /\ escritura' = [escritura EXCEPT ![x] = [que |-> que, plato |-> i, en |-> s]]
  /\ cruzadas' = cruzadas \cup ({s} \cap archivando)
       \cup IF EscriturasDe(i) = {} THEN {} ELSE {s} \cup {escritura[o].en : o \in EscriturasDe(i)}
  /\ UNCHANGED <<plato, seccion, archivando, paginaVars, pisado, cartaUsado>>

\* Only an item that is new names its category; the others keep their state.
TerminarEscritura(x) ==
  LET i == escritura[x].plato
      s == escritura[x].en
  IN  /\ escritura[x].que # "nada"
      /\ plato[i].estado # "eliminado" /\ seccion[s] # "eliminada"
      /\ UnEscrito
      /\ \/ escritura[x].que = "crear"
              /\ plato' = Con(i, [plato[i] EXCEPT !.estado = "activo", !.en = s])
         \/ escritura[x].que = "restaurar"
              /\ plato' = Con(i, [plato[i] EXCEPT !.estado = "activo"])
         \/ escritura[x].que = "mover" /\ plato' = Con(i, [plato[i] EXCEPT !.en = s])
      /\ escritura' = [escritura EXCEPT ![x] = SinEscritura]
      /\ UNCHANGED <<seccion, archivando, paginaVars, pisado, cruzadas>>

\* The name is taken, or what it needs is gone.
AbortarEscritura(x) ==
  /\ escritura[x].que # "nada"
  /\ escritura' = [escritura EXCEPT ![x] = SinEscritura]
  /\ UNCHANGED <<plato, seccion, archivando, paginaVars, pisado, cruzadas, cartaUsado>>

-----------------------------------------------------------------------------
(* Categories *)

\* Seeded defect: the items are not counted.
SinContar(s) == TRUE

SinActivos(s) == Activos(s) = {}

\* archivarCategoria, up to its count.
ContarActivos(s) ==
  /\ s \notin archivando
  /\ seccion[s] = "activa"
  /\ SinActivos(s)
  /\ Usar("bajas", MaxBajasSeccion)
  /\ archivando' = archivando \cup {s}
  /\ cruzadas' = IF \E x \in Escrituras : escritura[x].en = s
                   THEN cruzadas \cup {s} ELSE cruzadas
  /\ UNCHANGED <<plato, seccion, escritura, paginaVars, pisado>>

\* Its write; or it is rolled back.
ArchivarSeccion(s) ==
  /\ s \in archivando
  /\ archivando' = archivando \ {s}
  /\ \/ seccion[s] # "eliminada" /\ seccion' = [seccion EXCEPT ![s] = "archivada"]
     \/ UNCHANGED seccion
  /\ UNCHANGED <<plato, escritura, paginaVars, pisado, cruzadas, cartaUsado>>

RestaurarSeccion(s) ==
  /\ seccion[s] = "archivada"
  /\ seccion' = [seccion EXCEPT ![s] = "activa"]
  /\ UNCHANGED <<plato, escritura, archivando, paginaVars, pisado, cruzadas, cartaUsado>>

\* The foreign key makes of the count and the delete one step.
EliminarSeccion(s) ==
  /\ seccion[s] # "eliminada"
  /\ \A i \in Platos : EnLaCarta(i) => plato[i].en # s
  /\ Usar("bajas", MaxBajasSeccion)
  /\ seccion' = [seccion EXCEPT ![s] = "eliminada"]
  /\ UNCHANGED <<plato, escritura, archivando, paginaVars, pisado, cruzadas>>

-----------------------------------------------------------------------------
(* Items *)

\* menu:item:retirado: the pages take it from their lists.
Retirar(i) == lista' = [p \in Paginas |-> [lista[p] EXCEPT ![i] = NoHay]]

ArchivarPlato(i) ==
  /\ plato[i].estado = "activo"
  /\ UnEscrito
  /\ plato' = Con(i, [plato[i] EXCEPT !.estado = "archivado"])
  /\ Retirar(i)
  /\ UNCHANGED <<seccion, escritura, archivando, carga, cambio, formulario,
                 pisado, cruzadas>>

\* One that was ordered is not deleted.
EliminarPlato(i) ==
  /\ EnLaCarta(i)
  /\ plato' = [plato EXCEPT ![i].estado = "eliminado"]
  /\ Retirar(i)
  /\ UNCHANGED <<seccion, escritura, archivando, carga, cambio, formulario,
                 pisado, cruzadas, cartaUsado>>

\* A payment or an adjustment of the stock, or the order of its category.
OtroEscribe(i) ==
  /\ EnLaCarta(i)
  /\ UnEscrito
  /\ plato' = Con(i, plato[i])
  /\ UNCHANGED <<seccion, escritura, archivando, paginaVars, pisado, cruzadas>>

-----------------------------------------------------------------------------
(* A page *)

\* cargarDatos, when the page opens, reconnects, or is told of a new order.
PedirCarga(p) ==
  /\ carga[p].fase = "nada"
  /\ Usar("cargas", MaxCargasPagina)
  /\ carga' = [carga EXCEPT ![p] = Pedida]
  /\ UNCHANGED <<rowVars, lista, cambio, formulario, pisado>>

LeerCarga(p) ==
  /\ carga[p].fase = "pedida"
  /\ carga' = [carga EXCEPT ![p] = [fase |-> "leida", lista |-> Mostrados]]
  /\ UNCHANGED <<rowVars, lista, cambio, formulario, pisado, cartaUsado>>

\* It is shown, unless the answer is lost.
RecibirCarga(p) ==
  /\ carga[p].fase = "leida"
  /\ carga' = [carga EXCEPT ![p] = SinCarga]
  /\ \/ lista' = [lista EXCEPT ![p] = carga[p].lista]
     \/ UNCHANGED lista
  /\ UNCHANGED <<rowVars, cambio, formulario, pisado, cartaUsado>>

\* The switch of an item that the page shows: it sends no version.
CambiarDisponibilidad(p, i) ==
  /\ cambio[p] = SinCambio
  /\ lista[p][i] # NoHay
  /\ plato[i].estado = "activo"
  /\ UnEscrito
  /\ plato' = Con(i, plato[i])
  /\ cambio' = [cambio EXCEPT ![p] = [plato |-> i, version |-> plato'[i].version]]
  /\ UNCHANGED <<seccion, escritura, archivando, lista, carga, formulario,
                 pisado, cruzadas>>

\* conVersionItem: of the answer, the page takes the version only.
RecibirCambio(p) ==
  LET i == cambio[p].plato
  IN  /\ cambio[p] # SinCambio
      /\ cambio' = [cambio EXCEPT ![p] = SinCambio]
      /\ \/ /\ lista[p][i] # NoHay
            /\ lista' = [lista EXCEPT ![p][i] =
                 Ficha(@.contenido, cambio[p].version, FALSE)]
         \/ UNCHANGED lista
      /\ UNCHANGED <<rowVars, carga, formulario, pisado, cartaUsado>>

AbrirFormulario(p, i) ==
  /\ formulario[p].fase = "cerrado"
  /\ lista[p][i] # NoHay
  /\ formulario' = [formulario EXCEPT ![p] =
       [fase |-> "abierto", plato |-> i, ficha |-> lista[p][i]]]
  /\ UNCHANGED <<rowVars, lista, carga, cambio, pisado, cartaUsado>>

CerrarFormulario(p) ==
  /\ formulario[p].fase = "abierto"
  /\ formulario' = [formulario EXCEPT ![p] = SinFormulario]
  /\ UNCHANGED <<rowVars, lista, carga, cambio, pisado, cartaUsado>>

\* updateItem reads the row, with verificarVersion: it goes on, or answers 409.
LeerPlato(p) ==
  LET f == formulario[p]
  IN  /\ f.fase = "abierto"
      /\ plato[f.plato].estado = "activo"
      /\ plato[f.plato].version = f.ficha.version
      /\ formulario' = [formulario EXCEPT ![p].fase = "leido"]
      /\ UNCHANGED <<rowVars, lista, carga, cambio, pisado, cartaUsado>>

\* Seeded defect: the version is checked by the read alone.
EsDeQuienLaLeyo(i, f) == plato[i].estado # "eliminado"

\* The WHERE of its UPDATE.
EsLaDelFormulario(i, f) ==
  plato[i].estado # "eliminado" /\ plato[i].version = f.ficha.version

\* The UPDATE, of every field of the form.  The page then loads the menu.
GuardarPlato(p) ==
  LET f == formulario[p]
      i == f.plato
  IN  /\ f.fase = "leido"
      /\ formulario' = [formulario EXCEPT ![p] = SinFormulario]
      /\ \/ /\ EsLaDelFormulario(i, f)
            /\ UnEscrito
            /\ plato' = Con(i, [plato[i] EXCEPT
                 !.contenido = <<cartaUsado'.escritos, p>>])
            /\ pisado' = IF plato[i].contenido \in {f.ficha.contenido} \cup (Nat \X {p})
                         THEN pisado
                         ELSE pisado \cup {IF f.ficha.propia THEN "cargada" ELSE "switch"}
            /\ carga' = [carga EXCEPT ![p] = Pedida]
         \/ UNCHANGED <<plato, pisado, cartaUsado, carga>>  \* P2025, or it fails
      /\ UNCHANGED <<seccion, escritura, archivando, cruzadas, lista, cambio>>

CartaNext ==
  \/ \E x \in Escrituras :
       \/ \E i \in Platos, s \in Secciones : EmpezarEscritura(x, i, s)
       \/ TerminarEscritura(x) \/ AbortarEscritura(x)
  \/ \E s \in Secciones :
       \/ ContarActivos(s) \/ ArchivarSeccion(s)
       \/ RestaurarSeccion(s) \/ EliminarSeccion(s)
  \/ \E i \in Platos : ArchivarPlato(i) \/ EliminarPlato(i) \/ OtroEscribe(i)
  \/ \E p \in Paginas :
       \/ PedirCarga(p) \/ LeerCarga(p) \/ RecibirCarga(p) \/ RecibirCambio(p)
       \/ CerrarFormulario(p) \/ LeerPlato(p) \/ GuardarPlato(p)
       \/ \E i \in Platos : CambiarDisponibilidad(p, i) \/ AbrirFormulario(p, i)

CartaSpec == CartaInit /\ [][CartaNext]_cartaVars

-----------------------------------------------------------------------------
(* Properties *)

\* A form whose version came with what it shows never writes over what another
\* one wrote meanwhile, between its read and its write too («409 sin pisar sus
\* cambios», menu-admin.service.ts:146).
EdicionSinPisar == "cargada" \notin pisado

\* The same of every form, as the comment says it.  A switch breaks it: the
\* page takes the new version of the row, and keeps the content it had.
EdicionNuncaPisa == pisado = {}

\* An archived category has no active item, unless one came in during the
\* transaction that archived it, or two of them were about the same item
\* («Archivalos o movelos a otra categoría antes de archivarla»,
\* menu-admin.service.ts:89).
ArchivadaSinActivos ==
  \A s \in Secciones \ cruzadas : seccion[s] = "archivada" => Activos(s) = {}

=============================================================================
