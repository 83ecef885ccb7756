-------------------------------- MODULE Mapa --------------------------------
(***************************************************************************)
(* The map of the tables: administrators add, number and remove tables on  *)
(* their pages, and save the whole map in one request, while the waiters   *)
(* open the tables and the diners order.  A page goes on being edited      *)
(* while its save is on its way, and the answer may be lost.               *)
(*                                                                         *)
(* A save writes the plan of the restaurant first, so the row of the       *)
(* restaurant is its lock: the saves are one after the other, but whoever  *)
(* opens a table or orders does not wait for it.  Positions, zones and     *)
(* fixed elements are left out: they are written over as they come.        *)
(***************************************************************************)
EXTENDS Orden

CONSTANTS
  Filas,      \* ids that the database gives to tables
  DeAntes,    \* the ones that are there at the beginning, numbered from 1
  Nuevas,     \* ids that the pages give to the tables that they add
  Numeros,    \* numbers that are typed
  Editores,   \* pages of administrators
  SinId,
  MaxEdiciones,      \* bound: edits of all the pages
  MaxPercancesMapa,  \* bound: failures and lost answers
  MaxAperturas       \* bound: openings of tables and orders

ASSUME MapaAssumption ==
  /\ Numeros \subseteq Nat /\ Nuevas \cap Filas = {}
  /\ DeAntes \in Seq(Filas) /\ IsInjective(DeAntes)
  /\ SinId \notin Filas \cup Nuevas \cup Editores
  /\ MaxEdiciones \in Nat /\ MaxPercancesMapa \in Nat /\ MaxAperturas \in Nat

VARIABLES
  filaMesa,        \* [Filas -> row of a table, like NoExiste]
  plano,       \* the save that has the row of the restaurant, or SinId
  editor,      \* [Editores -> like PaginaVacia]
  agregadas,   \* the ids of Nuevas that were given
  huerfanas,   \* history: tables deleted whose session was open before the check
  entremedio,  \* history: tables opened between that check and the delete
  dudosas,     \* history: new tables saved by a request whose answer was lost
  repetidas,   \* history: tables given another number after that, or during a save
  gastado      \* how much of each bound is used

salaVars == <<filaMesa, plano, huerfanas, entremedio>>
mapaVars == <<salaVars, editor, agregadas, dudosas, repetidas, gastado>>

-----------------------------------------------------------------------------
(* State *)

\* de: history, the id that the page had given to it.
NoExiste ==
  [existe |-> FALSE, numero |-> 0, estado |-> "LIBRE", pedidos |-> FALSE, de |-> SinId]

MesaNueva(n, de) == [NoExiste EXCEPT !.existe = TRUE, !.numero = n, !.de = de]

\* eliminadas: the ones that were removed when the save was asked for.
SinGuardado == [fase |-> "no", mesas |-> <<>>, eliminadas |-> <<>>]

\* mesas, eliminadas: tables [cid, id, numero, estado].  ultima: what «Deshacer»
\* would put back, and where.  cargadas: history, what the last load brought.
\* toco: history, something was removed or put back while a save was on its way,
\* or the map was loaded again meanwhile, or with removed tables to be saved.
PaginaVacia ==
  [fase |-> "cargando", mesas |-> <<>>, eliminadas |-> <<>>, ultima |-> <<>>, foto |-> {},
   guardado |-> SinGuardado, cargadas |-> {}, toco |-> FALSE]

MapaInit ==
  /\ filaMesa = [f \in Filas |->
       IF Contains(DeAntes, f)
       THEN MesaNueva(SelectInSeq(DeAntes, LAMBDA x : x = f), SinId)
       ELSE NoExiste]
  /\ plano = SinId
  /\ editor = [a \in Editores |-> PaginaVacia]
  /\ agregadas = {} /\ huerfanas = {} /\ entremedio = {} /\ dudosas = {} /\ repetidas = {}
  /\ gastado = [ediciones |-> 0, percances |-> 0, aperturas |-> 0]

-----------------------------------------------------------------------------
(* Helpers *)

Gasta(que, max) == gastado[que] < max /\ gastado' = [gastado EXCEPT ![que] = @ + 1]

Existentes == {f \in Filas : filaMesa[f].existe}

Guardando(a) == editor[a].guardado.fase # "no"

Sin(mesas, cid) == EnLugares(mesas, {i \in DOMAIN mesas : mesas[i].cid # cid})

CidsDe(mesas) == {mesas[i].cid : i \in DOMAIN mesas}

NumerosDe(mesas) == {mesas[i].numero : i \in DOMAIN mesas}

IdsDe(mesas) == {f \in Filas : \E i \in DOMAIN mesas : mesas[i].id = f}

\* aGuardarLayoutItems, without the position.
AGuardar(mesas) == {[id |-> mesas[i].id, numero |-> mesas[i].numero] : i \in DOMAIN mesas}

Duplicados(mesas) == Cardinality(NumerosDe(mesas)) # Len(mesas)

HayCambios(a) == editor[a].eliminadas # <<>> \/ AGuardar(editor[a].mesas) # editor[a].foto

\* siguienteNumeroDisponible
SiguienteNumero(mesas) ==
  CHOOSE n \in 1 .. Len(mesas) + 1 :
    n \notin NumerosDe(mesas) /\ \A k \in 1 .. n - 1 : k \in NumerosDe(mesas)

Edita(a) == editor[a].fase = "edita" /\ Gasta("ediciones", MaxEdiciones)

-----------------------------------------------------------------------------
(* A page *)

\* cargarLayout: what is there replaces what is on the map.  What was removed is
\* not forgotten by it.
Cargar(a) ==
  LET orden == EnOrden(Existentes, [f \in Existentes |-> filaMesa[f].numero])
      mesas == [i \in DOMAIN orden |->
        [cid |-> orden[i], id |-> orden[i], numero |-> filaMesa[orden[i]].numero,
         estado |-> filaMesa[orden[i]].estado]]
  IN  /\ editor[a].fase = "cargando"
      /\ editor' = [editor EXCEPT
           ![a].fase = "edita", ![a].mesas = mesas, ![a].foto = AGuardar(mesas),
           ![a].cargadas = Existentes]
      /\ UNCHANGED <<salaVars, agregadas, dudosas, repetidas, gastado>>

ConCarga(p) == [p EXCEPT !.fase = "cargando", !.ultima = <<>>]

\* The token of the session is renewed: the map is loaded again.
RenovarToken(a) ==
  /\ editor[a].fase = "edita"
  /\ Gasta("percances", MaxPercancesMapa)
  /\ editor' = [editor EXCEPT
       ![a] = ConCarga([@ EXCEPT
         !.toco = editor[a].toco \/ Guardando(a) \/ editor[a].eliminadas # <<>>])]
  /\ UNCHANGED <<salaVars, agregadas, dudosas, repetidas>>

\* The load fails, and the page shows only that; or it is loaded again.
RecargarMapa(a) ==
  /\ ~Guardando(a)
  /\ editor[a].fase # "cargando"
  /\ Gasta("percances", MaxPercancesMapa)
  /\ editor' = [editor EXCEPT ![a] = PaginaVacia]
  /\ UNCHANGED <<salaVars, agregadas, dudosas, repetidas>>

\* mesa:estado_actualizado, and refrescarEstados
VerEstado(a, f) ==
  /\ editor[a].fase = "edita"
  /\ f \in Existentes
  /\ editor' = [editor EXCEPT ![a].mesas = [i \in DOMAIN @ |->
       IF @[i].id = f THEN [@[i] EXCEPT !.estado = filaMesa[f].estado] ELSE @[i]]]
  /\ UNCHANGED <<salaVars, agregadas, dudosas, repetidas, gastado>>

\* handleAgregarMesa
AgregarMesa(a, c) ==
  /\ Edita(a)
  /\ c \in Nuevas \ agregadas
  /\ agregadas' = agregadas \cup {c}
  /\ editor' = [editor EXCEPT ![a].mesas = Append(@,
       [cid |-> c, id |-> SinId, numero |-> SiguienteNumero(@), estado |-> "LIBRE"])]
  /\ UNCHANGED <<salaVars, dudosas, repetidas>>

\* confirmarEdicionNumero
Numerar(a, c, n) ==
  /\ Edita(a)
  /\ c \in CidsDe(editor[a].mesas)
  /\ n \in Numeros
  /\ editor' = [editor EXCEPT ![a].mesas = [i \in DOMAIN @ |->
       IF @[i].cid = c THEN [@[i] EXCEPT !.numero = n] ELSE @[i]]]
  /\ repetidas' = repetidas \cup (IF Guardando(a) THEN {c} ELSE dudosas \cap {c})
  /\ UNCHANGED <<salaVars, agregadas, dudosas>>

\* handleEliminarSeleccionada, quitarMesa
QuitarMesa(a, c) ==
  LET mesas == editor[a].mesas
      i == SelectInSeq(mesas, LAMBDA m : m.cid = c)
  IN  /\ Edita(a)
      /\ c \in CidsDe(mesas)
      /\ mesas[i].estado = "LIBRE"
      /\ editor' = [editor EXCEPT
           ![a].mesas = Sin(@, c),
           ![a].eliminadas = IF mesas[i].id = SinId THEN @ ELSE Append(@, mesas[i]),
           ![a].ultima = <<[mesa |-> mesas[i], indice |-> i]>>,
           ![a].toco = @ \/ Guardando(a)]
      /\ UNCHANGED <<salaVars, agregadas, dudosas, repetidas>>

\* handleDeshacer, restaurarMesa, reinsertar
ReponerMesa(a) ==
  LET ultima == editor[a].ultima[1]
      indice == IF ultima.indice > Len(editor[a].mesas) + 1 THEN Len(editor[a].mesas) + 1
                ELSE ultima.indice
      esta == ultima.mesa.cid \in CidsDe(editor[a].mesas)
  IN  /\ editor[a].fase = "edita"
      /\ editor[a].ultima # <<>>
      /\ editor' = [editor EXCEPT
           ![a].mesas = IF esta THEN @ ELSE InsertAt(@, indice, ultima.mesa),
           ![a].eliminadas = IF esta THEN @ ELSE Sin(@, ultima.mesa.cid),
           ![a].ultima = <<>>,
           ![a].toco = @ \/ Guardando(a)]
      /\ UNCHANGED <<salaVars, agregadas, dudosas, repetidas, gastado>>

\* «Deshacer» is shown for a while.
CerrarDeshacer(a) ==
  /\ editor[a].ultima # <<>>
  /\ editor' = [editor EXCEPT ![a].ultima = <<>>]
  /\ UNCHANGED <<salaVars, agregadas, dudosas, repetidas, gastado>>

\* handleGuardar
GuardarMapa(a) ==
  /\ editor[a].fase = "edita"
  /\ ~Guardando(a)
  /\ HayCambios(a)
  /\ ~Duplicados(editor[a].mesas)
  /\ editor' = [editor EXCEPT ![a].guardado =
       [fase |-> "viaja", mesas |-> editor[a].mesas, eliminadas |-> editor[a].eliminadas]]
  /\ UNCHANGED <<salaVars, agregadas, dudosas, repetidas, gastado>>

-----------------------------------------------------------------------------
(* The save in the server: guardarLayout *)

AEliminar(a) == IdsDe(editor[a].guardado.eliminadas)

Creadas(a) ==
  LET mesas == editor[a].guardado.mesas
  IN  EnLugares(mesas, {i \in DOMAIN mesas : mesas[i].id = SinId})

\* Seeded defect: only the orders of the tables are looked at.
SinPedidos(f) == filaMesa[f].existe /\ ~filaMesa[f].pedidos

\* eliminarMesas: what is looked at before the delete.
SePuedeEliminar(f) ==
  /\ filaMesa[f].existe
  /\ filaMesa[f].estado = "LIBRE"
  /\ ~filaMesa[f].pedidos

SePuedeBorrar(a) ==
  /\ AEliminar(a) \cap IdsDe(editor[a].guardado.mesas) = {}
  /\ \A f \in AEliminar(a) : SePuedeEliminar(f)

RevisarGuardado(a) ==
  /\ editor[a].guardado.fase = "viaja"
  /\ plano = SinId
  /\ SePuedeBorrar(a)
  /\ plano' = a
  /\ editor' = [editor EXCEPT ![a].guardado.fase = "reviso"]
  /\ UNCHANGED <<filaMesa, huerfanas, entremedio, agregadas, dudosas, repetidas, gastado>>

\* 400, 404, 409.
RechazarGuardado(a) ==
  /\ editor[a].guardado.fase = "viaja"
  /\ plano = SinId
  /\ ~SePuedeBorrar(a)
  /\ editor' = [editor EXCEPT ![a].guardado.fase = "rechazado"]
  /\ UNCHANGED <<salaVars, agregadas, dudosas, repetidas, gastado>>

\* The delete is by id.  The other tables keep their number, and the new ones
\* come with theirs.
Quedan(a) == Existentes \ AEliminar(a)

CabenLasNuevas(a) ==
  NumerosDe(Creadas(a)) \cap {filaMesa[f].numero : f \in Quedan(a)} = {}

SePuedeGuardar(a) ==
  /\ \A f \in AEliminar(a) : ~filaMesa[f].pedidos
  /\ IdsDe(editor[a].guardado.mesas) \subseteq Quedan(a)
  /\ CabenLasNuevas(a)

\* Each id is of one table: the database does not give it again.
ConfirmarGuardado(a) ==
  LET nuevas == Creadas(a)
      libres == {f \in Filas : filaMesa[f] = NoExiste}
  IN  /\ editor[a].guardado.fase = "reviso"
      /\ SePuedeGuardar(a)
      /\ \E ids \in [DOMAIN nuevas -> libres] :
           /\ IsInjective(ids)
           /\ filaMesa' = [f \in Filas |->
                CASE f \in AEliminar(a) -> [filaMesa[f] EXCEPT !.existe = FALSE]
                  [] \E i \in DOMAIN ids : ids[i] = f ->
                       LET i == CHOOSE k \in DOMAIN ids : ids[k] = f
                       IN  MesaNueva(nuevas[i].numero, nuevas[i].cid)
                  [] OTHER -> filaMesa[f]]
      /\ huerfanas' = huerfanas \cup
           {f \in AEliminar(a) \ entremedio : filaMesa[f].estado = "OCUPADA"}
      /\ entremedio' = {}
      /\ plano' = SinId
      /\ editor' = [editor EXCEPT ![a].guardado.fase = "hecho"]
      /\ UNCHANGED <<agregadas, dudosas, repetidas, gastado>>

\* P2002, P2003, a table that is not there any more; or the transaction fails.
AbortarGuardado(a) ==
  /\ editor[a].guardado.fase = "reviso"
  /\ \/ ~SePuedeGuardar(a) /\ UNCHANGED gastado
     \/ SePuedeGuardar(a) /\ Gasta("percances", MaxPercancesMapa)
  /\ plano' = SinId
  /\ entremedio' = {}
  /\ editor' = [editor EXCEPT ![a].guardado.fase = "rechazado"]
  /\ UNCHANGED <<filaMesa, huerfanas, agregadas, dudosas, repetidas>>

-----------------------------------------------------------------------------
(* Its answer *)

\* The map is loaded again, so that the new tables have their ids.
TrasGuardar(a) ==
  ConCarga([editor[a] EXCEPT !.guardado = SinGuardado, !.eliminadas = <<>>, !.toco = FALSE])

LlegaGuardado(a) ==
  /\ editor[a].guardado.fase = "hecho"
  /\ editor' = [editor EXCEPT ![a] = TrasGuardar(a)]
  /\ UNCHANGED <<salaVars, agregadas, dudosas, repetidas, gastado>>

\* Seeded defect: what was removed is not put back on the map.
ConError(a) ==
  [editor[a] EXCEPT !.guardado = SinGuardado, !.eliminadas = <<>>]

\* The tables that were removed when it was asked for are put back.
TrasElError(a) ==
  LET devueltas == editor[a].guardado.eliminadas IN
  [editor[a] EXCEPT
    !.guardado = SinGuardado,
    !.mesas = @ \o devueltas,
    !.eliminadas = IF devueltas = <<>> THEN @ ELSE <<>>]

LlegaRechazo(a) ==
  /\ editor[a].guardado.fase = "rechazado"
  /\ editor' = [editor EXCEPT ![a] = TrasElError(a)]
  /\ UNCHANGED <<salaVars, agregadas, dudosas, repetidas, gastado>>

\* It was saved, and the page takes it as an error.
PierdeGuardado(a) ==
  /\ editor[a].guardado.fase = "hecho"
  /\ Gasta("percances", MaxPercancesMapa)
  /\ editor' = [editor EXCEPT ![a] = TrasElError(a)]
  /\ dudosas' = dudosas \cup CidsDe(Creadas(a))
  /\ UNCHANGED <<salaVars, agregadas, repetidas>>

-----------------------------------------------------------------------------
(* The dining room *)

\* abrirSesion
AbrirMesa(f) ==
  /\ f \in Existentes
  /\ filaMesa[f].estado = "LIBRE"
  /\ Gasta("aperturas", MaxAperturas)
  /\ filaMesa' = [filaMesa EXCEPT ![f].estado = "OCUPADA"]
  /\ entremedio' = IF plano # SinId /\ f \in AEliminar(plano) THEN entremedio \cup {f}
                   ELSE entremedio
  /\ UNCHANGED <<plano, huerfanas, editor, agregadas, dudosas, repetidas>>

\* cerrarSesion and marcarLimpia
DejarMesa(f) ==
  /\ f \in Existentes
  /\ filaMesa[f].estado = "OCUPADA"
  /\ filaMesa' = [filaMesa EXCEPT ![f].estado = "LIBRE"]
  /\ UNCHANGED <<plano, huerfanas, entremedio, editor, agregadas, dudosas, repetidas, gastado>>

\* PedidosService.crear: only the key of the row is looked at.
PedirEnMesa(f) ==
  /\ f \in Existentes
  /\ filaMesa[f].estado = "OCUPADA"
  /\ ~filaMesa[f].pedidos
  /\ Gasta("aperturas", MaxAperturas)
  /\ filaMesa' = [filaMesa EXCEPT ![f].pedidos = TRUE]
  /\ UNCHANGED <<plano, huerfanas, entremedio, editor, agregadas, dudosas, repetidas>>

-----------------------------------------------------------------------------
MapaNext ==
  \/ \E a \in Editores :
       \/ Cargar(a) \/ RenovarToken(a) \/ RecargarMapa(a) \/ ReponerMesa(a)
       \/ CerrarDeshacer(a) \/ GuardarMapa(a)
       \/ \E f \in Filas : VerEstado(a, f)
       \/ \E c \in Nuevas : AgregarMesa(a, c)
       \/ \E c \in CidsDe(editor[a].mesas) : QuitarMesa(a, c) \/ \E n \in Numeros : Numerar(a, c, n)
       \/ RevisarGuardado(a) \/ RechazarGuardado(a) \/ ConfirmarGuardado(a) \/ AbortarGuardado(a)
       \/ LlegaGuardado(a) \/ LlegaRechazo(a) \/ PierdeGuardado(a)
  \/ \E f \in Filas : AbrirMesa(f) \/ DejarMesa(f) \/ PedirEnMesa(f)

MapaSpec == MapaInit /\ [][MapaNext]_mapaVars

-----------------------------------------------------------------------------
(* Properties *)

\* A table with its session open, or with orders, is not deleted from the map,
\* unless the session was opened between the check of the save and its delete
\* (eliminarMesas deletes by id).
MesaEnUsoNoSeBorra ==
  /\ huerfanas = {}
  /\ \A f \in Filas : filaMesa[f].pedidos => filaMesa[f].existe

Veces(a, f) ==
  Cardinality({i \in DOMAIN editor[a].mesas : editor[a].mesas[i].id = f})
  + Cardinality({i \in DOMAIN editor[a].eliminadas : editor[a].eliminadas[i].id = f})

\* The map and the tables agree.  Whatever was saved, refused or lost, a page
\* that is not saving has each table that it loaded once, on the map or to be
\* deleted, unless something was removed or put back during a save, or the token
\* was renewed during one or with removed tables to be saved; and a table
\* that was added is one row, unless the answer of its save was lost and it was
\* given another number meanwhile or later.
MapaAcorde ==
  /\ \A a \in Editores :
       editor[a].fase = "edita" /\ ~Guardando(a) /\ ~editor[a].toco =>
         \A f \in editor[a].cargadas : Veces(a, f) = 1
  /\ \A c \in agregadas \ repetidas :
       Cardinality({f \in Existentes : filaMesa[f].de = c}) <= 1

=============================================================================
