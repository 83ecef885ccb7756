------------------------------- MODULE Altas -------------------------------
(***************************************************************************)
(* Setting up a restaurant, and deleting one set up by mistake.  Setting   *)
(* up writes the tenant, then makes sure of three accounts in Keycloak     *)
(* (administrator, kitchen, the diners' one), and then writes the row of   *)
(* the administrator and the mark that says that the kit is complete.      *)
(* When a step fails, the same request is sent again and takes up what is  *)
(* there.  Deleting removes the data in a transaction, and then every      *)
(* account of the tenant, one by one.                                      *)
(***************************************************************************)
EXTENDS Naturals

CONSTANTS
  Datos,        \* requests: [rut, admin, cocina]
  TenantIds,    \* ids of tenants, each also the name of its diners' account
  Altas,        \* settings up that may be in progress at once
  Bajas,        \* deletions that may be in progress at once
  MaxFallasAlta,\* bound: errors, lost answers and crashes
  MaxPedidas,   \* bound: requests that nobody had to send
  MaxBajas,     \* bound: deletions
  Ningun        \* no tenant, no request

ASSUME AltasAssumption ==
  /\ MaxFallasAlta \in Nat /\ MaxPedidas \in Nat /\ MaxBajas \in Nat
  /\ Ningun \notin TenantIds \cup Datos

\* Of an administrator, of a kitchen, or comensal-<tenantId>.
Usuarios == {d.admin : d \in Datos} \cup {d.cocina : d \in Datos} \cup TenantIds

VARIABLES
  tenant,      \* [TenantIds -> a record like SinTenant]
  identidad,      \* [Usuarios -> like SinIdentidad], in Keycloak
  alta,        \* [Altas -> like SinAlta]
  baja,        \* [Bajas -> like SinBaja]
  quiere,      \* requests that will be sent again if they fail
  solapados,   \* history: tenants that two requests were at, at once
  limpios,     \* history: tenants deleted, the last answer with nothing left
  gastado      \* how much of each bound is used

altasVars ==
  <<tenant, identidad, alta, baja, quiere, solapados, limpios, gastado>>

-----------------------------------------------------------------------------
(* State *)

\* filas: the accounts, by id, of its rows of usuario.
SinTenant ==
  [hay |-> FALSE, rut |-> Ningun, completa |-> FALSE, actividad |-> FALSE,
   filas |-> {}]

\* id: how many accounts had that name before.  roles: 1 ADMIN, 2 COCINA,
\* 3 COMENSAL.
SinIdentidad(n) == [hay |-> FALSE, de |-> Ningun, roles |-> {}, id |-> n]

\* n: the account it is at.  id: of that account.  idAdmin: of the first.
\* creada: by this request.
SinAlta ==
  [fase |-> "libre", d |-> Ningun, t |-> Ningun, n |-> 1, id |-> 0,
   idAdmin |-> 0, creada |-> FALSE]

\* faltan: <<name, id>> of the accounts to delete.  fallo: one could not be.
SinBaja == [fase |-> "libre", t |-> Ningun, faltan |-> {}, fallo |-> FALSE]

AltasInit ==
  /\ tenant = [t \in TenantIds |-> SinTenant]
  /\ identidad = [u \in Usuarios |-> SinIdentidad(0)]
  /\ alta = [x \in Altas |-> SinAlta]
  /\ baja = [e \in Bajas |-> SinBaja]
  /\ quiere = {}
  /\ solapados = {}
  /\ limpios = {}
  /\ gastado = [fallas |-> 0, pedidas |-> 0, bajas |-> 0]

-----------------------------------------------------------------------------
(* Helpers *)

Fase(x, fase) == alta[x].fase = fase
Tenant(x) == alta[x].t

\* The account that the request is at.
Usuario(x) ==
  CASE alta[x].n = 1 -> alta[x].d.admin
    [] alta[x].n = 2 -> alta[x].d.cocina
    [] alta[x].n = 3 -> Tenant(x)

AltaCambia(x, nueva) == alta' = [alta EXCEPT ![x] = nueva]
AltaPasa(x, fase) == AltaCambia(x, [alta[x] EXCEPT !.fase = fase])
AltaAcaba(x) == AltaCambia(x, SinAlta)

Gasta(que, maximo) ==
  /\ gastado[que] < maximo
  /\ gastado' = [gastado EXCEPT ![que] = @ + 1]

UnaFallaAlta == Gasta("fallas", MaxFallasAlta)

EsDeOtro(x) == identidad[Usuario(x)].hay /\ identidad[Usuario(x)].de # Tenant(x)

\* 409.  It is of no use to send it again if the account is of another tenant.
Rechaza(x) ==
  /\ AltaAcaba(x)
  /\ quiere' = IF EsDeOtro(x) THEN quiere \ {alta[x].d} ELSE quiere

Otros(t) ==
  {x \in Altas : Tenant(x) = t} \cup {e \in Bajas : baja[e].t = t}

\* A request comes to be at t.
Ocupa(t) == solapados' = IF Otros(t) = {} THEN solapados ELSE solapados \cup {t}

EnMarcha(d) == \E x \in Altas : alta[x].d = d

-----------------------------------------------------------------------------
(* Setting up *)

\* Which of those that are free it is does not matter.
Empieza(x, d) ==
  /\ Fase(x, "libre")
  /\ x = CHOOSE y \in Altas : Fase(y, "libre")
  /\ AltaCambia(x, [SinAlta EXCEPT !.fase = "buscar", !.d = d])
  /\ UNCHANGED <<tenant, identidad, baja, solapados, limpios>>

\* Somebody asks for it, maybe while it is being done.
Pedir(x, d) ==
  /\ Gasta("pedidas", MaxPedidas)
  /\ quiere' = quiere \cup {d}
  /\ Empieza(x, d)

\* What failed is sent again.
Reintentar(d) ==
  /\ d \in quiere
  /\ \A x \in Altas : alta[x].d # d
  /\ \E x \in Altas : Empieza(x, d)
  /\ UNCHANGED <<quiere, gastado>>

ConRut(rut) == {t \in TenantIds : tenant[t].rut = rut}

CuentasDe(t) == {u \in Usuarios : identidad[u].hay /\ identidad[u].de = t}

\* There is nothing of it anywhere.
SinUso(t) == ~tenant[t].hay /\ CuentasDe(t) = {} /\ Otros(t) = {}

IdNuevo == CHOOSE t \in TenantIds : SinUso(t)

\* The id of the tenant that has the RUT, or a new one.
Buscar(x) ==
  LET suyos == ConRut(alta[x].d.rut)
      t == IF suyos = {} THEN IdNuevo ELSE CHOOSE v \in suyos : TRUE
  IN  /\ Fase(x, "buscar")
      /\ suyos # {} \/ \E v \in TenantIds : SinUso(v)  \* bound: TenantIds
      /\ AltaCambia(x, [alta[x] EXCEPT !.fase = "datos", !.t = t])
      /\ Ocupa(t)
      /\ UNCHANGED <<tenant, identidad, baja, quiere, limpios, gastado>>

\* asegurarDatosDelEstablecimiento: the tenant, its restaurant and its
\* virtual table; 409 if the RUT came to be of another one.
AsegurarDatos(x) ==
  /\ Fase(x, "datos")
  /\ IF ConRut(alta[x].d.rut) \ {Tenant(x)} # {}
       THEN AltaAcaba(x) /\ UNCHANGED <<tenant, limpios>>
       ELSE /\ tenant' = [tenant EXCEPT ![Tenant(x)].hay = TRUE,
                                        ![Tenant(x)].rut = alta[x].d.rut]
            /\ limpios' = limpios \ {Tenant(x)}
            /\ AltaPasa(x, "usuario")
  /\ UNCHANGED <<identidad, baja, quiere, solapados, gastado>>

\* Seeded defect: it is taken, whoever has it.
SeAdopta(x) == ~identidad[Usuario(x)].hay

\* Seeded defect: what a failed request left is refused.
YaExiste(x) == identidad[Usuario(x)].hay

NoEsSuya(x) == identidad[Usuario(x)].de # Tenant(x)

\* The account is there already: it must be of this tenant.
BuscarUsuario(x) ==
  /\ Fase(x, "usuario")
  /\ LET k == identidad[Usuario(x)]
     IN  IF ~k.hay
           THEN AltaPasa(x, "crear") /\ UNCHANGED quiere
           ELSE IF NoEsSuya(x)
             THEN Rechaza(x)
             ELSE /\ AltaCambia(x, [alta[x] EXCEPT
                       !.fase = "rol", !.id = k.id, !.creada = FALSE])
                  /\ UNCHANGED quiere
  /\ UNCHANGED <<tenant, identidad, baja, solapados, limpios, gastado>>

IdentidadNueva(x) ==
  [hay |-> TRUE, de |-> Tenant(x), roles |-> {}, id |-> identidad[Usuario(x)].id + 1]

\* 409 if somebody created it in between.  The answer may be lost.
CrearUsuario(x) ==
  /\ Fase(x, "crear")
  /\ IF identidad[Usuario(x)].hay
       THEN Rechaza(x) /\ UNCHANGED <<identidad, gastado>>
       ELSE /\ identidad' = [identidad EXCEPT ![Usuario(x)] = IdentidadNueva(x)]
            /\ UNCHANGED quiere
            /\ \/ /\ AltaCambia(x, [alta[x] EXCEPT
                       !.fase = "rol", !.id = IdentidadNueva(x).id, !.creada = TRUE])
                  /\ UNCHANGED gastado
               \/ AltaAcaba(x) /\ UnaFallaAlta
  /\ UNCHANGED <<tenant, baja, solapados, limpios>>

EsLaCuenta(u, id) == identidad[u].hay /\ identidad[u].id = id

\* The next account, or the row of the administrator.
SiguienteUsuario(x) ==
  AltaCambia(x, [alta[x] EXCEPT
    !.fase = IF alta[x].n = 3 THEN "fila" ELSE "usuario",
    !.n = IF alta[x].n = 3 THEN 3 ELSE @ + 1,
    !.idAdmin = IF alta[x].n = 1 THEN alta[x].id ELSE @])

\* If it fails, the account that this request created is deleted.
AsegurarRol(x) ==
  /\ Fase(x, "rol")
  /\ \/ /\ EsLaCuenta(Usuario(x), alta[x].id)
        /\ identidad' = [identidad EXCEPT ![Usuario(x)].roles = @ \cup {alta[x].n}]
        /\ SiguienteUsuario(x)
        /\ UNCHANGED gastado
     \/ /\ IF EsLaCuenta(Usuario(x), alta[x].id)
             THEN UnaFallaAlta ELSE UNCHANGED gastado
        /\ IF alta[x].creada THEN AltaPasa(x, "deshacer") ELSE AltaAcaba(x)
        /\ UNCHANGED identidad
  /\ UNCHANGED <<tenant, baja, quiere, solapados, limpios>>

\* Keycloak deletes by id.
SinLaCuenta(u, id) ==
  IF EsLaCuenta(u, id) THEN [identidad EXCEPT ![u] = SinIdentidad(id)] ELSE identidad

RevertirUsuario(x) ==
  /\ Fase(x, "deshacer")
  /\ \/ identidad' = SinLaCuenta(Usuario(x), alta[x].id) /\ UNCHANGED gastado
     \/ UnaFallaAlta /\ UNCHANGED identidad
  /\ AltaAcaba(x)
  /\ UNCHANGED <<tenant, baja, quiere, solapados, limpios>>

\* The row of the administrator and alta_completada_en.  Without the tenant,
\* the foreign key fails.
EscribirFila(x) ==
  /\ Fase(x, "fila")
  /\ IF tenant[Tenant(x)].hay
       THEN /\ tenant' = [tenant EXCEPT ![Tenant(x)].completa = TRUE,
                 ![Tenant(x)].filas = @ \cup {<<alta[x].d.admin, alta[x].idAdmin>>}]
            /\ quiere' = quiere \ {alta[x].d}
       ELSE UNCHANGED <<tenant, quiere>>
  /\ AltaAcaba(x)
  /\ UNCHANGED <<identidad, baja, solapados, limpios, gastado>>

\* A step fails without effect, or the process dies.
FallarAlta(x) ==
  /\ ~Fase(x, "libre")
  /\ UnaFallaAlta
  /\ AltaAcaba(x)
  /\ UNCHANGED <<tenant, identidad, baja, quiere, solapados, limpios>>

PasoDeAlta(x) ==
  \/ Buscar(x) \/ AsegurarDatos(x) \/ BuscarUsuario(x) \/ CrearUsuario(x)
  \/ AsegurarRol(x) \/ RevertirUsuario(x) \/ EscribirFila(x)

-----------------------------------------------------------------------------
(* Deleting *)

BajaCambia(e, nueva) == baja' = [baja EXCEPT ![e] = nueva]

\* One transaction.  409 with activity; if the tenant is not there, only its
\* accounts are left to delete.
BorrarDatos(e, t) ==
  /\ baja[e].fase = "libre"
  /\ tenant[t].hay \/ CuentasDe(t) # {}
  /\ ~tenant[t].actividad
  /\ Gasta("bajas", MaxBajas)
  /\ tenant' = [tenant EXCEPT ![t] = SinTenant]
  /\ BajaCambia(e, [SinBaja EXCEPT !.fase = "listar", !.t = t])
  /\ quiere' = {d \in quiere : d.rut # tenant[t].rut}
  /\ Ocupa(t)
  /\ UNCHANGED <<identidad, alta, limpios>>

\* Seeded defect: those that have a role.
ABorrarConRol(t) == {u \in CuentasDe(t) : identidad[u].roles # {}}

ABorrar(t) == CuentasDe(t)

ListarCuentas(e) ==
  /\ baja[e].fase = "listar"
  /\ BajaCambia(e, [baja[e] EXCEPT !.fase = "borrar",
       !.faltan = {<<u, identidad[u].id>> : u \in ABorrar(baja[e].t)}])
  /\ UNCHANGED <<tenant, identidad, alta, quiere, solapados, limpios, gastado>>

\* They are deleted in any order; one that fails does not stop the others.
BorrarCuenta(e) ==
  /\ baja[e].fase = "borrar"
  /\ \E k \in baja[e].faltan :
       \/ /\ identidad' = SinLaCuenta(k[1], k[2])
          /\ BajaCambia(e, [baja[e] EXCEPT !.faltan = @ \ {k}])
          /\ UNCHANGED gastado
       \/ /\ UnaFallaAlta
          /\ BajaCambia(e, [baja[e] EXCEPT !.faltan = @ \ {k}, !.fallo = TRUE])
          /\ UNCHANGED identidad
  /\ UNCHANGED <<tenant, alta, quiere, solapados, limpios>>

\* The answer says what could not be deleted.
ResponderBaja(e) ==
  /\ baja[e].fase = "borrar"
  /\ baja[e].faltan = {}
  /\ limpios' = IF baja[e].fallo THEN limpios ELSE limpios \cup {baja[e].t}
  /\ BajaCambia(e, SinBaja)
  /\ UNCHANGED <<tenant, identidad, alta, quiere, solapados, gastado>>

\* Keycloak cannot list them, or the process dies.
FallarBaja(e) ==
  /\ baja[e].fase # "libre"
  /\ UnaFallaAlta
  /\ BajaCambia(e, SinBaja)
  /\ UNCHANGED <<tenant, identidad, alta, quiere, solapados, limpios>>

\* The restaurant takes its first order.
Vender(t) ==
  /\ tenant[t].completa
  /\ ~tenant[t].actividad
  /\ tenant' = [tenant EXCEPT ![t].actividad = TRUE]
  /\ UNCHANGED <<identidad, alta, baja, quiere, solapados, limpios, gastado>>

-----------------------------------------------------------------------------
(* Specification *)

AltasNext ==
  \/ \E x \in Altas :
       \/ \E d \in Datos : Pedir(x, d)
       \/ PasoDeAlta(x) \/ FallarAlta(x)
  \/ \E d \in Datos : Reintentar(d)
  \/ \E e \in Bajas :
       \/ \E t \in TenantIds : BorrarDatos(e, t)
       \/ ListarCuentas(e) \/ BorrarCuenta(e) \/ ResponderBaja(e) \/ FallarBaja(e)
  \/ \E t \in TenantIds : Vender(t)

\* A request that runs ends, and whoever asked sends again what failed.
AltasFairness ==
  /\ \A x \in Altas : WF_altasVars(PasoDeAlta(x))
  /\ \A d \in Datos : WF_altasVars(Reintentar(d))

AltasSpec == AltasInit /\ [][AltasNext]_altasVars /\ AltasFairness

-----------------------------------------------------------------------------
(* Properties *)

\* A tenant marked as complete (BL-410) has its kit: an administrator with a
\* row, a kitchen and the diners' account, each with its role, and none of
\* another tenant, whatever failed before, unless two requests were at it.
KitCompleto ==
  \A t \in TenantIds \ solapados :
    tenant[t].completa =>
      /\ \E u \in CuentasDe(t) :
           1 \in identidad[u].roles /\ <<u, identidad[u].id>> \in tenant[t].filas
      /\ \E u \in CuentasDe(t) : 2 \in identidad[u].roles
      /\ t \in CuentasDe(t) /\ 3 \in identidad[t].roles

\* Once a deletion answers that nothing is left, no account of the tenant is
\* left, unless another request was at it.
BajaSinHuerfanas ==
  \A t \in limpios \ solapados : ~tenant[t].hay /\ CuentasDe(t) = {}

\* «La recuperación es volver a correrlo» (aprovisionamiento.service.ts:91):
\* sent again, a setting up is done in the end, or refused, or deleted.
AltaTermina == \A d \in Datos : d \in quiere ~> d \notin quiere

=============================================================================
