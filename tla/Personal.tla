------------------------------ MODULE Personal ------------------------------
(***************************************************************************)
(* The staff of a restaurant: a row in the database (role, active) and an  *)
(* account in Keycloak (roles, enabled, open sessions) that must agree.    *)
(* The operations that change both run in a transaction that takes a lock  *)
(* of the tenant, calls Keycloak, and then writes the row.  Creating takes *)
(* no lock: the account comes first, and is deleted if the row fails.  The *)
(* shared account of the kitchen has no row, and no lock.                  *)
(*                                                                         *)
(* A transaction that waits too long is rolled back, and its lock freed,   *)
(* while its call to Keycloak goes on.  The answer of a call may be lost.  *)
(***************************************************************************)
EXTENDS Naturals

CONSTANTS
  Personas,     \* members of the staff, present and to come
  Cocinas,      \* accounts of the kitchen
  Solicitudes,  \* requests that may be in progress at once
  MaxPedidos,   \* bound: requests in all
  MaxFallas,    \* bound: timeouts, lost answers, crashes, failed commits
  Ninguna       \* no request, nobody

ASSUME PersonalAssumption ==
  /\ Ninguna \notin Solicitudes
  /\ Personas \cap Cocinas = {}
  /\ MaxPedidos \in Nat
  /\ MaxFallas \in Nat

Cuentas == Personas \cup Cocinas
Roles == {"ADMIN", "MOZO"}

VARIABLES
  fila,      \* [Personas -> Fila], rows of usuario
  cuenta,    \* [Cuentas -> Cuenta], in Keycloak
  sol,       \* [Solicitudes -> Solicitud]
  candado,   \* the request that holds the advisory lock of the tenant
  incierta,  \* history: accounts that a failure may have left as they were
  pedidos,   \* how much of MaxPedidos is used
  fallas     \* how much of MaxFallas is used

personalVars == <<fila, cuenta, sol, candado, incierta, pedidos, fallas>>

-----------------------------------------------------------------------------
(* Types *)

Fila == [hay : BOOLEAN, rol : Roles, activo : BOOLEAN]

\* sesion: it has open sessions.
Cuenta ==
  [estado : {"nunca", "esta", "borrada"}, habilitada : BOOLEAN,
   roles : SUBSET Roles, sesion : BOOLEAN]

ConCandado == {"cambiarRol", "desactivar", "reactivar", "eliminar"}
Operaciones == ConCandado \cup {"crear", "cerrar"}

\* What a request does next.  keycloak: the call that its operation makes.
\* salir: closing the sessions.  rol, alta, deshacer: the rest of "crear".
Fases == {"libre", "candado", "keycloak", "fila", "salir", "rol", "alta",
          "deshacer"}

Solicitud ==
  [fase : Fases, op : Operaciones, quien : Cuentas \cup {Ninguna}, rol : Roles]

UnaSolicitud(fase, op, quien, rol) ==
  [fase |-> fase, op |-> op, quien |-> quien, rol |-> rol]

Libre == UnaSolicitud("libre", "cerrar", Ninguna, "MOZO")

PersonalTypeOK ==
  /\ fila \in [Personas -> Fila]
  /\ cuenta \in [Cuentas -> Cuenta]
  /\ sol \in [Solicitudes -> Solicitud]
  /\ candado \in Solicitudes \cup {Ninguna}
  /\ candado # Ninguna => sol[candado].fase \in {"keycloak", "fila"}
  /\ incierta \subseteq Cuentas
  /\ pedidos \in 0 .. MaxPedidos
  /\ fallas \in 0 .. MaxFallas

EsAdminActivo(p) == fila[p].hay /\ fila[p].rol = "ADMIN" /\ fila[p].activo

SinFila == [hay |-> FALSE, rol |-> "MOZO", activo |-> FALSE]

SinCuenta ==
  [estado |-> "nunca", habilitada |-> FALSE, roles |-> {}, sesion |-> FALSE]

UnaCuenta(habilitada, roles) ==
  [estado |-> "esta", habilitada |-> habilitada, roles |-> roles, sesion |-> FALSE]

\* Any staff of which somebody is an active administrator.
PersonalInit ==
  /\ fila \in [Personas -> Fila]
  /\ \A p \in Personas : fila[p].hay \/ fila[p] = SinFila
  /\ \E p \in Personas : EsAdminActivo(p)
  /\ cuenta = [c \in Cuentas |->
       IF c \in Cocinas
         THEN UnaCuenta(TRUE, {})
         ELSE IF fila[c].hay THEN UnaCuenta(fila[c].activo, {fila[c].rol})
                             ELSE SinCuenta]
  /\ sol = [s \in Solicitudes |-> Libre]
  /\ candado = Ninguna
  /\ incierta = {}
  /\ pedidos = 0
  /\ fallas = 0

-----------------------------------------------------------------------------
(* Helpers *)

EnFase(s, fase) == sol[s].fase = fase
Quien(s) == sol[s].quien
EnCurso(c) == \E s \in Solicitudes : ~EnFase(s, "libre") /\ Quien(s) = c

Pasa(s, fase) == sol' = [sol EXCEPT ![s].fase = fase]
Acaba(s) == sol' = [sol EXCEPT ![s] = Libre]

Suelta(s) == candado' = IF candado = s THEN Ninguna ELSE candado

\* A failure that leaves the account of the request as it may be.
UnaFalla(s) ==
  /\ fallas < MaxFallas
  /\ fallas' = fallas + 1
  /\ incierta' = incierta \cup {Quien(s)}

SinFallas == UNCHANGED <<incierta, fallas>>

\* Seeded defect: who is not active counts too.
HayOtroAdminQuizaInactivo(p) ==
  \E q \in Personas \ {p} : fila[q].hay /\ fila[q].rol = "ADMIN"

\* asegurarNoEsUltimoAdmin
HayOtroAdmin(p) == \E q \in Personas \ {p} : EsAdminActivo(q)

-----------------------------------------------------------------------------
(* Arrivals *)

UnPedido == pedidos < MaxPedidos /\ pedidos' = pedidos + 1

Llega(s, fase, op, quien, rol) ==
  /\ EnFase(s, "libre")
  /\ UnPedido
  /\ sol' = [sol EXCEPT ![s] = UnaSolicitud(fase, op, quien, rol)]
  /\ UNCHANGED <<fila, cuenta, candado, incierta, fallas>>

\* The account that Keycloak will create has an id of its own.
PedirCrear(s, p, rol) ==
  /\ cuenta[p].estado = "nunca"
  /\ ~EnCurso(p)
  /\ Llega(s, "keycloak", "crear", p, rol)

\* Of a person, who is never the one that asks.
PedirCambio(s, op, p, rol) ==
  /\ fila[p].hay
  /\ \E actor \in Personas \ {p} : "ADMIN" \in cuenta[actor].roles
  /\ Llega(s, "candado", op, p, rol)

\* desactivarCocina, reactivarCocina: the account is read, and then changed.
PedirCocina(s, op, c) ==
  /\ op \in {"desactivar", "reactivar"}
  /\ op = "reactivar" => ~cuenta[c].habilitada
  /\ Llega(s, "keycloak", op, c, "MOZO")

\* restablecerContrasena, restablecerContrasenaCocina: of who may enter.  The
\* new password is left out; then the sessions are closed.
PedirContrasena(s, c) ==
  /\ IF c \in Personas THEN fila[c].hay /\ fila[c].activo ELSE cuenta[c].habilitada
  /\ Llega(s, "salir", "cerrar", c, "MOZO")

\* cerrarSesiones, cerrarSesionesCocina
PedirCerrar(s, c) ==
  /\ cuenta[c].estado = "esta"
  /\ c \in Personas => fila[c].hay
  /\ Llega(s, "salir", "cerrar", c, "MOZO")

-----------------------------------------------------------------------------
(* The operations with the lock *)

\* What each one asks of the rows.  The others answer an error, or that there
\* is nothing to do.
Procede(s) ==
  LET p == Quien(s)
  IN  /\ fila[p].hay
      /\ CASE sol[s].op = "cambiarRol" ->
                /\ sol[s].rol # fila[p].rol
                /\ fila[p].rol = "ADMIN" => HayOtroAdmin(p)
           [] sol[s].op \in {"desactivar", "eliminar"} ->
                fila[p].rol = "ADMIN" => HayOtroAdmin(p)
           [] sol[s].op = "reactivar" -> ~fila[p].activo

\* pg_advisory_xact_lock, and then what it reads.
Entrar(s) ==
  /\ EnFase(s, "candado")
  /\ candado = Ninguna
  /\ \/ /\ Procede(s)
        /\ candado' = s
        /\ Pasa(s, "keycloak")
     \/ \* who has a history is not deleted
        /\ ~Procede(s) \/ sol[s].op = "eliminar"
        /\ Acaba(s)
        /\ UNCHANGED candado
  /\ UNCHANGED <<fila, cuenta, incierta, pedidos, fallas>>

Borrada(k) == [k EXCEPT !.estado = "borrada", !.habilitada = FALSE, !.sesion = FALSE]

\* The account after the call.  One that is not there answers 404.
TrasLlamada(s) ==
  LET k == cuenta[Quien(s)]
  IN  CASE sol[s].op = "crear" -> [k EXCEPT !.estado = "esta", !.habilitada = TRUE]
        [] sol[s].op = "cambiarRol" -> [k EXCEPT !.roles = @ \cup {sol[s].rol}]
        [] sol[s].op = "desactivar" -> [k EXCEPT !.habilitada = FALSE]
        [] sol[s].op = "reactivar" -> [k EXCEPT !.habilitada = TRUE]
        [] sol[s].op = "eliminar" -> Borrada(k)

LlamadaPosible(s) ==
  cuenta[Quien(s)].estado = IF sol[s].op = "crear" THEN "nunca" ELSE "esta"

\* Seeded defect: the sessions stay open.
ResponderSinSalir(s) == Acaba(s)

\* After deactivating, the sessions are closed.
Responder(s) == IF sol[s].op = "desactivar" THEN Pasa(s, "salir") ELSE Acaba(s)

\* Where it goes when Keycloak says that it is done.
Sigue(s) ==
  CASE sol[s].op = "crear" -> Pasa(s, "rol")
    [] sol[s].op \in ConCandado /\ Quien(s) \in Personas ->
         \* the transaction that timed out refuses the next statement
         IF candado = s THEN Pasa(s, "fila") ELSE Acaba(s)
    [] OTHER -> Responder(s)

LlamarKeycloak(s) ==
  /\ EnFase(s, "keycloak")
  /\ \/ /\ LlamadaPosible(s)
        /\ cuenta' = [cuenta EXCEPT ![Quien(s)] = TrasLlamada(s)]
        /\ \/ Sigue(s) /\ UNCHANGED candado /\ SinFallas
           \/ \* it is done, and the answer is lost
              UnaFalla(s) /\ Acaba(s) /\ Suelta(s)
     \/ \* nothing was done, and the transaction is rolled back
        /\ Acaba(s)
        /\ Suelta(s)
        /\ UNCHANGED cuenta
        /\ SinFallas
  /\ UNCHANGED <<fila, pedidos>>

FilaTras(s) ==
  LET f == fila[Quien(s)]
  IN  CASE sol[s].op = "cambiarRol" -> [f EXCEPT !.rol = sol[s].rol]
        [] sol[s].op = "desactivar" -> [f EXCEPT !.activo = FALSE]
        [] sol[s].op = "reactivar"  -> [f EXCEPT !.activo = TRUE]
        [] sol[s].op = "eliminar"   -> SinFila

\* The row is written and the transaction commits, or fails to.
Confirmar(s) ==
  /\ EnFase(s, "fila")
  /\ Suelta(s)
  /\ \/ /\ fila' = [fila EXCEPT ![Quien(s)] = FilaTras(s)]
        /\ Responder(s)
        /\ SinFallas
     \/ UnaFalla(s) /\ Acaba(s) /\ UNCHANGED fila
  /\ UNCHANGED <<cuenta, pedidos>>

\* 10 s: the transaction is rolled back, and its call to Keycloak goes on.
VenceTransaccion(s) ==
  /\ candado = s
  /\ UnaFalla(s)
  /\ candado' = Ninguna
  /\ IF EnFase(s, "fila") THEN Acaba(s) ELSE UNCHANGED sol
  /\ UNCHANGED <<fila, cuenta, pedidos>>

\* logoutUser never throws.
CerrarSesiones(s) ==
  /\ EnFase(s, "salir")
  /\ Acaba(s)
  /\ \/ cuenta' = [cuenta EXCEPT ![Quien(s)].sesion = FALSE] /\ SinFallas
     \/ UnaFalla(s) /\ UNCHANGED cuenta
  /\ UNCHANGED <<fila, candado, pedidos>>

-----------------------------------------------------------------------------
(* The rest of creating *)

AsignarRol(s) ==
  /\ EnFase(s, "rol")
  /\ \/ /\ Pasa(s, "alta")
        /\ cuenta' = [cuenta EXCEPT ![Quien(s)].roles = @ \cup {sol[s].rol}]
     \/ Pasa(s, "deshacer") /\ UNCHANGED cuenta
  /\ UNCHANGED <<fila, candado, incierta, pedidos, fallas>>

\* The row is inserted; it fails; or it is inserted and the answer is lost.
InsertarFila(s) ==
  LET nueva == [hay |-> TRUE, rol |-> sol[s].rol, activo |-> TRUE]
  IN  /\ EnFase(s, "alta")
      /\ \/ /\ fila' = [fila EXCEPT ![Quien(s)] = nueva]
            /\ \/ Acaba(s) /\ SinFallas
               \/ Pasa(s, "deshacer") /\ UnaFalla(s)
         \/ Pasa(s, "deshacer") /\ UNCHANGED fila /\ SinFallas
      /\ UNCHANGED <<cuenta, candado, pedidos>>

\* Seeded defect: the account stays.
NoDeshacer(s) ==
  /\ EnFase(s, "deshacer")
  /\ Acaba(s)
  /\ UNCHANGED <<fila, cuenta, candado, incierta, pedidos, fallas>>

\* The compensation deletes the account; its failure is only logged.
Deshacer(s) ==
  /\ EnFase(s, "deshacer")
  /\ Acaba(s)
  /\ \/ /\ cuenta' = [cuenta EXCEPT ![Quien(s)] = Borrada(@)]
        /\ SinFallas
     \/ UnaFalla(s) /\ UNCHANGED cuenta
  /\ UNCHANGED <<fila, candado, pedidos>>

-----------------------------------------------------------------------------
(* The environment *)

Ingresar(c) ==
  /\ cuenta[c].habilitada
  /\ cuenta' = [cuenta EXCEPT ![c].sesion = TRUE]
  /\ UNCHANGED <<fila, sol, candado, incierta, pedidos, fallas>>

\* The process dies in the middle of a request.
CaeProceso(s) ==
  /\ ~EnFase(s, "libre")
  /\ UnaFalla(s)
  /\ Acaba(s)
  /\ Suelta(s)
  /\ UNCHANGED <<fila, cuenta, pedidos>>

PersonalNext ==
  \/ \E s \in Solicitudes :
       \/ \E p \in Personas, rol \in Roles :
            \/ PedirCrear(s, p, rol)
            \/ \E op \in ConCandado : PedirCambio(s, op, p, rol)
       \/ \E c \in Cocinas, op \in ConCandado : PedirCocina(s, op, c)
       \/ \E c \in Cuentas : PedirCerrar(s, c) \/ PedirContrasena(s, c)
       \/ Entrar(s) \/ LlamarKeycloak(s) \/ Confirmar(s) \/ CerrarSesiones(s)
       \/ AsignarRol(s) \/ InsertarFila(s) \/ Deshacer(s)
       \/ VenceTransaccion(s) \/ CaeProceso(s)
  \/ \E c \in Cuentas : Ingresar(c)

PersonalSpec == PersonalInit /\ [][PersonalNext]_personalVars

-----------------------------------------------------------------------------
(* Properties *)

\* RF.19: «nunca puede quedar un tenant sin ningún Admin activo»
\* (usuarios.service.ts:910), whatever requests overlap, time out or fail.
NuncaSinAdmin == \E p \in Personas : EsAdminActivo(p)

\* A row has an account, enabled when the row is active, that has its role,
\* and an account has a row, unless a request is at it or one failed half way.
CuentaAcorde ==
  \A p \in Personas :
    \/ EnCurso(p) \/ p \in incierta
    \/ /\ fila[p].hay <=> cuenta[p].estado = "esta"
       /\ fila[p].hay => /\ fila[p].activo <=> cuenta[p].habilitada
                         /\ fila[p].rol \in cuenta[p].roles

\* Who was deactivated has no open session, once the request that did it ends,
\* unless it failed half way: entering is stopped before sessions are closed.
BajaCierraSesiones ==
  \A c \in Cuentas :
    cuenta[c].sesion => cuenta[c].habilitada \/ EnCurso(c) \/ c \in incierta

=============================================================================
