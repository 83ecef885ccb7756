--------------------------- MODULE Personal_proofs ---------------------------
(***************************************************************************)
(* Proofs about Personal, for any staff, any number of requests at once    *)
(* and of failures.  Only who holds the lock writes over a row, and from   *)
(* the time it got the lock there is another active administrator: the one *)
(* that it saw, whom nobody else can touch, as those who create write the  *)
(* rows of nobody else.  And an account that is disabled with a session    *)
(* open has a request that will close it, or failed half way.              *)
(*                                                                         *)
(* Then, that a row and its account agree: while a request is half way     *)
(* between the two, the account is the one of the row it is going to write.*)
(***************************************************************************)
EXTENDS Personal, TLAPS

-----------------------------------------------------------------------------
(* The invariant *)

\* What the phase of a request says of it.
Validas ==
  \A s \in Solicitudes :
    /\ sol[s].fase # "libre" => sol[s].quien \in Cuentas
    /\ sol[s].fase \in {"candado", "fila"} =>
         sol[s].op \in ConCandado /\ sol[s].quien \in Personas
    /\ sol[s].fase = "keycloak" => sol[s].op \in ConCandado \cup {"crear"}
    /\ sol[s].fase = "keycloak" /\ sol[s].op = "crear" => sol[s].quien \in Personas
    /\ sol[s].fase \in {"rol", "alta", "deshacer"} => sol[s].quien \in Personas
    /\ candado = s =>
         /\ sol[s].fase \in {"keycloak", "fila"}
         /\ sol[s].op \in ConCandado /\ sol[s].quien \in Personas
    /\ sol[s].fase = "fila" => candado = s

\* It is on the way to inserting a row.
Creando(s) ==
  \/ sol[s].fase \in {"rol", "alta"}
  \/ sol[s].fase = "keycloak" /\ sol[s].op = "crear"

\* Who is being created has no row yet, and only one request creates it.
Nuevas ==
  /\ \A p \in Personas : fila[p].hay => cuenta[p].estado # "nunca"
  /\ \A s \in Solicitudes : Creando(s) => ~fila[sol[s].quien].hay
  /\ \A s \in Solicitudes :
       sol[s].fase \in {"rol", "alta"} => cuenta[sol[s].quien].estado # "nunca"
  /\ \A s, t \in Solicitudes :
       Creando(s) /\ Creando(t) /\ sol[s].quien = sol[t].quien => s = t

\* While a request that may take an administrator away holds the lock, there
\* is another one.
QuedaOtro ==
  \A s \in Solicitudes :
    candado = s /\ sol[s].op # "reactivar" => HayOtroAdmin(sol[s].quien)

\* Who lost the lock during its call is noted.
PerdidosInciertos ==
  \A s \in Solicitudes :
    /\ sol[s].fase = "keycloak" /\ sol[s].op # "crear"
    /\ sol[s].quien \in Personas /\ candado # s
    => sol[s].quien \in incierta

\* It will close the sessions of its account.
VaACerrar(s) ==
  \/ sol[s].fase = "salir"
  \/ sol[s].fase = "fila" /\ sol[s].op = "desactivar"

\* A session left open in a disabled account will be closed.
SesionesPorCerrar ==
  \A c \in Cuentas :
    cuenta[c].sesion /\ ~cuenta[c].habilitada /\ c \notin incierta =>
      \E s \in Solicitudes : sol[s].quien = c /\ VaACerrar(s)

PersonalInv ==
  /\ PersonalTypeOK /\ Validas /\ Nuevas /\ NuncaSinAdmin /\ QuedaOtro
  /\ PerdidosInciertos /\ SesionesPorCerrar

-----------------------------------------------------------------------------
(* What a step does to the requests *)

\* Only the request s changes.
Cambia(s) ==
  /\ sol' \in [Solicitudes -> Solicitud]
  /\ \A o \in Solicitudes \ {s} : sol'[o] = sol[o]

\* It goes on at another phase.
Avanza(s, fase) ==
  /\ Cambia(s)
  /\ sol'[s].fase = fase
  /\ sol'[s].op = sol[s].op
  /\ sol'[s].quien = sol[s].quien
  /\ sol'[s].rol = sol[s].rol

\* It ends.
Termina(s) == Cambia(s) /\ sol'[s] = Libre /\ sol'[s].fase = "libre"

\* A request at another phase keeps what it is about.
LEMMA PasaEfecto ==
  ASSUME PersonalTypeOK, NEW s \in Solicitudes, NEW fase \in Fases, Pasa(s, fase)
  PROVE  Avanza(s, fase)
BY DEF PersonalTypeOK, Pasa, Avanza, Cambia, Solicitud

\* A request that ends is free again.
LEMMA AcabaEfecto ==
  ASSUME PersonalTypeOK, NEW s \in Solicitudes, Acaba(s)
  PROVE  Termina(s)
<1>1. Libre \in Solicitud /\ Libre.fase = "libre"
  BY DEF Libre, UnaSolicitud, Solicitud, Fases, Operaciones, Roles
<1> QED BY <1>1 DEF PersonalTypeOK, Acaba, Termina, Cambia

\* A request that arrives was free, and changes nothing else.
LEMMA LlegaEfecto ==
  ASSUME PersonalTypeOK, NEW s \in Solicitudes, NEW fase \in Fases,
         NEW op \in Operaciones, NEW quien \in Cuentas, NEW rol \in Roles,
         Llega(s, fase, op, quien, rol)
  PROVE  /\ Cambia(s)
         /\ sol[s].fase = "libre"
         /\ sol'[s].fase = fase /\ sol'[s].op = op /\ sol'[s].quien = quien
         /\ UNCHANGED <<fila, cuenta, candado, incierta, fallas>>
         /\ pedidos' \in 0 .. MaxPedidos
<1>1. UnaSolicitud(fase, op, quien, rol) \in Solicitud
  BY DEF UnaSolicitud, Solicitud
<1>2. pedidos' \in 0 .. MaxPedidos
  BY PersonalAssumption DEF Llega, UnPedido, PersonalTypeOK
<1> QED
  BY <1>1, <1>2 DEF PersonalTypeOK, Llega, Cambia, UnaSolicitud, EnFase

\* The lock is free, or of another one.
LEMMA SueltaEfecto ==
  ASSUME PersonalTypeOK, NEW s \in Solicitudes, Suelta(s)
  PROVE  /\ candado' \in Solicitudes \cup {Ninguna}
         /\ candado' # s
         /\ \A o \in Solicitudes \ {s} : candado' = o <=> candado = o
         /\ candado' = Ninguna \/ candado' = candado
BY PersonalAssumption DEF PersonalTypeOK, Suelta

\* A failure is noted in its account.
LEMMA FallaEfecto ==
  ASSUME PersonalTypeOK, NEW s \in Solicitudes, UnaFalla(s), Quien(s) \in Cuentas
  PROVE  /\ fallas' \in 0 .. MaxFallas
         /\ incierta' = incierta \cup {sol[s].quien}
         /\ incierta' \subseteq Cuentas
BY PersonalAssumption DEF PersonalTypeOK, UnaFalla, Quien

\* The account after the call of a request is of the type.  Only a deactivation
\* disables it, and leaves the sessions as they are.
LEMMA TrasLlamadaTipo ==
  ASSUME PersonalTypeOK, NEW s \in Solicitudes, sol[s].quien \in Cuentas,
         sol[s].op \in ConCandado \cup {"crear"}
  PROVE  /\ TrasLlamada(s) \in Cuenta
         /\ TrasLlamada(s).estado # "nunca" \/ cuenta[sol[s].quien].estado = "nunca"
         /\ sol[s].op = "crear" => TrasLlamada(s).estado = "esta"
         /\ TrasLlamada(s).sesion /\ ~TrasLlamada(s).habilitada =>
              \/ sol[s].op = "desactivar"
              \/ /\ cuenta[sol[s].quien].sesion
                 /\ ~cuenta[sol[s].quien].habilitada
<1> DEFINE k == cuenta[sol[s].quien]
<1>1. k \in Cuenta
  BY DEF PersonalTypeOK
<1>2. sol[s].rol \in Roles
  BY DEF PersonalTypeOK, Solicitud
<1>3. CASE sol[s].op = "crear"
  BY <1>1, <1>3 DEF TrasLlamada, Cuenta, Quien
<1>4. CASE sol[s].op = "cambiarRol"
  BY <1>1, <1>2, <1>4 DEF TrasLlamada, Cuenta, Quien
<1>5. CASE sol[s].op = "desactivar"
  BY <1>1, <1>5 DEF TrasLlamada, Cuenta, Quien
<1>6. CASE sol[s].op = "reactivar"
  BY <1>1, <1>6 DEF TrasLlamada, Cuenta, Quien
<1>7. CASE sol[s].op = "eliminar"
  BY <1>1, <1>7 DEF TrasLlamada, Cuenta, Quien, Borrada
<1> QED BY <1>3, <1>4, <1>5, <1>6, <1>7 DEF ConCandado

\* The row after the write of a request is of the type.
LEMMA FilaTrasTipo ==
  ASSUME PersonalTypeOK, NEW s \in Solicitudes, sol[s].quien \in Personas,
         sol[s].op \in ConCandado
  PROVE  /\ FilaTras(s) \in Fila
         /\ FilaTras(s).hay => fila[sol[s].quien].hay
         /\ sol[s].op = "reactivar" =>
              /\ FilaTras(s).hay <=> fila[sol[s].quien].hay
              /\ FilaTras(s).rol = fila[sol[s].quien].rol
              /\ FilaTras(s).activo
<1> DEFINE f == fila[sol[s].quien]
<1>1. f \in Fila
  BY DEF PersonalTypeOK
<1>2. sol[s].rol \in Roles
  BY DEF PersonalTypeOK, Solicitud
<1>3. CASE sol[s].op = "cambiarRol"
  BY <1>1, <1>2, <1>3 DEF FilaTras, Fila, Quien
<1>4. CASE sol[s].op = "desactivar"
  BY <1>1, <1>4 DEF FilaTras, Fila, Quien
<1>5. CASE sol[s].op = "reactivar"
  BY <1>1, <1>5 DEF FilaTras, Fila, Quien
<1>6. CASE sol[s].op = "eliminar"
  BY <1>1, <1>6 DEF FilaTras, Fila, Quien, SinFila, Roles
<1> QED BY <1>3, <1>4, <1>5, <1>6 DEF ConCandado

-----------------------------------------------------------------------------
(* The beginning *)

\* No request is in progress, and nobody has a session open.
LEMMA PersonalInicio == PersonalInit => PersonalInv
<1> SUFFICES ASSUME PersonalInit PROVE PersonalInv
  OBVIOUS
<1> USE PersonalAssumption
<1>1. Libre \in Solicitud /\ Libre.fase = "libre"
  BY DEF Libre, UnaSolicitud, Solicitud, Fases, Operaciones, Roles
<1>2. \A s \in Solicitudes : sol[s] = Libre
  BY DEF PersonalInit
<1>3. \A h \in BOOLEAN, r \in SUBSET Roles : UnaCuenta(h, r) \in Cuenta
  BY DEF UnaCuenta, Cuenta
<1>4. SinCuenta \in Cuenta
  BY DEF SinCuenta, Cuenta
<1>5. ASSUME NEW c \in Cuentas
      PROVE  cuenta[c] \in Cuenta /\ ~cuenta[c].sesion
  <2>1. CASE c \in Cocinas
    <3>1. cuenta[c] = UnaCuenta(TRUE, {})
      BY <2>1 DEF PersonalInit
    <3>2. UnaCuenta(TRUE, {}) \in Cuenta
      BY <1>3, Zenon
    <3> QED BY <3>1, <3>2 DEF UnaCuenta
  <2>2. CASE c \notin Cocinas /\ fila[c].hay
    <3>1. cuenta[c] = UnaCuenta(fila[c].activo, {fila[c].rol})
      BY <2>2 DEF PersonalInit
    <3>2. fila[c] \in Fila
      BY <2>2 DEF PersonalInit, Cuentas
    <3>3. fila[c].activo \in BOOLEAN /\ {fila[c].rol} \in SUBSET Roles
      BY <3>2 DEF Fila
    <3>4. UnaCuenta(fila[c].activo, {fila[c].rol}) \in Cuenta
      BY <3>3, <1>3
    <3> QED BY <3>1, <3>4 DEF UnaCuenta
  <2>3. CASE c \notin Cocinas /\ ~fila[c].hay
    <3>1. cuenta[c] = SinCuenta
      BY <2>3 DEF PersonalInit
    <3> QED BY <3>1, <1>4 DEF SinCuenta
  <2> QED BY <2>1, <2>2, <2>3
<1>6. PersonalTypeOK
  <2>1. cuenta \in [Cuentas -> Cuenta]
    BY <1>5 DEF PersonalInit
  <2>2. sol \in [Solicitudes -> Solicitud]
    BY <1>1 DEF PersonalInit
  <2>3. /\ candado = Ninguna /\ incierta = {}
        /\ pedidos = 0 /\ fallas = 0
    BY DEF PersonalInit
  <2>4. pedidos \in 0 .. MaxPedidos /\ fallas \in 0 .. MaxFallas
    BY <2>3
  <2>5. fila \in [Personas -> Fila]
    BY DEF PersonalInit
  <2>6. candado \in Solicitudes \cup {Ninguna} /\ incierta \subseteq Cuentas
    BY <2>3
  <2> QED BY <2>1, <2>2, <2>3, <2>4, <2>5, <2>6, Zenon DEF PersonalTypeOK
<1>7. Validas
  BY <1>1, <1>2 DEF PersonalInit, Validas
<1>8. ASSUME NEW p \in Personas, fila[p].hay
      PROVE  cuenta[p].estado # "nunca"
  <2>1. cuenta[p] = UnaCuenta(fila[p].activo, {fila[p].rol})
    BY <1>8 DEF PersonalInit, Cuentas
  <2> QED BY <2>1 DEF UnaCuenta
<1>9. Nuevas
  BY <1>1, <1>2, <1>8 DEF Nuevas, Creando
<1>10. NuncaSinAdmin /\ QuedaOtro
  BY DEF PersonalInit, NuncaSinAdmin, QuedaOtro
<1>11. PerdidosInciertos /\ SesionesPorCerrar
  BY <1>1, <1>2, <1>5 DEF PerdidosInciertos, SesionesPorCerrar
<1> QED BY <1>6, <1>7, <1>9, <1>10, <1>11 DEF PersonalInv

-----------------------------------------------------------------------------
(* Requests that arrive, and requests that end *)

\* A request that arrives, for a person who is new if it is to be created.
LEMMA LlegaConserva ==
  ASSUME PersonalInv, NEW s \in Solicitudes,
         NEW fase \in {"candado", "keycloak", "salir"}, NEW op \in Operaciones,
         NEW quien \in Cuentas, NEW rol \in Roles,
         Llega(s, fase, op, quien, rol),
         fase = "candado" => op \in ConCandado /\ quien \in Personas,
         fase = "keycloak" => op \in ConCandado \cup {"crear"},
         fase = "keycloak" /\ op # "crear" => quien \notin Personas,
         fase = "keycloak" /\ op = "crear" =>
           quien \in Personas /\ ~EnCurso(quien) /\ cuenta[quien].estado = "nunca"
  PROVE  PersonalInv'
<1> USE PersonalAssumption
<1>0. PersonalTypeOK
  BY DEF PersonalInv
<1>1. /\ Cambia(s)
      /\ sol[s].fase = "libre"
      /\ sol'[s].fase = fase /\ sol'[s].op = op /\ sol'[s].quien = quien
      /\ UNCHANGED <<fila, cuenta, candado, incierta, fallas>>
      /\ pedidos' \in 0 .. MaxPedidos
  BY <1>0, LlegaEfecto DEF Fases
<1>2. candado # s
  BY <1>0, <1>1 DEF PersonalTypeOK
<1>3. PersonalTypeOK'
  BY <1>0, <1>1, <1>2 DEF PersonalTypeOK, Cambia
<1>4. Validas'
  BY <1>1, <1>2 DEF PersonalInv, Validas, Cambia
<1>5. Nuevas'
  <2>1. Nuevas
    BY DEF PersonalInv
  <2>2. \A o \in Solicitudes \ {s} : Creando(o)' <=> Creando(o)
    BY <1>1 DEF Cambia, Creando
  <2>3. Creando(s)' <=> fase = "keycloak" /\ op = "crear"
    BY <1>1 DEF Creando
  <2>4. Creando(s)' => ~fila[quien].hay
    BY <2>1, <2>3 DEF Nuevas
  <2>5. \A o \in Solicitudes \ {s} : Creando(o) /\ Creando(s)' => sol[o].quien # quien
    BY <2>3 DEF Creando, EnCurso, EnFase, Quien
  <2>6. \A o \in Solicitudes : Creando(o)' => ~fila'[sol'[o].quien].hay
    BY <1>1, <2>1, <2>2, <2>4 DEF Nuevas, Cambia
  <2>7. \A o, t \in Solicitudes :
          Creando(o)' /\ Creando(t)' /\ sol'[o].quien = sol'[t].quien => o = t
    BY <1>1, <2>1, <2>2, <2>5 DEF Nuevas, Cambia
  <2>8. \A o \in Solicitudes :
          sol'[o].fase \in {"rol", "alta"} => cuenta'[sol'[o].quien].estado # "nunca"
    BY <1>1, <2>1 DEF Nuevas, Cambia
  <2>9. \A p \in Personas : fila'[p].hay => cuenta'[p].estado # "nunca"
    BY <1>1, <2>1 DEF Nuevas
  <2> QED BY <2>6, <2>7, <2>8, <2>9 DEF Nuevas
<1>6. NuncaSinAdmin'
  BY <1>1 DEF PersonalInv, NuncaSinAdmin, EsAdminActivo
<1>7. QuedaOtro'
  BY <1>1, <1>2 DEF PersonalInv, QuedaOtro, HayOtroAdmin, EsAdminActivo, Cambia
<1>8. PerdidosInciertos'
  BY <1>1, <1>2 DEF PersonalInv, PerdidosInciertos, Cambia
<1>9. SesionesPorCerrar'
  <2>1. SesionesPorCerrar
    BY DEF PersonalInv
  <2>2. ~VaACerrar(s)
    BY <1>1 DEF VaACerrar
  <2>3. \A o \in Solicitudes : VaACerrar(o) =>
          VaACerrar(o)' /\ sol'[o].quien = sol[o].quien
    BY <1>1, <2>2 DEF VaACerrar, Cambia
  <2> QED BY <1>1, <2>1, <2>3 DEF SesionesPorCerrar
<1> QED BY <1>3, <1>4, <1>5, <1>6, <1>7, <1>8, <1>9 DEF PersonalInv

\* A request that ends and leaves the rows as they are.  The accounts keep
\* existing, and the open sessions that it has to close are closed or noted.
LEMMA TerminaConserva ==
  ASSUME PersonalInv, NEW s \in Solicitudes, Termina(s), UNCHANGED fila,
         candado' \in {candado, Ninguna}, candado' # s,
         \A o \in Solicitudes \ {s} : candado' = o <=> candado = o,
         incierta \subseteq incierta', incierta' \subseteq Cuentas,
         pedidos' \in 0 .. MaxPedidos, fallas' \in 0 .. MaxFallas,
         cuenta' \in [Cuentas -> Cuenta],
         \A c \in Cuentas : cuenta[c].estado # "nunca" => cuenta'[c].estado # "nunca",
         \A c \in Cuentas :
           cuenta'[c].sesion /\ ~cuenta'[c].habilitada /\ c \notin incierta' =>
             /\ cuenta[c].sesion /\ ~cuenta[c].habilitada
             /\ sol[s].quien = c => ~VaACerrar(s)
  PROVE  PersonalInv'
<1> USE PersonalAssumption
<1>0. PersonalTypeOK
  BY DEF PersonalInv
<1>1. /\ Cambia(s) /\ sol'[s].fase = "libre"
      /\ \A o \in Solicitudes \ {s} : sol'[o] = sol[o]
  BY DEF Termina, Cambia
<1>3. PersonalTypeOK'
  BY <1>0, <1>1 DEF PersonalTypeOK, Cambia
<1>4. Validas'
  <2>1. \A o \in Solicitudes \ {s} : sol'[o] = sol[o] /\ (candado' = o <=> candado = o)
    BY <1>1
  <2> QED BY <1>1, <2>1 DEF PersonalInv, Validas
<1>5. Nuevas'
  <2>1. \A o \in Solicitudes : Creando(o)' => Creando(o) /\ sol'[o] = sol[o]
    BY <1>1 DEF Creando
  <2>2. \A o \in Solicitudes : sol'[o].fase \in {"rol", "alta"} =>
          sol'[o] = sol[o] /\ sol[o].quien \in Cuentas
    BY <1>1 DEF PersonalInv, Validas
  <2>3. Nuevas /\ \A p \in Personas : p \in Cuentas
    BY DEF PersonalInv, Cuentas
  <2> QED BY <2>1, <2>2, <2>3 DEF Nuevas
<1>6. NuncaSinAdmin'
  BY DEF PersonalInv, NuncaSinAdmin, EsAdminActivo
<1>7. QuedaOtro'
  BY <1>1 DEF PersonalInv, QuedaOtro, HayOtroAdmin, EsAdminActivo
<1>8. PerdidosInciertos'
  BY <1>1 DEF PersonalInv, PerdidosInciertos
<1>9. SesionesPorCerrar'
  <2>1. \A o \in Solicitudes \ {s} : VaACerrar(o) <=> VaACerrar(o)'
    BY <1>1 DEF VaACerrar
  <2>2. SUFFICES ASSUME NEW c \in Cuentas,
                        cuenta'[c].sesion, ~cuenta'[c].habilitada, c \notin incierta'
                 PROVE  \E o \in Solicitudes : sol'[o].quien = c /\ VaACerrar(o)'
    BY DEF SesionesPorCerrar
  <2>3. PICK o \in Solicitudes : sol[o].quien = c /\ VaACerrar(o)
    BY <2>2 DEF PersonalInv, SesionesPorCerrar
  <2>4. o # s
    BY <2>2, <2>3
  <2> QED BY <1>1, <2>1, <2>3, <2>4
<1> QED BY <1>3, <1>4, <1>5, <1>6, <1>7, <1>8, <1>9 DEF PersonalInv

-----------------------------------------------------------------------------
(* The steps *)

\* Creating begins for somebody whose account was never there.
LEMMA PedirCrearConserva ==
  ASSUME PersonalInv, NEW s \in Solicitudes, NEW p \in Personas, NEW rol \in Roles,
         PedirCrear(s, p, rol)
  PROVE  PersonalInv'
BY LlegaConserva DEF PedirCrear, Cuentas, Operaciones

\* A change of a person waits for the lock.
LEMMA PedirCambioConserva ==
  ASSUME PersonalInv, NEW s \in Solicitudes, NEW op \in ConCandado,
         NEW p \in Personas, NEW rol \in Roles, PedirCambio(s, op, p, rol)
  PROVE  PersonalInv'
BY LlegaConserva DEF PedirCambio, Cuentas, Operaciones

\* A change of an account of the kitchen is of nobody of the staff.
LEMMA PedirCocinaConserva ==
  ASSUME PersonalInv, NEW s \in Solicitudes, NEW op \in ConCandado,
         NEW c \in Cocinas, PedirCocina(s, op, c)
  PROVE  PersonalInv'
<1>1. c \in Cuentas /\ c \notin Personas /\ op \in Operaciones /\ "MOZO" \in Roles
  BY PersonalAssumption DEF Cuentas, Operaciones, Roles
<1>2. Llega(s, "keycloak", op, c, "MOZO") /\ op # "crear"
  BY DEF PedirCocina
<1> QED BY <1>1, <1>2, LlegaConserva

\* Closing the sessions of an account.
LEMMA PedirCerrarConserva ==
  ASSUME PersonalInv, NEW s \in Solicitudes, NEW c \in Cuentas,
         PedirCerrar(s, c) \/ PedirContrasena(s, c)
  PROVE  PersonalInv'
<1>1. Llega(s, "salir", "cerrar", c, "MOZO")
  BY DEF PedirCerrar, PedirContrasena
<1>2. "cerrar" \in Operaciones /\ "MOZO" \in Roles
  BY DEF Operaciones, Roles
<1> QED BY <1>1, <1>2, LlegaConserva

\* A session opens in an account that is enabled.
LEMMA IngresarConserva ==
  ASSUME PersonalInv, NEW c \in Cuentas, Ingresar(c)
  PROVE  PersonalInv'
<1>0. PersonalTypeOK
  BY DEF PersonalInv
<1>1. /\ cuenta' \in [Cuentas -> Cuenta]
      /\ \A d \in Cuentas : cuenta'[d].estado = cuenta[d].estado
      /\ \A d \in Cuentas : d # c => cuenta'[d] = cuenta[d]
      /\ cuenta'[c].habilitada
  <2>1. cuenta[c] \in Cuenta
    BY <1>0 DEF PersonalTypeOK
  <2>2. [cuenta[c] EXCEPT !.sesion = TRUE] \in Cuenta
    BY <2>1 DEF Cuenta
  <2>3. cuenta' = [cuenta EXCEPT ![c] = [cuenta[c] EXCEPT !.sesion = TRUE]]
    BY DEF Ingresar
  <2>4. [cuenta[c] EXCEPT !.sesion = TRUE].estado = cuenta[c].estado
    BY <2>1 DEF Cuenta
  <2>5. [cuenta[c] EXCEPT !.sesion = TRUE].habilitada
    BY <2>1 DEF Cuenta, Ingresar
  <2> QED BY <1>0, <2>2, <2>3, <2>4, <2>5 DEF PersonalTypeOK
<1>2. UNCHANGED <<fila, sol, candado, incierta, pedidos, fallas>>
  BY DEF Ingresar
<1>3. PersonalTypeOK'
  BY <1>0, <1>1, <1>2 DEF PersonalTypeOK
<1>4. Validas'
  BY <1>2 DEF PersonalInv, Validas
<1>5. Nuevas'
  <2>1. \A o \in Solicitudes : Creando(o)' <=> Creando(o)
    BY <1>2 DEF Creando
  <2>2. \A o \in Solicitudes : sol[o].fase # "libre" => sol[o].quien \in Cuentas
    BY DEF PersonalInv, Validas
  <2>3. \A p \in Personas : p \in Cuentas
    BY DEF Cuentas
  <2> QED BY <1>1, <1>2, <2>1, <2>2, <2>3 DEF PersonalInv, Nuevas
<1>6. NuncaSinAdmin' /\ QuedaOtro'
  BY <1>2 DEF PersonalInv, NuncaSinAdmin, QuedaOtro, HayOtroAdmin, EsAdminActivo
<1>7. PerdidosInciertos'
  BY <1>2 DEF PersonalInv, PerdidosInciertos
<1>8. SesionesPorCerrar'
  BY <1>1, <1>2 DEF PersonalInv, SesionesPorCerrar, VaACerrar
<1> QED BY <1>3, <1>4, <1>5, <1>6, <1>7, <1>8 DEF PersonalInv

\* A crash frees the lock, and is noted.
LEMMA CaeProcesoConserva ==
  ASSUME PersonalInv, NEW s \in Solicitudes, CaeProceso(s)
  PROVE  PersonalInv'
<1>0. PersonalTypeOK
  BY DEF PersonalInv
<1>1. Quien(s) \in Cuentas
  BY DEF PersonalInv, Validas, CaeProceso, EnFase, Quien
<1>2. Termina(s)
  BY <1>0, AcabaEfecto DEF CaeProceso
<1>3. /\ candado' \in {candado, Ninguna} /\ candado' # s
      /\ \A o \in Solicitudes \ {s} : candado' = o <=> candado = o
  BY <1>0, SueltaEfecto DEF CaeProceso
<1>4. /\ fallas' \in 0 .. MaxFallas
      /\ incierta' = incierta \cup {sol[s].quien} /\ incierta' \subseteq Cuentas
  BY <1>0, <1>1, FallaEfecto DEF CaeProceso
<1>5. UNCHANGED <<fila, cuenta, pedidos>>
  BY DEF CaeProceso
<1>6. cuenta' \in [Cuentas -> Cuenta] /\ pedidos' \in 0 .. MaxPedidos
  BY <1>0, <1>5 DEF PersonalTypeOK
<1> QED BY <1>2, <1>3, <1>4, <1>5, <1>6, TerminaConserva

\* A transaction that times out frees the lock, and is noted.
LEMMA VenceTransaccionConserva ==
  ASSUME PersonalInv, NEW s \in Solicitudes, VenceTransaccion(s)
  PROVE  PersonalInv'
<1> USE PersonalAssumption
<1>0. PersonalTypeOK
  BY DEF PersonalInv
<1>1. candado = s /\ sol[s].quien \in Cuentas
  BY DEF PersonalInv, Validas, VenceTransaccion, Cuentas
<1>2. candado' = Ninguna /\ UNCHANGED <<fila, cuenta, pedidos>>
  BY DEF VenceTransaccion
<1>3. /\ fallas' \in 0 .. MaxFallas
      /\ incierta' = incierta \cup {sol[s].quien} /\ incierta' \subseteq Cuentas
  BY <1>0, <1>1, FallaEfecto DEF VenceTransaccion, Quien
<1>4. CASE EnFase(s, "fila")
  <2>1. Termina(s)
    BY <1>0, <1>4, AcabaEfecto DEF VenceTransaccion
  <2>2. cuenta' \in [Cuentas -> Cuenta] /\ pedidos' \in 0 .. MaxPedidos
    BY <1>0, <1>2 DEF PersonalTypeOK
  <2> QED BY <1>1, <1>2, <1>3, <2>1, <2>2, TerminaConserva
<1>5. CASE ~EnFase(s, "fila")
  <2>1. UNCHANGED sol
    BY <1>5 DEF VenceTransaccion
  <2>2. PersonalTypeOK'
    BY <1>0, <1>2, <1>3, <2>1 DEF PersonalTypeOK
  <2>3. sol[s].fase = "keycloak"
    BY <1>0, <1>1, <1>5 DEF PersonalTypeOK, EnFase
  <2>4. Validas'
    BY <1>1, <1>2, <2>1, <2>3 DEF PersonalInv, Validas
  <2>5. Nuevas' /\ NuncaSinAdmin'
    BY <1>2, <2>1 DEF PersonalInv, Nuevas, Creando, NuncaSinAdmin, EsAdminActivo
  <2>6. QuedaOtro'
    BY <1>2 DEF QuedaOtro
  <2>7. PerdidosInciertos'
    BY <1>1, <1>2, <1>3, <2>1 DEF PersonalInv, PerdidosInciertos
  <2>8. SesionesPorCerrar'
    BY <1>2, <1>3, <2>1 DEF PersonalInv, SesionesPorCerrar, VaACerrar
  <2> QED BY <2>2, <2>4, <2>5, <2>6, <2>7, <2>8 DEF PersonalInv
<1> QED BY <1>4, <1>5

\* The sessions are closed, or what is left is noted.
LEMMA CerrarSesionesConserva ==
  ASSUME PersonalInv, NEW s \in Solicitudes, CerrarSesiones(s)
  PROVE  PersonalInv'
<1>0. PersonalTypeOK
  BY DEF PersonalInv
<1>1. sol[s].fase = "salir" /\ sol[s].quien \in Cuentas
  BY DEF PersonalInv, Validas, CerrarSesiones, EnFase
<1>2. Termina(s) /\ UNCHANGED <<fila, candado, pedidos>>
  BY <1>0, AcabaEfecto DEF CerrarSesiones
<1>3. candado # s /\ pedidos' \in 0 .. MaxPedidos
  BY <1>0, <1>1, <1>2, PersonalAssumption DEF PersonalTypeOK
<1>4. CASE UnaFalla(s) /\ UNCHANGED cuenta
  <2>1. /\ fallas' \in 0 .. MaxFallas
        /\ incierta' = incierta \cup {sol[s].quien} /\ incierta' \subseteq Cuentas
    BY <1>0, <1>1, <1>4, FallaEfecto DEF Quien
  <2>2. cuenta' \in [Cuentas -> Cuenta]
    BY <1>0, <1>4 DEF PersonalTypeOK
  <2> QED BY <1>2, <1>3, <1>4, <2>1, <2>2, TerminaConserva
<1>5. CASE cuenta' = [cuenta EXCEPT ![Quien(s)].sesion = FALSE] /\ SinFallas
  <2> DEFINE q == sol[s].quien
             k == [cuenta[q] EXCEPT !.sesion = FALSE]
  <2>1. cuenta[q] \in Cuenta
    BY <1>0, <1>1 DEF PersonalTypeOK
  <2>2. k \in Cuenta /\ k.estado = cuenta[q].estado /\ ~k.sesion
    BY <2>1 DEF Cuenta
  <2>3. cuenta' = [cuenta EXCEPT ![q] = k]
    BY <1>5 DEF Quien
  <2>4. /\ cuenta' \in [Cuentas -> Cuenta]
        /\ cuenta'[q] = k
        /\ \A c \in Cuentas \ {q} : cuenta'[c] = cuenta[c]
    BY <1>0, <1>1, <2>2, <2>3 DEF PersonalTypeOK
  <2>5. \A c \in Cuentas : cuenta[c].estado # "nunca" => cuenta'[c].estado # "nunca"
    BY <2>2, <2>4
  <2>6. \A c \in Cuentas : cuenta'[c].sesion => c # q
    BY <2>2, <2>4
  <2>7. UNCHANGED <<incierta, fallas>>
    BY <1>5 DEF SinFallas
  <2>8. incierta' \subseteq Cuentas /\ fallas' \in 0 .. MaxFallas
    BY <1>0, <2>7 DEF PersonalTypeOK
  <2> QED BY <1>2, <1>3, <2>4, <2>5, <2>6, <2>7, <2>8, TerminaConserva
<1> QED BY <1>4, <1>5 DEF CerrarSesiones

\* The account is deleted with its sessions, or what is left is noted.
LEMMA DeshacerConserva ==
  ASSUME PersonalInv, NEW s \in Solicitudes, Deshacer(s)
  PROVE  PersonalInv'
<1>0. PersonalTypeOK
  BY DEF PersonalInv
<1>1. sol[s].fase = "deshacer" /\ sol[s].quien \in Cuentas
  BY DEF PersonalInv, Validas, Deshacer, EnFase
<1>2. Termina(s) /\ UNCHANGED <<fila, candado, pedidos>>
  BY <1>0, AcabaEfecto DEF Deshacer
<1>3. candado # s /\ pedidos' \in 0 .. MaxPedidos
  BY <1>0, <1>1, <1>2, PersonalAssumption DEF PersonalTypeOK
<1>4. CASE UnaFalla(s) /\ UNCHANGED cuenta
  <2>1. /\ fallas' \in 0 .. MaxFallas
        /\ incierta' = incierta \cup {sol[s].quien} /\ incierta' \subseteq Cuentas
    BY <1>0, <1>1, <1>4, FallaEfecto DEF Quien
  <2>2. cuenta' \in [Cuentas -> Cuenta]
    BY <1>0, <1>4 DEF PersonalTypeOK
  <2> QED BY <1>2, <1>3, <1>4, <2>1, <2>2, TerminaConserva
<1>5. CASE cuenta' = [cuenta EXCEPT ![Quien(s)] = Borrada(@)] /\ SinFallas
  <2> DEFINE q == sol[s].quien
             k == Borrada(cuenta[q])
  <2>1. cuenta[q] \in Cuenta
    BY <1>0, <1>1 DEF PersonalTypeOK
  <2>2. k \in Cuenta /\ k.estado # "nunca" /\ ~k.sesion
    BY <2>1 DEF Cuenta, Borrada
  <2>3. cuenta' = [cuenta EXCEPT ![q] = k]
    BY <1>5 DEF Quien
  <2>4. /\ cuenta' \in [Cuentas -> Cuenta]
        /\ cuenta'[q] = k
        /\ \A c \in Cuentas \ {q} : cuenta'[c] = cuenta[c]
    BY <1>0, <1>1, <2>2, <2>3 DEF PersonalTypeOK
  <2>5. \A c \in Cuentas : cuenta[c].estado # "nunca" => cuenta'[c].estado # "nunca"
    BY <2>2, <2>4
  <2>6. \A c \in Cuentas : cuenta'[c].sesion => c # q
    BY <2>2, <2>4
  <2>7. UNCHANGED <<incierta, fallas>>
    BY <1>5 DEF SinFallas
  <2>8. incierta' \subseteq Cuentas /\ fallas' \in 0 .. MaxFallas
    BY <1>0, <2>7 DEF PersonalTypeOK
  <2> QED BY <1>2, <1>3, <2>4, <2>5, <2>6, <2>7, <2>8, TerminaConserva
<1> QED BY <1>4, <1>5 DEF Deshacer

\* Who gets the lock sees another administrator, whatever it is going to do.
LEMMA EntrarConserva ==
  ASSUME PersonalInv, NEW s \in Solicitudes, Entrar(s)
  PROVE  PersonalInv'
<1> USE PersonalAssumption
<1>0. PersonalTypeOK
  BY DEF PersonalInv
<1> DEFINE q == sol[s].quien
<1>1. /\ sol[s].fase = "candado" /\ q \in Personas /\ q \in Cuentas
      /\ sol[s].op \in ConCandado /\ candado = Ninguna
  BY DEF PersonalInv, Validas, Entrar, EnFase, Cuentas
<1>2. UNCHANGED <<fila, cuenta, incierta, pedidos, fallas>>
  BY DEF Entrar
<1>3. /\ cuenta' \in [Cuentas -> Cuenta] /\ incierta' \subseteq Cuentas
      /\ pedidos' \in 0 .. MaxPedidos /\ fallas' \in 0 .. MaxFallas
  BY <1>0, <1>2 DEF PersonalTypeOK
<1>4. CASE Acaba(s) /\ UNCHANGED candado
  <2>1. Termina(s) /\ ~VaACerrar(s) /\ candado' # s
    BY <1>0, <1>1, <1>4, AcabaEfecto DEF VaACerrar
  <2> QED BY <1>2, <1>3, <1>4, <2>1, TerminaConserva
<1>5. CASE Procede(s) /\ candado' = s /\ Pasa(s, "keycloak")
  <2>1. Avanza(s, "keycloak")
    BY <1>0, <1>5, PasaEfecto DEF Fases
  <2>2. PersonalTypeOK'
    BY <1>0, <1>1, <1>2, <1>5, <2>1 DEF PersonalTypeOK, Avanza, Cambia
  <2>3. Validas'
    BY <1>1, <1>5, <2>1 DEF PersonalInv, Validas, Avanza, Cambia
  <2>4. \A o \in Solicitudes : Creando(o)' => Creando(o) /\ sol'[o] = sol[o]
    BY <1>1, <2>1 DEF Creando, Avanza, Cambia, ConCandado
  <2>5. \A o \in Solicitudes : sol'[o].fase \in {"rol", "alta"} => sol'[o] = sol[o]
    BY <2>1 DEF Avanza, Cambia
  <2>6. Nuevas'
    BY <1>2, <2>4, <2>5 DEF PersonalInv, Nuevas
  <2>7. NuncaSinAdmin'
    BY <1>2 DEF PersonalInv, NuncaSinAdmin, EsAdminActivo
  <2>8. sol[s].op # "reactivar" => HayOtroAdmin(q)
    <3>1. CASE fila[q].rol = "ADMIN"
      BY <1>1, <1>5, <3>1 DEF Procede, Quien, ConCandado
    <3>2. CASE fila[q].rol # "ADMIN"
      BY <3>2 DEF PersonalInv, NuncaSinAdmin, HayOtroAdmin, EsAdminActivo
    <3> QED BY <3>1, <3>2
  <2>9. QuedaOtro'
    BY <1>2, <1>5, <2>1, <2>8 DEF QuedaOtro, HayOtroAdmin, EsAdminActivo, Avanza
  <2>10. PerdidosInciertos'
    BY <1>1, <1>2, <1>5, <2>1 DEF PersonalInv, PerdidosInciertos, Avanza, Cambia
  <2>11. \A o \in Solicitudes : VaACerrar(o) => VaACerrar(o)' /\ sol'[o] = sol[o]
    BY <1>1, <2>1 DEF VaACerrar, Avanza, Cambia
  <2>12. SesionesPorCerrar'
    BY <1>2, <2>11 DEF PersonalInv, SesionesPorCerrar
  <2> QED BY <2>2, <2>3, <2>6, <2>7, <2>9, <2>10, <2>12 DEF PersonalInv
<1> QED BY <1>4, <1>5 DEF Entrar

-----------------------------------------------------------------------------
(* The steps that write accounts and rows *)

\* A step of a creation touches nobody that has a row: who is being created
\* had none, so it is none of the administrators that there are.
LEMMA CreandoConserva ==
  ASSUME PersonalInv, NEW s \in Solicitudes, sol[s].fase \in {"rol", "alta"},
         Cambia(s), sol'[s].fase \in {"alta", "deshacer", "libre"},
         sol'[s].fase # "libre" => sol'[s].quien = sol[s].quien,
         UNCHANGED candado, incierta \subseteq incierta', incierta' \subseteq Cuentas,
         pedidos' \in 0 .. MaxPedidos, fallas' \in 0 .. MaxFallas,
         cuenta' \in [Cuentas -> Cuenta],
         \A c \in Cuentas : /\ cuenta'[c].estado = cuenta[c].estado
                            /\ cuenta'[c].sesion = cuenta[c].sesion
                            /\ cuenta'[c].habilitada = cuenta[c].habilitada,
         fila' \in [Personas -> Fila],
         \A p \in Personas \ {sol[s].quien} : fila'[p] = fila[p],
         sol'[s].fase = "alta" => UNCHANGED fila
  PROVE  PersonalInv'
<1> DEFINE q == sol[s].quien
<1>0. PersonalTypeOK /\ Validas /\ Nuevas
  BY DEF PersonalInv
<1>1. Creando(s) /\ q \in Personas /\ ~fila[q].hay /\ candado # s
  BY <1>0 DEF Validas, Nuevas, Creando
<1>2. \A p \in Personas : EsAdminActivo(p) => p # q /\ EsAdminActivo(p)'
  BY <1>1 DEF EsAdminActivo
<1>3. PersonalTypeOK'
  BY <1>0, <1>1 DEF PersonalTypeOK, Cambia
<1>4. Validas'
  BY <1>0, <1>1 DEF Validas, Cambia, Cuentas
<1>5. Nuevas'
  <2>1. \A o \in Solicitudes : Creando(o)' => Creando(o) /\ sol'[o].quien = sol[o].quien
    BY <1>1 DEF Cambia, Creando
  <2>2. ASSUME NEW o \in Solicitudes, Creando(o)'
        PROVE  ~fila'[sol'[o].quien].hay
    <3>1. CASE o = s
      <4>1. sol'[s].fase = "alta" /\ sol'[s].quien = q
        BY <2>2, <3>1 DEF Creando
      <4> QED BY <4>1, <3>1, <1>1
    <3>2. CASE o # s
      <4>1. Creando(o) /\ sol[o].quien # q /\ sol[o].quien \in Personas
        BY <2>1, <2>2, <3>2, <1>0, <1>1 DEF Nuevas, Validas, Creando
      <4> QED BY <4>1, <2>1, <2>2, <1>0 DEF Nuevas
    <3> QED BY <3>1, <3>2
  <2>3. \A o \in Solicitudes : sol'[o].fase \in {"rol", "alta"} =>
          sol[o].fase \in {"rol", "alta"} /\ sol'[o].quien = sol[o].quien
    BY DEF Cambia
  <2>4. \A o \in Solicitudes : sol'[o].fase \in {"rol", "alta"} =>
          cuenta'[sol'[o].quien].estado # "nunca"
    BY <2>3, <1>0 DEF Nuevas, Validas, Cuentas
  <2>5. \A p \in Personas : fila'[p].hay => cuenta'[p].estado # "nunca"
    BY <1>0, <1>1 DEF Nuevas, Cuentas
  <2>6. \A o, t \in Solicitudes :
          Creando(o)' /\ Creando(t)' /\ sol'[o].quien = sol'[t].quien => o = t
    BY <2>1, <1>0 DEF Nuevas
  <2> QED BY <2>2, <2>4, <2>5, <2>6 DEF Nuevas
<1>6. NuncaSinAdmin'
  BY <1>2 DEF PersonalInv, NuncaSinAdmin
<1>7. QuedaOtro'
  <2>1. ASSUME NEW o \in Solicitudes, candado = o, sol'[o].op # "reactivar"
        PROVE  HayOtroAdmin(sol[o].quien) /\ sol'[o] = sol[o]
    BY <1>1, <2>1 DEF PersonalInv, QuedaOtro, Cambia
  <2> QED BY <2>1, <1>2 DEF QuedaOtro, HayOtroAdmin
<1>8. PerdidosInciertos'
  BY DEF PersonalInv, PerdidosInciertos, Cambia
<1>9. SesionesPorCerrar'
  <2>1. \A o \in Solicitudes : VaACerrar(o) => VaACerrar(o)' /\ sol'[o] = sol[o]
    BY DEF Cambia, VaACerrar
  <2> QED BY <2>1 DEF PersonalInv, SesionesPorCerrar
<1> QED BY <1>3, <1>4, <1>5, <1>6, <1>7, <1>8, <1>9 DEF PersonalInv

\* The role is given to the account, or is not.
LEMMA AsignarRolConserva ==
  ASSUME PersonalInv, NEW s \in Solicitudes, AsignarRol(s)
  PROVE  PersonalInv'
<1> DEFINE q == sol[s].quien
<1>0. PersonalTypeOK
  BY DEF PersonalInv
<1>1. sol[s].fase = "rol" /\ q \in Cuentas /\ sol[s].rol \in Roles
  BY <1>0 DEF PersonalInv, Validas, AsignarRol, EnFase, PersonalTypeOK, Solicitud
<1>2. UNCHANGED <<fila, candado, incierta, pedidos, fallas>>
  BY DEF AsignarRol
<1>3. /\ fila' \in [Personas -> Fila] /\ incierta' \subseteq Cuentas
      /\ pedidos' \in 0 .. MaxPedidos /\ fallas' \in 0 .. MaxFallas
  BY <1>0, <1>2 DEF PersonalTypeOK
<1>4. Avanza(s, "alta") \/ Avanza(s, "deshacer")
  BY <1>0, PasaEfecto DEF AsignarRol, Fases
<1>5. /\ Cambia(s) /\ sol'[s].fase \in {"alta", "deshacer"}
      /\ sol'[s].quien = q
  BY <1>4 DEF Avanza
<1>6. /\ cuenta' \in [Cuentas -> Cuenta]
      /\ \A c \in Cuentas : /\ cuenta'[c].estado = cuenta[c].estado
                            /\ cuenta'[c].sesion = cuenta[c].sesion
                            /\ cuenta'[c].habilitada = cuenta[c].habilitada
  <2>1. CASE UNCHANGED cuenta
    BY <1>0, <2>1 DEF PersonalTypeOK
  <2>2. CASE cuenta' = [cuenta EXCEPT ![Quien(s)].roles = @ \cup {sol[s].rol}]
    <3> DEFINE k == [cuenta[q] EXCEPT !.roles = cuenta[q].roles \cup {sol[s].rol}]
    <3>1. cuenta[q] \in Cuenta
      BY <1>0, <1>1 DEF PersonalTypeOK
    <3>2. /\ k \in Cuenta /\ k.estado = cuenta[q].estado
          /\ k.sesion = cuenta[q].sesion /\ k.habilitada = cuenta[q].habilitada
      BY <1>1, <3>1 DEF Cuenta
    <3>3. cuenta' = [cuenta EXCEPT ![q] = k]
      BY <2>2 DEF Quien
    <3> QED BY <1>0, <1>1, <3>2, <3>3 DEF PersonalTypeOK
  <2> QED BY <2>1, <2>2 DEF AsignarRol
<1> QED BY <1>1, <1>2, <1>3, <1>5, <1>6, CreandoConserva

\* The row is inserted, or is not.
LEMMA InsertarFilaConserva ==
  ASSUME PersonalInv, NEW s \in Solicitudes, InsertarFila(s)
  PROVE  PersonalInv'
<1> DEFINE q == sol[s].quien
           nueva == [hay |-> TRUE, rol |-> sol[s].rol, activo |-> TRUE]
<1>0. PersonalTypeOK
  BY DEF PersonalInv
<1>1. /\ sol[s].fase = "alta" /\ q \in Personas /\ q \in Cuentas
      /\ sol[s].rol \in Roles
  BY <1>0 DEF PersonalInv, Validas, InsertarFila, EnFase, PersonalTypeOK, Solicitud
<1>2. UNCHANGED <<cuenta, candado, pedidos>>
  BY DEF InsertarFila
<1>3. cuenta' \in [Cuentas -> Cuenta] /\ pedidos' \in 0 .. MaxPedidos
  BY <1>0, <1>2 DEF PersonalTypeOK
<1>4. /\ incierta \subseteq incierta' /\ incierta' \subseteq Cuentas
      /\ fallas' \in 0 .. MaxFallas
  <2>1. CASE SinFallas
    BY <1>0, <2>1 DEF SinFallas, PersonalTypeOK
  <2>2. CASE UnaFalla(s)
    BY <1>0, <1>1, <2>2, FallaEfecto DEF Quien
  <2> QED BY <2>1, <2>2 DEF InsertarFila
<1>5. Avanza(s, "deshacer") \/ Termina(s)
  BY <1>0, PasaEfecto, AcabaEfecto DEF InsertarFila, Fases
<1>6. /\ Cambia(s) /\ sol'[s].fase \in {"deshacer", "libre"}
      /\ sol'[s].fase # "libre" => sol'[s].quien = q
  BY <1>5 DEF Avanza, Termina
<1>7. /\ fila' \in [Personas -> Fila]
      /\ \A p \in Personas \ {q} : fila'[p] = fila[p]
  <2>1. CASE UNCHANGED fila
    BY <1>0, <2>1 DEF PersonalTypeOK
  <2>2. CASE fila' = [fila EXCEPT ![Quien(s)] = nueva]
    <3>1. nueva \in Fila
      BY <1>1 DEF Fila
    <3> QED BY <1>0, <2>2, <3>1 DEF PersonalTypeOK, Quien
  <2> QED BY <2>1, <2>2 DEF InsertarFila
<1> QED BY <1>1, <1>2, <1>3, <1>4, <1>6, <1>7, CreandoConserva

\* A call that is done and whose request goes on.  What is deactivated by it
\* has its sessions to be closed.
LEMMA KeycloakSigue ==
  ASSUME PersonalInv, NEW s \in Solicitudes, sol[s].fase = "keycloak",
         NEW fase \in {"rol", "fila", "salir"}, Avanza(s, fase),
         UNCHANGED <<fila, candado, incierta, pedidos, fallas>>,
         cuenta' = [cuenta EXCEPT ![sol[s].quien] = TrasLlamada(s)],
         fase = "rol" <=> sol[s].op = "crear",
         fase = "fila" <=> candado = s,
         fase = "salir" => sol[s].op = "desactivar"
  PROVE  PersonalInv'
<1> DEFINE q == sol[s].quien
           k == TrasLlamada(s)
<1>0. PersonalTypeOK /\ Validas /\ Nuevas
  BY DEF PersonalInv
<1>1. /\ q \in Cuentas /\ sol[s].op \in ConCandado \cup {"crear"}
      /\ sol[s].op = "crear" => q \in Personas /\ Creando(s) /\ candado # s
      /\ candado = s => q \in Personas /\ sol[s].op \in ConCandado
  BY <1>0 DEF Validas, Creando
<1>2. /\ k \in Cuenta
      /\ k.estado # "nunca" \/ cuenta[q].estado = "nunca"
      /\ sol[s].op = "crear" => k.estado = "esta"
      /\ k.sesion /\ ~k.habilitada =>
           sol[s].op = "desactivar" \/ (cuenta[q].sesion /\ ~cuenta[q].habilitada)
  BY <1>0, <1>1, TrasLlamadaTipo
<1>3. /\ cuenta' \in [Cuentas -> Cuenta] /\ cuenta'[q] = k
      /\ \A c \in Cuentas \ {q} : cuenta'[c] = cuenta[c]
  BY <1>0, <1>1, <1>2 DEF PersonalTypeOK
<1>4. \A c \in Cuentas : cuenta[c].estado # "nunca" => cuenta'[c].estado # "nunca"
  BY <1>2, <1>3
<1>5. /\ Cambia(s) /\ sol'[s].fase = fase /\ sol'[s].quien = q
      /\ sol'[s].op = sol[s].op
  BY DEF Avanza
<1>6. PersonalTypeOK'
  <2>1. candado # Ninguna => sol'[candado].fase \in {"keycloak", "fila"}
    BY <1>0, <1>1, <1>5 DEF PersonalTypeOK, Cambia
  <2> QED BY <1>0, <1>3, <1>5, <2>1 DEF PersonalTypeOK, Cambia
<1>7. Validas'
  BY <1>0, <1>1, <1>5 DEF Validas, Cambia
<1>8. Nuevas'
  <2>1. \A o \in Solicitudes : Creando(o)' => Creando(o) /\ sol'[o].quien = sol[o].quien
    BY <1>1, <1>5 DEF Cambia, Creando
  <2>2. \A p \in Personas : fila[p].hay => cuenta'[p].estado # "nunca"
    BY <1>0, <1>4 DEF Nuevas, Cuentas
  <2>3. ASSUME NEW o \in Solicitudes, sol'[o].fase \in {"rol", "alta"}
        PROVE  cuenta'[sol'[o].quien].estado # "nunca"
    <3>1. CASE o = s
      BY <1>1, <1>2, <1>3, <1>5, <2>3, <3>1
    <3>2. CASE o # s
      <4>1. sol'[o] = sol[o] /\ sol[o].quien \in Cuentas
        BY <1>0, <1>5, <2>3, <3>2 DEF Cambia, Validas, Cuentas
      <4> QED BY <4>1, <1>0, <1>4, <2>3 DEF Nuevas
    <3> QED BY <3>1, <3>2
  <2> QED BY <1>0, <2>1, <2>2, <2>3 DEF Nuevas
<1>9. NuncaSinAdmin'
  BY DEF PersonalInv, NuncaSinAdmin, EsAdminActivo
<1>10. QuedaOtro'
  <2>1. \A o \in Solicitudes : sol'[o].op = sol[o].op /\ sol'[o].quien = sol[o].quien
    BY <1>5 DEF Cambia
  <2> QED BY <2>1 DEF PersonalInv, QuedaOtro, HayOtroAdmin, EsAdminActivo
<1>11. PerdidosInciertos'
  BY <1>5 DEF PersonalInv, PerdidosInciertos, Cambia
<1>12. SesionesPorCerrar'
  <2>1. SUFFICES ASSUME NEW c \in Cuentas,
                        cuenta'[c].sesion, ~cuenta'[c].habilitada, c \notin incierta
                 PROVE  \E o \in Solicitudes : sol'[o].quien = c /\ VaACerrar(o)'
    BY DEF SesionesPorCerrar
  <2>2. CASE cuenta[c].sesion /\ ~cuenta[c].habilitada
    <3>1. PICK o \in Solicitudes : sol[o].quien = c /\ VaACerrar(o)
      BY <2>1, <2>2 DEF PersonalInv, SesionesPorCerrar
    <3>2. o # s /\ sol'[o] = sol[o]
      BY <3>1, <1>5 DEF VaACerrar, Cambia
    <3> QED BY <3>1, <3>2 DEF VaACerrar
  <2>3. CASE ~(cuenta[c].sesion /\ ~cuenta[c].habilitada)
    <3>1. c = q /\ sol[s].op = "desactivar"
      BY <1>2, <1>3, <2>1, <2>3
    <3>2. fase \in {"fila", "salir"}
      BY <3>1
    <3> QED BY <1>5, <3>1, <3>2 DEF VaACerrar
  <2> QED BY <2>2, <2>3
<1> QED BY <1>6, <1>7, <1>8, <1>9, <1>10, <1>11, <1>12 DEF PersonalInv

\* A call that is done and whose request ends notes its account, if it was
\* deactivated by it.
LEMMA KeycloakTermina ==
  ASSUME PersonalInv, NEW s \in Solicitudes, sol[s].fase = "keycloak", Termina(s),
         UNCHANGED <<fila, pedidos>>,
         candado' \in {candado, Ninguna}, candado' # s,
         \A o \in Solicitudes \ {s} : candado' = o <=> candado = o,
         incierta \subseteq incierta', incierta' \subseteq Cuentas,
         fallas' \in 0 .. MaxFallas,
         cuenta' = [cuenta EXCEPT ![sol[s].quien] = TrasLlamada(s)],
         sol[s].op = "desactivar" => sol[s].quien \in incierta'
  PROVE  PersonalInv'
<1> DEFINE q == sol[s].quien
           k == TrasLlamada(s)
<1>0. PersonalTypeOK
  BY DEF PersonalInv
<1>1. q \in Cuentas /\ sol[s].op \in ConCandado \cup {"crear"} /\ ~VaACerrar(s)
  BY DEF PersonalInv, Validas, VaACerrar
<1>2. /\ k \in Cuenta
      /\ k.estado # "nunca" \/ cuenta[q].estado = "nunca"
      /\ k.sesion /\ ~k.habilitada =>
           sol[s].op = "desactivar" \/ (cuenta[q].sesion /\ ~cuenta[q].habilitada)
  BY <1>0, <1>1, TrasLlamadaTipo
<1>3. /\ cuenta' \in [Cuentas -> Cuenta] /\ cuenta'[q] = k
      /\ \A c \in Cuentas \ {q} : cuenta'[c] = cuenta[c]
  BY <1>0, <1>1, <1>2 DEF PersonalTypeOK
<1>4. \A c \in Cuentas : cuenta[c].estado # "nunca" => cuenta'[c].estado # "nunca"
  BY <1>2, <1>3
<1>5. \A c \in Cuentas :
        cuenta'[c].sesion /\ ~cuenta'[c].habilitada /\ c \notin incierta' =>
          cuenta[c].sesion /\ ~cuenta[c].habilitada
  BY <1>2, <1>3
<1>6. pedidos' \in 0 .. MaxPedidos
  BY <1>0 DEF PersonalTypeOK
<1> QED BY <1>1, <1>3, <1>4, <1>5, <1>6, TerminaConserva

\* The call is done, or not, or done with its answer lost.
LEMMA LlamarKeycloakConserva ==
  ASSUME PersonalInv, NEW s \in Solicitudes, LlamarKeycloak(s)
  PROVE  PersonalInv'
<1> DEFINE q == sol[s].quien
<1>0. PersonalTypeOK /\ Validas
  BY DEF PersonalInv
<1>1. /\ sol[s].fase = "keycloak" /\ q \in Cuentas
      /\ sol[s].op \in ConCandado \cup {"crear"} /\ ~VaACerrar(s)
      /\ sol[s].op = "crear" => candado # s
      /\ candado = s => q \in Personas
  BY <1>0 DEF Validas, LlamarKeycloak, EnFase, VaACerrar, ConCandado
<1>2. UNCHANGED <<fila, pedidos>> /\ pedidos' \in 0 .. MaxPedidos
  BY <1>0 DEF LlamarKeycloak, PersonalTypeOK
<1>3. ASSUME Acaba(s), Suelta(s), UNCHANGED cuenta, SinFallas
      PROVE  PersonalInv'
  <2>1. Termina(s)
    BY <1>0, <1>3, AcabaEfecto
  <2>2. /\ candado' \in {candado, Ninguna} /\ candado' # s
        /\ \A o \in Solicitudes \ {s} : candado' = o <=> candado = o
    BY <1>0, <1>3, SueltaEfecto
  <2>3. /\ incierta' = incierta /\ incierta' \subseteq Cuentas
        /\ fallas' \in 0 .. MaxFallas /\ cuenta' \in [Cuentas -> Cuenta]
    BY <1>0, <1>3 DEF SinFallas, PersonalTypeOK
  <2> QED BY <1>1, <1>2, <1>3, <2>1, <2>2, <2>3, TerminaConserva
<1>4. ASSUME cuenta' = [cuenta EXCEPT ![Quien(s)] = TrasLlamada(s)],
             UnaFalla(s), Acaba(s), Suelta(s)
      PROVE  PersonalInv'
  <2>1. Termina(s)
    BY <1>0, <1>4, AcabaEfecto
  <2>2. /\ candado' \in {candado, Ninguna} /\ candado' # s
        /\ \A o \in Solicitudes \ {s} : candado' = o <=> candado = o
    BY <1>0, <1>4, SueltaEfecto
  <2>3. /\ incierta' = incierta \cup {q} /\ incierta' \subseteq Cuentas
        /\ fallas' \in 0 .. MaxFallas
    BY <1>0, <1>1, <1>4, FallaEfecto DEF Quien
  <2> QED BY <1>1, <1>2, <1>4, <2>1, <2>2, <2>3, KeycloakTermina DEF Quien
<1>5. ASSUME cuenta' = [cuenta EXCEPT ![Quien(s)] = TrasLlamada(s)],
             Sigue(s), UNCHANGED candado, SinFallas
      PROVE  PersonalInv'
  <2>1. /\ incierta' = incierta /\ incierta' \subseteq Cuentas
        /\ fallas' = fallas /\ fallas' \in 0 .. MaxFallas
    BY <1>0, <1>5 DEF SinFallas, PersonalTypeOK
  <2>2. cuenta' = [cuenta EXCEPT ![q] = TrasLlamada(s)]
    BY <1>5 DEF Quien
  <2>3. CASE sol[s].op = "crear"
    <3>1. Pasa(s, "rol")
      BY <1>5, <2>3 DEF Sigue, ConCandado
    <3>2. Avanza(s, "rol")
      BY <1>0, <3>1, PasaEfecto DEF Fases
    <3> QED BY <1>1, <1>2, <1>5, <2>1, <2>2, <2>3, <3>2, KeycloakSigue
  <2>4. CASE sol[s].op \in ConCandado /\ candado = s
    <3>1. Avanza(s, "fila")
      BY <1>0, <1>1, <1>5, <2>4, PasaEfecto DEF Sigue, Fases, ConCandado, Quien
    <3>2. sol[s].op # "crear" /\ UNCHANGED <<fila, candado, incierta, pedidos, fallas>>
      BY <1>2, <1>5, <2>1, <2>4 DEF ConCandado
    <3> QED BY <1>1, <2>2, <2>4, <3>1, <3>2, KeycloakSigue
  <2>5. CASE sol[s].op \in ConCandado /\ candado # s /\ q \in Personas
    <3>1. Termina(s)
      BY <1>0, <1>5, <2>5, AcabaEfecto DEF Sigue, ConCandado, Quien
    <3>2. q \in incierta
      BY <1>1, <2>5 DEF PersonalInv, PerdidosInciertos, ConCandado
    <3> QED
      BY <1>1, <1>2, <1>5, <2>1, <2>2, <2>5, <3>1, <3>2, KeycloakTermina
  <2>6. CASE sol[s].op \in ConCandado /\ q \notin Personas
    <3>1. Responder(s) /\ candado # s
      BY <1>1, <1>5, <2>6 DEF Sigue, ConCandado, Quien
    <3>2. CASE sol[s].op = "desactivar"
      <4>1. Avanza(s, "salir")
        BY <1>0, <3>1, <3>2, PasaEfecto DEF Responder, Fases
      <4> QED BY <1>1, <1>2, <1>5, <2>1, <2>2, <3>1, <3>2, <4>1, KeycloakSigue
    <3>3. CASE sol[s].op # "desactivar"
      <4>1. Termina(s)
        BY <1>0, <3>1, <3>3, AcabaEfecto DEF Responder
      <4> QED BY <1>1, <1>2, <1>5, <2>1, <2>2, <3>1, <3>3, <4>1, KeycloakTermina
    <3> QED BY <3>2, <3>3
  <2> QED BY <1>1, <2>3, <2>4, <2>5, <2>6
<1> QED BY <1>3, <1>4, <1>5 DEF LlamarKeycloak

\* The row is written by who holds the lock: another administrator is left,
\* or nobody is taken away.
LEMMA ConfirmarConserva ==
  ASSUME PersonalInv, NEW s \in Solicitudes, Confirmar(s)
  PROVE  PersonalInv'
<1> USE PersonalAssumption
<1> DEFINE q == sol[s].quien
<1>0. PersonalTypeOK /\ Validas /\ Nuevas
  BY DEF PersonalInv
<1>1. /\ sol[s].fase = "fila" /\ q \in Personas /\ q \in Cuentas
      /\ sol[s].op \in ConCandado /\ candado = s
  BY <1>0 DEF Validas, Confirmar, EnFase, Cuentas
<1>2. UNCHANGED <<cuenta, pedidos>> /\ candado' = Ninguna
  BY <1>1 DEF Confirmar, Suelta
<1>3. cuenta' \in [Cuentas -> Cuenta] /\ pedidos' \in 0 .. MaxPedidos
  BY <1>0, <1>2 DEF PersonalTypeOK
<1>4. CASE UnaFalla(s) /\ Acaba(s) /\ UNCHANGED fila
  <2>1. Termina(s)
    BY <1>0, <1>4, AcabaEfecto
  <2>2. /\ incierta' = incierta \cup {q} /\ incierta' \subseteq Cuentas
        /\ fallas' \in 0 .. MaxFallas
    BY <1>0, <1>1, <1>4, FallaEfecto DEF Quien
  <2>3. \A o \in Solicitudes \ {s} : candado' = o <=> candado = o
    BY <1>1, <1>2
  <2> QED BY <1>1, <1>2, <1>3, <1>4, <2>1, <2>2, <2>3, TerminaConserva
<1>5. CASE /\ fila' = [fila EXCEPT ![Quien(s)] = FilaTras(s)]
           /\ Responder(s)
           /\ SinFallas
  <2> DEFINE f == FilaTras(s)
  <2>1. /\ f \in Fila
        /\ f.hay => fila[q].hay
        /\ sol[s].op = "reactivar" =>
             (f.hay <=> fila[q].hay) /\ f.rol = fila[q].rol /\ f.activo
    BY <1>0, <1>1, FilaTrasTipo
  <2>2. /\ fila' \in [Personas -> Fila] /\ fila'[q] = f
        /\ \A p \in Personas \ {q} : fila'[p] = fila[p]
    BY <1>0, <1>1, <1>5, <2>1 DEF PersonalTypeOK, Quien
  <2>3. UNCHANGED <<incierta, fallas>>
    BY <1>5 DEF SinFallas
  <2>4. \/ Avanza(s, "salir")
        \/ Termina(s) /\ sol[s].op # "desactivar"
    BY <1>0, <1>5, PasaEfecto, AcabaEfecto DEF Responder, Fases
  <2>5. /\ Cambia(s)
        /\ sol'[s].fase \in {"salir", "libre"}
        /\ sol'[s].fase = "salir" => sol'[s].quien = q
        /\ sol[s].op = "desactivar" => sol'[s].fase = "salir"
    BY <2>4 DEF Avanza, Termina
  <2>6. PersonalTypeOK'
    <3>1. candado' \in Solicitudes \cup {Ninguna}
      BY <1>2
    <3> QED BY <1>0, <1>2, <1>3, <2>2, <2>3, <2>5, <3>1 DEF PersonalTypeOK, Cambia
  <2>7. \A o \in Solicitudes : candado' # o
    BY <1>2
  <2>8. Validas'
    <3>1. ASSUME NEW o \in Solicitudes, o # s
          PROVE  sol'[o] = sol[o] /\ sol[o].fase # "fila"
      BY <1>0, <1>1, <2>5, <3>1 DEF Validas, Cambia
    <3> QED BY <1>0, <1>1, <2>5, <2>7, <3>1 DEF Validas
  <2>9. Nuevas'
    <3>1. \A o \in Solicitudes : Creando(o)' => Creando(o) /\ sol'[o] = sol[o]
      BY <1>1, <2>5 DEF Cambia, Creando
    <3>2. \A p \in Personas : fila'[p].hay => fila[p].hay
      BY <2>1, <2>2
    <3>3. \A o \in Solicitudes : sol'[o].fase \in {"rol", "alta"} => sol'[o] = sol[o]
      BY <2>5 DEF Cambia
    <3>4. \A o \in Solicitudes : Creando(o) => sol[o].quien \in Personas
      BY <1>0 DEF Validas, Creando
    <3>5. \A o \in Solicitudes : Creando(o)' => ~fila'[sol'[o].quien].hay
      BY <1>0, <3>1, <3>2, <3>4 DEF Nuevas
    <3>6. \A p \in Personas : fila'[p].hay => cuenta'[p].estado # "nunca"
      BY <1>0, <1>2, <3>2 DEF Nuevas
    <3> QED BY <1>0, <1>2, <3>1, <3>3, <3>5, <3>6 DEF Nuevas
  <2>10. NuncaSinAdmin'
    <3>1. CASE sol[s].op = "reactivar"
      <4>1. \A p \in Personas : EsAdminActivo(p) => EsAdminActivo(p)'
        BY <2>1, <2>2, <3>1 DEF EsAdminActivo
      <4> QED BY <4>1 DEF PersonalInv, NuncaSinAdmin
    <3>2. CASE sol[s].op # "reactivar"
      <4>1. HayOtroAdmin(q)
        BY <1>1, <3>2 DEF PersonalInv, QuedaOtro
      <4>2. PICK p \in Personas \ {q} : EsAdminActivo(p)
        BY <4>1 DEF HayOtroAdmin
      <4>3. EsAdminActivo(p)'
        BY <4>2, <2>2 DEF EsAdminActivo
      <4> QED BY <4>2, <4>3 DEF NuncaSinAdmin
    <3> QED BY <3>1, <3>2
  <2>11. QuedaOtro'
    BY <2>7 DEF QuedaOtro
  <2>12. PerdidosInciertos'
    <3>1. \A o \in Solicitudes \ {s} : sol'[o] = sol[o] /\ candado # o
      BY <1>1, <2>5 DEF Cambia
    <3> QED BY <2>3, <2>5, <3>1 DEF PersonalInv, PerdidosInciertos
  <2>13. SesionesPorCerrar'
    <3>1. \A o \in Solicitudes : VaACerrar(o) =>
            VaACerrar(o)' /\ sol'[o].quien = sol[o].quien
      BY <1>1, <2>5 DEF VaACerrar, Cambia
    <3> QED BY <1>2, <2>3, <3>1 DEF PersonalInv, SesionesPorCerrar
  <2> QED BY <2>6, <2>8, <2>9, <2>10, <2>11, <2>12, <2>13 DEF PersonalInv
<1> QED BY <1>4, <1>5 DEF Confirmar

-----------------------------------------------------------------------------
(* The theorems *)

\* Every step keeps the invariant.
LEMMA PersonalPaso == PersonalInv /\ [PersonalNext]_personalVars => PersonalInv'
<1> SUFFICES ASSUME PersonalInv, [PersonalNext]_personalVars PROVE PersonalInv'
  OBVIOUS
<1>1. CASE UNCHANGED personalVars
  BY <1>1 DEF personalVars, PersonalInv, PersonalTypeOK, Validas, Nuevas, Creando,
     NuncaSinAdmin, QuedaOtro, HayOtroAdmin, EsAdminActivo, PerdidosInciertos,
     SesionesPorCerrar, VaACerrar
<1>2. ASSUME NEW s \in Solicitudes, NEW p \in Personas, NEW rol \in Roles,
             \/ PedirCrear(s, p, rol)
             \/ \E op \in ConCandado : PedirCambio(s, op, p, rol)
      PROVE  PersonalInv'
  BY <1>2, PedirCrearConserva, PedirCambioConserva
<1>3. ASSUME NEW s \in Solicitudes, NEW c \in Cocinas, NEW op \in ConCandado,
             PedirCocina(s, op, c)
      PROVE  PersonalInv'
  BY <1>3, PedirCocinaConserva
<1>4. ASSUME NEW s \in Solicitudes, NEW c \in Cuentas,
             PedirCerrar(s, c) \/ PedirContrasena(s, c)
      PROVE  PersonalInv'
  BY <1>4, PedirCerrarConserva
<1>5. ASSUME NEW s \in Solicitudes,
             Entrar(s) \/ LlamarKeycloak(s) \/ Confirmar(s) \/ CerrarSesiones(s)
      PROVE  PersonalInv'
  BY <1>5, EntrarConserva, LlamarKeycloakConserva, ConfirmarConserva,
     CerrarSesionesConserva
<1>6. ASSUME NEW s \in Solicitudes,
             AsignarRol(s) \/ InsertarFila(s) \/ Deshacer(s)
      PROVE  PersonalInv'
  BY <1>6, AsignarRolConserva, InsertarFilaConserva, DeshacerConserva
<1>7. ASSUME NEW s \in Solicitudes, VenceTransaccion(s) \/ CaeProceso(s)
      PROVE  PersonalInv'
  BY <1>7, VenceTransaccionConserva, CaeProcesoConserva
<1>8. ASSUME NEW c \in Cuentas, Ingresar(c) PROVE PersonalInv'
  BY <1>8, IngresarConserva
<1> QED
  BY <1>1, <1>2, <1>3, <1>4, <1>5, <1>6, <1>7, <1>8, Zenon DEF PersonalNext

\* The invariant holds in every state.
THEOREM PersonalSpecInv == PersonalSpec => []PersonalInv
<1>1. PersonalInit => PersonalInv
  BY PersonalInicio
<1>2. PersonalInv /\ [PersonalNext]_personalVars => PersonalInv'
  BY PersonalPaso
<1> QED BY <1>1, <1>2, PTL DEF PersonalSpec

\* The rows, the accounts and the requests are of their types, and who holds
\* the lock is in its transaction.
THEOREM PersonalTipos == PersonalSpec => []PersonalTypeOK
<1>1. PersonalInv => PersonalTypeOK
  BY DEF PersonalInv
<1> QED BY <1>1, PersonalSpecInv, PTL

\* RF.19 for any staff: no order of role changes, deactivations, deletions and
\* creations leaves the restaurant without an active administrator.
THEOREM SiempreUnAdmin == PersonalSpec => []NuncaSinAdmin
<1>1. PersonalInv => NuncaSinAdmin
  BY DEF PersonalInv
<1> QED BY <1>1, PersonalSpecInv, PTL

\* An account that was deactivated keeps no session once its request ends,
\* unless a failure is noted in it.
THEOREM BajasSinSesion == PersonalSpec => []BajaCierraSesiones
<1>1. PersonalInv => BajaCierraSesiones
  <2> SUFFICES ASSUME PersonalInv, NEW c \in Cuentas,
                      cuenta[c].sesion, ~cuenta[c].habilitada, c \notin incierta
               PROVE  EnCurso(c)
    BY DEF BajaCierraSesiones
  <2>1. PICK s \in Solicitudes : sol[s].quien = c /\ VaACerrar(s)
    BY DEF PersonalInv, SesionesPorCerrar
  <2> QED BY <2>1 DEF EnCurso, EnFase, Quien, VaACerrar
<1> QED BY <1>1, PersonalSpecInv, PTL

-----------------------------------------------------------------------------
(* The rows and the accounts agree: the invariant *)

\* A row and an account that agree.
Concuerda(f, k) ==
  /\ f.hay <=> k.estado = "esta"
  /\ f.hay => (f.activo <=> k.habilitada) /\ f.rol \in k.roles

\* It has changed one of the two.
AMedias(s) == sol[s].fase \in {"fila", "rol", "alta", "deshacer"}

\* What the request that is half way has left: the account of the row that it
\* is going to write, or an account without row.
AMediasBien(s) ==
  LET q == sol[s].quien
  IN  /\ sol[s].fase = "fila" => Concuerda(FilaTras(s), cuenta[q])
      /\ sol[s].fase \in {"rol", "alta", "deshacer"} => ~fila[q].hay
      /\ sol[s].fase \in {"rol", "alta"} =>
           cuenta[q].estado = "esta" /\ cuenta[q].habilitada
      /\ sol[s].fase = "alta" => sol[s].rol \in cuenta[q].roles

AcordeEn(p) ==
  \/ p \in incierta
  \/ /\ \/ \E s \in Solicitudes : sol[s].quien = p /\ AMedias(s)
        \/ Concuerda(fila[p], cuenta[p])
     /\ \A s \in Solicitudes : sol[s].quien = p => AMediasBien(s)

\* It creates its person, or undoes it.
Creador(s) == Creando(s) \/ sol[s].fase = "deshacer"

\* A person is created once.
UnCreador ==
  /\ \A s, t \in Solicitudes :
       Creador(s) /\ Creador(t) /\ sol[s].quien = sol[t].quien => s = t
  /\ \A s \in Solicitudes :
       sol[s].fase = "deshacer" => cuenta[sol[s].quien].estado # "nunca"

\* Nobody deletes the row of who holds the lock.
TieneFila == \A s \in Solicitudes : candado = s => fila[sol[s].quien].hay

AcordeInv == UnCreador /\ TieneFila /\ \A p \in Personas : AcordeEn(p)

-----------------------------------------------------------------------------
(* The rows and the accounts agree: what most steps keep *)

\* The same row, and the same account but for its sessions.
Igual(p) ==
  /\ fila'[p] = fila[p]
  /\ cuenta'[p].estado = cuenta[p].estado
  /\ cuenta'[p].habilitada = cuenta[p].habilitada
  /\ cuenta'[p].roles = cuenta[p].roles

\* A person whose row and account stay, and of whom no request begins or ends
\* being half way.
LEMMA Ajeno ==
  ASSUME NEW p \in Personas, AcordeEn(p), incierta \subseteq incierta', Igual(p),
         \A o \in Solicitudes :
           /\ sol[o].quien = p => sol'[o] = sol[o] \/ ~AMedias(o)
           /\ sol'[o].quien = p => sol'[o] = sol[o] \/ ~AMedias(o)'
  PROVE  AcordeEn(p)'
<1>1. CASE p \in incierta
  BY <1>1 DEF AcordeEn
<1>2. CASE p \notin incierta
  <2>1. \/ \E s \in Solicitudes : sol'[s].quien = p /\ AMedias(s)'
        \/ Concuerda(fila[p], cuenta[p])'
    <3>1. CASE Concuerda(fila[p], cuenta[p])
      BY <3>1 DEF Concuerda, Igual
    <3>2. CASE ~Concuerda(fila[p], cuenta[p])
      <4>1. PICK s \in Solicitudes : sol[s].quien = p /\ AMedias(s)
        BY <1>2, <3>2 DEF AcordeEn
      <4>2. sol'[s] = sol[s]
        BY <4>1
      <4> QED BY <4>1, <4>2 DEF AMedias
    <3> QED BY <3>1, <3>2
  <2>2. ASSUME NEW s \in Solicitudes, sol'[s].quien = p
        PROVE  AMediasBien(s)'
    <3>1. CASE ~AMedias(s)'
      BY <3>1 DEF AMedias, AMediasBien
    <3>2. CASE AMedias(s)'
      <4>1. sol'[s] = sol[s] /\ sol[s].quien = p
        BY <2>2, <3>2
      <4>2. AMediasBien(s)
        BY <1>2, <4>1 DEF AcordeEn
      <4>3. FilaTras(s)' = FilaTras(s)
        BY <4>1 DEF FilaTras, Quien, Igual
      <4> QED BY <4>1, <4>2, <4>3 DEF AMediasBien, Concuerda, Igual
    <3> QED BY <3>1, <3>2
  <2> QED BY <2>1, <2>2 DEF AcordeEn
<1> QED BY <1>1, <1>2

\* Whoever is not the person of the request that changes.
LEMMA DemasAcordes ==
  ASSUME AcordeInv, NEW s \in Solicitudes, Cambia(s), incierta \subseteq incierta',
         sol'[s].quien = sol[s].quien \/ sol'[s].fase = "libre",
         \A p \in Personas : p # sol[s].quien => Igual(p)
  PROVE  \A p \in Personas : p # sol[s].quien => AcordeEn(p)'
<1> SUFFICES ASSUME NEW p \in Personas, p # sol[s].quien PROVE AcordeEn(p)'
  OBVIOUS
<1>1. \A o \in Solicitudes :
        /\ sol[o].quien = p => sol'[o] = sol[o] \/ ~AMedias(o)
        /\ sol'[o].quien = p => sol'[o] = sol[o] \/ ~AMedias(o)'
  BY DEF Cambia, AMedias
<1> QED BY <1>1, Ajeno DEF AcordeInv

\* A request that is half way neither before nor after disturbs nobody whose
\* row and account stay.
LEMMA TodosAcordes ==
  ASSUME AcordeInv, NEW s \in Solicitudes, Cambia(s), incierta \subseteq incierta',
         ~AMedias(s), ~AMedias(s)', \A p \in Personas : Igual(p)
  PROVE  \A p \in Personas : AcordeEn(p)'
<1> SUFFICES ASSUME NEW p \in Personas PROVE AcordeEn(p)'
  OBVIOUS
<1>1. \A o \in Solicitudes :
        /\ sol[o].quien = p => sol'[o] = sol[o] \/ ~AMedias(o)
        /\ sol'[o].quien = p => sol'[o] = sol[o] \/ ~AMedias(o)'
  BY DEF Cambia
<1> QED BY <1>1, Ajeno DEF AcordeInv

\* A failure is noted in its person.
LEMMA FallaAcorde ==
  ASSUME AcordeInv, NEW s \in Solicitudes, Cambia(s),
         incierta' = incierta \cup {sol[s].quien},
         sol'[s].quien = sol[s].quien \/ sol'[s].fase = "libre",
         \A p \in Personas : p # sol[s].quien => Igual(p)
  PROVE  \A p \in Personas : AcordeEn(p)'
BY DemasAcordes DEF AcordeEn

\* Nobody begins to create, and nobody gets the lock.
LEMMA CreadorQuieto ==
  ASSUME PersonalInv, AcordeInv,
         \A o \in Solicitudes : Creador(o)' => Creador(o) /\ sol'[o].quien = sol[o].quien,
         \A o \in Solicitudes : sol'[o].fase = "deshacer" =>
           sol[o].fase \in {"deshacer", "rol", "alta"},
         \A c \in Cuentas : cuenta[c].estado # "nunca" => cuenta'[c].estado # "nunca",
         \A o \in Solicitudes : candado' = o =>
           /\ candado = o /\ sol'[o].quien = sol[o].quien
           /\ fila[sol[o].quien].hay => fila'[sol[o].quien].hay
  PROVE  UnCreador' /\ TieneFila'
<1>1. ASSUME NEW o \in Solicitudes, sol'[o].fase = "deshacer"
      PROVE  cuenta'[sol'[o].quien].estado # "nunca"
  <2>1. sol'[o].quien = sol[o].quien /\ sol[o].quien \in Cuentas
    BY <1>1 DEF PersonalInv, Validas, Creador
  <2>2. cuenta[sol[o].quien].estado # "nunca"
    BY <1>1 DEF PersonalInv, Nuevas, AcordeInv, UnCreador
  <2> QED BY <2>1, <2>2
<1>2. UnCreador'
  BY <1>1 DEF AcordeInv, UnCreador
<1>3. TieneFila'
  BY DEF AcordeInv, TieneFila
<1> QED BY <1>2, <1>3

-----------------------------------------------------------------------------
(* The rows and the accounts agree: requests that arrive, wait or fail *)

\* A request that arrives has done nothing yet.
LEMMA LlegaAcorde ==
  ASSUME PersonalInv, AcordeInv, NEW s \in Solicitudes,
         NEW fase \in {"candado", "keycloak", "salir"}, NEW op \in Operaciones,
         NEW quien \in Cuentas, NEW rol \in Roles,
         Llega(s, fase, op, quien, rol),
         fase = "keycloak" /\ op = "crear" => ~EnCurso(quien)
  PROVE  AcordeInv'
<1>1. /\ Cambia(s) /\ sol[s].fase = "libre"
      /\ sol'[s].fase = fase /\ sol'[s].op = op /\ sol'[s].quien = quien
      /\ UNCHANGED <<fila, cuenta, candado, incierta>>
  BY LlegaEfecto DEF PersonalInv, Fases
<1>2. \A p \in Personas : AcordeEn(p)'
  <2>1. ~AMedias(s) /\ ~AMedias(s)'
    BY <1>1 DEF AMedias
  <2> QED BY <1>1, <2>1, TodosAcordes DEF Igual
<1>3. candado # s
  BY <1>1, PersonalAssumption DEF PersonalInv, PersonalTypeOK
<1>4. TieneFila'
  BY <1>1, <1>3 DEF AcordeInv, TieneFila, Cambia
<1>5. UnCreador'
  <2>1. \A o \in Solicitudes : o # s => sol'[o] = sol[o] /\ (Creador(o)' <=> Creador(o))
    BY <1>1 DEF Cambia, Creador, Creando
  <2>2. Creador(s)' => fase = "keycloak" /\ op = "crear"
    BY <1>1 DEF Creador, Creando
  <2>3. ASSUME NEW o \in Solicitudes, o # s, Creador(s)', Creador(o)'
        PROVE  sol'[o].quien # quien
    <3>1. sol[o].fase # "libre" /\ sol'[o] = sol[o]
      BY <2>1, <2>3 DEF Creador, Creando
    <3> QED BY <2>2, <2>3, <3>1 DEF EnCurso, EnFase, Quien
  <2>4. \A o, t \in Solicitudes :
          Creador(o)' /\ Creador(t)' /\ sol'[o].quien = sol'[t].quien => o = t
    BY <1>1, <2>1, <2>3 DEF AcordeInv, UnCreador
  <2>5. \A o \in Solicitudes :
          sol'[o].fase = "deshacer" => cuenta'[sol'[o].quien].estado # "nunca"
    BY <1>1, <2>1 DEF AcordeInv, UnCreador
  <2> QED BY <2>4, <2>5 DEF UnCreador
<1> QED BY <1>2, <1>4, <1>5 DEF AcordeInv

LEMMA PedirAcorde ==
  ASSUME PersonalInv, AcordeInv, NEW s \in Solicitudes,
         \/ \E p \in Personas, rol \in Roles :
              \/ PedirCrear(s, p, rol)
              \/ \E op \in ConCandado : PedirCambio(s, op, p, rol)
         \/ \E c \in Cocinas, op \in ConCandado : PedirCocina(s, op, c)
         \/ \E c \in Cuentas : PedirCerrar(s, c) \/ PedirContrasena(s, c)
  PROVE  AcordeInv'
<1>1. "MOZO" \in Roles /\ "cerrar" \in Operaciones /\ "crear" \in Operaciones
  BY DEF Roles, Operaciones
<1>2. ASSUME NEW p \in Personas, NEW rol \in Roles, PedirCrear(s, p, rol)
      PROVE  AcordeInv'
  BY <1>1, <1>2, LlegaAcorde DEF PedirCrear, Cuentas
<1>3. ASSUME NEW p \in Personas, NEW rol \in Roles, NEW op \in ConCandado,
             PedirCambio(s, op, p, rol)
      PROVE  AcordeInv'
  BY <1>3, LlegaAcorde DEF PedirCambio, Cuentas, Operaciones
<1>4. ASSUME NEW c \in Cocinas, NEW op \in ConCandado, PedirCocina(s, op, c)
      PROVE  AcordeInv'
  <2>1. op \in Operaciones /\ op # "crear" /\ c \in Cuentas
    BY <1>4 DEF PedirCocina, Operaciones, Cuentas
  <2> QED BY <1>1, <1>4, <2>1, LlegaAcorde DEF PedirCocina
<1>5. ASSUME NEW c \in Cuentas, PedirCerrar(s, c) \/ PedirContrasena(s, c)
      PROVE  AcordeInv'
  BY <1>1, <1>5, LlegaAcorde DEF PedirCerrar, PedirContrasena
<1> QED BY <1>2, <1>3, <1>4, <1>5

\* What a step that ends a request does to who creates.
LEMMA TerminaQuieto ==
  ASSUME NEW s \in Solicitudes, Termina(s), candado' # s,
         \A o \in Solicitudes \ {s} : candado' = o <=> candado = o
  PROVE  /\ \A o \in Solicitudes :
              /\ Creador(o)' => Creador(o) /\ sol'[o].quien = sol[o].quien
              /\ sol'[o].fase = "deshacer" => sol[o].fase \in {"deshacer", "rol", "alta"}
              /\ candado' = o => candado = o /\ sol'[o].quien = sol[o].quien
         /\ sol'[s].fase = "libre" /\ ~AMedias(s)'
BY DEF Termina, Cambia, Creador, Creando, AMedias

\* A failure ends the request, and is noted.
LEMMA TerminaFallaAcorde ==
  ASSUME PersonalInv, AcordeInv, NEW s \in Solicitudes, Termina(s), candado' # s,
         \A o \in Solicitudes \ {s} : candado' = o <=> candado = o,
         incierta' = incierta \cup {sol[s].quien},
         UNCHANGED fila,
         \A c \in Cuentas : cuenta[c].estado # "nunca" => cuenta'[c].estado # "nunca",
         \A p \in Personas : p # sol[s].quien => Igual(p)
  PROVE  AcordeInv'
<1>1. UnCreador' /\ TieneFila'
  BY TerminaQuieto, CreadorQuieto
<1>2. \A p \in Personas : AcordeEn(p)'
  BY TerminaQuieto, FallaAcorde DEF Termina
<1> QED BY <1>1, <1>2 DEF AcordeInv

\* A request that was not half way ends, and nothing changed.
LEMMA TerminaNadaAcorde ==
  ASSUME PersonalInv, AcordeInv, NEW s \in Solicitudes, Termina(s), candado' # s,
         \A o \in Solicitudes \ {s} : candado' = o <=> candado = o,
         incierta \subseteq incierta', UNCHANGED fila, ~AMedias(s),
         \A c \in Cuentas : cuenta[c].estado # "nunca" => cuenta'[c].estado # "nunca",
         \A p \in Personas : Igual(p)
  PROVE  AcordeInv'
<1>1. UnCreador' /\ TieneFila'
  BY TerminaQuieto, CreadorQuieto
<1>2. \A p \in Personas : AcordeEn(p)'
  BY TerminaQuieto, TodosAcordes DEF Termina
<1> QED BY <1>1, <1>2 DEF AcordeInv

LEMMA IngresarAcorde ==
  ASSUME PersonalInv, AcordeInv, NEW c \in Cuentas, Ingresar(c)
  PROVE  AcordeInv'
<1>1. UNCHANGED <<fila, sol, candado, incierta>>
  BY DEF Ingresar
<1>2. \A d \in Cuentas : /\ cuenta'[d].estado = cuenta[d].estado
                         /\ cuenta'[d].habilitada = cuenta[d].habilitada
                         /\ cuenta'[d].roles = cuenta[d].roles
  <2>1. cuenta \in [Cuentas -> Cuenta]
    BY DEF PersonalInv, PersonalTypeOK
  <2>2. cuenta' = [cuenta EXCEPT ![c] = [cuenta[c] EXCEPT !.sesion = TRUE]]
    BY DEF Ingresar
  <2> QED BY <2>1, <2>2 DEF Cuenta
<1>3. \A p \in Personas : AcordeEn(p)'
  BY <1>1, <1>2, Ajeno DEF AcordeInv, Igual, Cuentas
<1>4. UnCreador' /\ TieneFila'
  BY <1>1, <1>2, CreadorQuieto DEF Creador, Creando
<1> QED BY <1>3, <1>4 DEF AcordeInv

\* Who gets the lock has just read the row.
LEMMA EntrarAcorde ==
  ASSUME PersonalInv, AcordeInv, NEW s \in Solicitudes, Entrar(s)
  PROVE  AcordeInv'
<1>1. sol[s].fase = "candado" /\ ~AMedias(s) /\ sol[s].op \in ConCandado
  BY DEF PersonalInv, Validas, Entrar, EnFase, AMedias
<1>2. UNCHANGED <<fila, cuenta, incierta>> /\ candado = Ninguna
  BY DEF Entrar
<1>3. \A p \in Personas : Igual(p)
  BY <1>2 DEF Igual
<1>4. CASE Acaba(s) /\ UNCHANGED candado
  <2>1. Termina(s) /\ candado' # s
    BY <1>2, <1>4, AcabaEfecto, PersonalAssumption DEF PersonalInv
  <2> QED BY <1>1, <1>2, <1>3, <1>4, <2>1, TerminaNadaAcorde
<1>5. CASE Procede(s) /\ candado' = s /\ Pasa(s, "keycloak")
  <2>1. Avanza(s, "keycloak")
    BY <1>5, PasaEfecto DEF PersonalInv, Fases
  <2>2. \A o \in Solicitudes :
          /\ Creador(o)' => Creador(o) /\ sol'[o].quien = sol[o].quien
          /\ sol'[o].fase = "deshacer" => sol[o].fase = "deshacer"
    BY <1>1, <2>1 DEF Avanza, Cambia, Creador, Creando, ConCandado
  <2>3. \A p \in Personas : AcordeEn(p)'
    BY <1>1, <1>2, <1>3, <2>1, TodosAcordes DEF Avanza, AMedias
  <2>4. UnCreador'
    BY <1>2, <2>2 DEF AcordeInv, UnCreador, Creador, Creando
  <2>5. TieneFila'
    BY <1>2, <1>5, <2>1 DEF TieneFila, Procede, Quien, Avanza
  <2> QED BY <2>3, <2>4, <2>5 DEF AcordeInv
<1> QED BY <1>4, <1>5 DEF Entrar

-----------------------------------------------------------------------------
(* The rows and the accounts agree: the steps that change one of the two *)

\* What the call leaves agrees with the row that it will write.
LEMMA TrasLlamadaAcorde ==
  ASSUME PersonalTypeOK, NEW s \in Solicitudes, sol[s].quien \in Personas,
         sol[s].op \in ConCandado, fila[sol[s].quien].hay,
         Concuerda(fila[sol[s].quien], cuenta[sol[s].quien])
  PROVE  Concuerda(FilaTras(s), TrasLlamada(s))
<1> DEFINE f == fila[sol[s].quien]
           k == cuenta[sol[s].quien]
<1>1. f \in Fila /\ k \in Cuenta
  BY DEF PersonalTypeOK, Cuentas
<1>2. CASE sol[s].op = "cambiarRol"
  BY <1>1, <1>2 DEF FilaTras, TrasLlamada, Fila, Cuenta, Quien, Concuerda
<1>3. CASE sol[s].op = "desactivar"
  BY <1>1, <1>3 DEF FilaTras, TrasLlamada, Fila, Cuenta, Quien, Concuerda
<1>4. CASE sol[s].op = "reactivar"
  BY <1>1, <1>4 DEF FilaTras, TrasLlamada, Fila, Cuenta, Quien, Concuerda
<1>5. CASE sol[s].op = "eliminar"
  BY <1>1, <1>5 DEF FilaTras, TrasLlamada, Fila, Cuenta, Quien, Concuerda, Borrada, SinFila
<1> QED BY <1>2, <1>3, <1>4, <1>5 DEF ConCandado

\* Of a person with a row nobody else is half way, while s holds the lock.
LEMMA NadieMas ==
  ASSUME PersonalInv, NEW p \in Personas, AcordeEn(p), p \notin incierta, fila[p].hay,
         NEW o \in Solicitudes, sol[o].quien = p, AMedias(o)
  PROVE  sol[o].fase = "fila" /\ candado = o
BY DEF PersonalInv, Validas, AcordeEn, AMedias, AMediasBien

\* Of who is being created or undone, only its creator is half way.
LEMMA SoloCreador ==
  ASSUME PersonalInv, AcordeInv, NEW s \in Solicitudes, Creador(s), ~fila[sol[s].quien].hay,
         NEW o \in Solicitudes, sol[o].quien = sol[s].quien, AMedias(o)
  PROVE  o = s
<1>1. CASE sol[o].fase = "fila"
  BY <1>1 DEF PersonalInv, Validas, AcordeInv, TieneFila
<1>2. CASE sol[o].fase # "fila"
  BY <1>2 DEF AcordeInv, UnCreador, Creador, Creando, AMedias
<1> QED BY <1>1, <1>2

\* The person of the request, of whom nobody else is half way: it is enough to
\* look at the request.
LEMMA SuPersona ==
  ASSUME NEW s \in Solicitudes, NEW q \in Personas, sol[s].quien = q, Cambia(s),
         \A o \in Solicitudes : sol[o].quien = q /\ AMedias(o) => o = s,
         \/ sol'[s].quien = q /\ AMedias(s)' /\ AMediasBien(s)'
         \/ ~AMedias(s)' /\ Concuerda(fila'[q], cuenta'[q])
  PROVE  AcordeEn(q)'
<1>1. ASSUME NEW o \in Solicitudes, sol'[o].quien = q
      PROVE  AMediasBien(o)'
  <2>1. CASE o = s
    BY <2>1 DEF AMedias, AMediasBien
  <2>2. CASE o # s
    <3>1. sol'[o] = sol[o] /\ ~AMedias(o)
      BY <1>1, <2>2 DEF Cambia
    <3> QED BY <3>1 DEF AMedias, AMediasBien
  <2> QED BY <2>1, <2>2
<1>2. \/ \E o \in Solicitudes : sol'[o].quien = q /\ AMedias(o)'
      \/ Concuerda(fila'[q], cuenta'[q])
  OBVIOUS
<1> QED BY <1>1, <1>2 DEF AcordeEn, Concuerda

-----------------------------------------------------------------------------
(* The rows and the accounts agree: the call, and the row *)

\* The step of a request that goes on, whatever happens to its person, which is
\* looked at apart.
LEMMA SigueAcorde ==
  ASSUME PersonalInv, AcordeInv, NEW s \in Solicitudes, Cambia(s),
         sol'[s].quien = sol[s].quien \/ sol'[s].fase = "libre",
         Creador(s)' => Creador(s), sol'[s].fase = "deshacer" => Creador(s),
         sol'[s].fase = "deshacer" => sol[s].fase \in {"rol", "alta"},
         candado' \in {candado, Ninguna}, candado' = s => sol'[s].fase # "libre",
         incierta \subseteq incierta',
         \A c \in Cuentas : cuenta[c].estado # "nunca" => cuenta'[c].estado # "nunca",
         \A o \in Solicitudes : candado' = o /\ fila[sol[o].quien].hay =>
           fila'[sol[o].quien].hay,
         \A p \in Personas : p # sol[s].quien => Igual(p),
         \A p \in Personas : p = sol[s].quien => AcordeEn(p)'
  PROVE  AcordeInv'
<1>1. \A p \in Personas : AcordeEn(p)'
  BY DemasAcordes
<1>2. \A o \in Solicitudes :
        /\ Creador(o)' => Creador(o) /\ sol'[o].quien = sol[o].quien
        /\ sol'[o].fase = "deshacer" => sol[o].fase \in {"deshacer", "rol", "alta"}
  BY DEF Cambia, Creador, Creando
<1>3. \A o \in Solicitudes : candado' = o => candado = o /\ sol'[o].quien = sol[o].quien
  BY PersonalAssumption DEF Cambia
<1>4. UnCreador' /\ TieneFila'
  BY <1>2, <1>3, CreadorQuieto
<1> QED BY <1>1, <1>4 DEF AcordeInv

\* The account is created, and its request goes on to give it the role.
LEMMA CuentaCreada ==
  ASSUME PersonalInv, AcordeInv, NEW s \in Solicitudes, NEW q \in Personas,
         sol[s].quien = q, sol[s].fase = "keycloak", sol[s].op = "crear",
         Avanza(s, "rol"), UNCHANGED fila,
         cuenta' = [cuenta EXCEPT ![q] = TrasLlamada(s)]
  PROVE  AcordeEn(q)'
<1>1. Creador(s) /\ ~fila[q].hay
  BY DEF PersonalInv, Nuevas, Creador, Creando
<1>2. \A o \in Solicitudes : sol[o].quien = q /\ AMedias(o) => o = s
  BY <1>1, SoloCreador
<1>3. cuenta \in [Cuentas -> Cuenta] /\ q \in Cuentas
  BY DEF PersonalInv, PersonalTypeOK, Cuentas
<1>4. cuenta'[q] = TrasLlamada(s)
  BY <1>3
<1>5. TrasLlamada(s).estado = "esta" /\ TrasLlamada(s).habilitada
  BY <1>3 DEF TrasLlamada, Quien, Cuenta
<1>6. /\ Cambia(s) /\ sol'[s].fase = "rol" /\ sol'[s].quien = q
  BY DEF Avanza
<1>7. AMedias(s)' /\ AMediasBien(s)'
  BY <1>1, <1>4, <1>5, <1>6 DEF AMedias, AMediasBien
<1> QED BY <1>2, <1>6, <1>7, SuPersona

\* The account is changed, and its request goes on to write the row.
LEMMA CuentaCambiada ==
  ASSUME PersonalInv, AcordeInv, NEW s \in Solicitudes, NEW q \in Personas,
         sol[s].quien = q, sol[s].fase = "keycloak", candado = s,
         Avanza(s, "fila"), UNCHANGED <<fila, incierta>>,
         cuenta' = [cuenta EXCEPT ![q] = TrasLlamada(s)]
  PROVE  AcordeEn(q)'
<1>1. CASE q \in incierta
  BY <1>1 DEF AcordeEn
<1>2. CASE q \notin incierta
  <2>1. AcordeEn(q) /\ fila[q].hay /\ sol[s].op \in ConCandado
    BY DEF AcordeInv, TieneFila, PersonalInv, Validas
  <2>2. \A o \in Solicitudes : sol[o].quien = q /\ AMedias(o) => o = s
    BY <1>2, <2>1, NadieMas
  <2>3. ~AMedias(s)
    BY DEF AMedias
  <2>4. Concuerda(fila[q], cuenta[q])
    BY <1>2, <2>1, <2>2, <2>3 DEF AcordeEn
  <2>5. Concuerda(FilaTras(s), TrasLlamada(s))
    BY <2>1, <2>4, TrasLlamadaAcorde DEF PersonalInv
  <2>6. cuenta'[q] = TrasLlamada(s)
    BY DEF PersonalInv, PersonalTypeOK, Cuentas
  <2>7. /\ Cambia(s) /\ sol'[s].fase = "fila" /\ sol'[s].quien = q
        /\ FilaTras(s)' = FilaTras(s)
    BY DEF Avanza, FilaTras, Quien
  <2>8. AMedias(s)' /\ AMediasBien(s)'
    BY <2>5, <2>6, <2>7 DEF AMedias, AMediasBien, Concuerda
  <2> QED BY <2>2, <2>7, <2>8, SuPersona
<1> QED BY <1>1, <1>2

LEMMA LlamarKeycloakAcorde ==
  ASSUME PersonalInv, AcordeInv, NEW s \in Solicitudes, LlamarKeycloak(s)
  PROVE  AcordeInv'
<1>1. /\ sol[s].fase = "keycloak" /\ sol[s].quien \in Cuentas
      /\ sol[s].op \in ConCandado \cup {"crear"}
      /\ sol[s].op = "crear" => candado # s /\ sol[s].quien \in Personas
      /\ candado = s => sol[s].quien \in Personas
      /\ PersonalTypeOK
  BY DEF PersonalInv, Validas, LlamarKeycloak, EnFase, ConCandado
<1>2. ~AMedias(s) /\ UNCHANGED fila
  BY <1>1 DEF AMedias, LlamarKeycloak
<1>3. CASE Acaba(s) /\ Suelta(s) /\ UNCHANGED cuenta /\ SinFallas
  <2>1. \A p \in Personas : Igual(p)
    BY <1>2, <1>3 DEF Igual
  <2> QED
    BY <1>1, <1>2, <1>3, <2>1, AcabaEfecto, SueltaEfecto, TerminaNadaAcorde DEF SinFallas
<1>4. ASSUME cuenta' = [cuenta EXCEPT ![Quien(s)] = TrasLlamada(s)]
      PROVE  /\ \A c \in Cuentas :
                  cuenta[c].estado # "nunca" => cuenta'[c].estado # "nunca"
             /\ \A p \in Personas : p # sol[s].quien => Igual(p)
  <2>1. /\ cuenta'[sol[s].quien] = TrasLlamada(s)
        /\ \A c \in Cuentas : c # sol[s].quien => cuenta'[c] = cuenta[c]
    BY <1>1, <1>4 DEF PersonalTypeOK, Quien
  <2>2. \/ TrasLlamada(s).estado # "nunca"
        \/ cuenta[sol[s].quien].estado = "nunca"
    BY <1>1, TrasLlamadaTipo
  <2> QED BY <1>2, <2>1, <2>2 DEF Igual, Cuentas
<1>5. CASE /\ cuenta' = [cuenta EXCEPT ![Quien(s)] = TrasLlamada(s)]
           /\ UnaFalla(s) /\ Acaba(s) /\ Suelta(s)
  BY <1>1, <1>2, <1>4, <1>5, AcabaEfecto, SueltaEfecto, FallaEfecto,
     TerminaFallaAcorde DEF Quien
<1>6. CASE /\ cuenta' = [cuenta EXCEPT ![Quien(s)] = TrasLlamada(s)]
           /\ Sigue(s) /\ UNCHANGED candado /\ SinFallas
  <2>0. PICK q \in Cuentas : q = sol[s].quien
    BY <1>1
  <2>1. /\ UNCHANGED incierta
        /\ cuenta' = [cuenta EXCEPT ![q] = TrasLlamada(s)]
        /\ \A c \in Cuentas : cuenta[c].estado # "nunca" => cuenta'[c].estado # "nunca"
        /\ \A p \in Personas : p # sol[s].quien => Igual(p)
    BY <1>4, <1>6, <2>0 DEF SinFallas, Quien
  <2>2. CASE sol[s].op = "crear"
    <3>1. Avanza(s, "rol")
      BY <1>1, <1>6, <2>2, PasaEfecto DEF Sigue, ConCandado, Fases
    <3>2. AcordeEn(q)'
      BY <1>1, <1>2, <2>0, <2>1, <2>2, <3>1, CuentaCreada
    <3>3. Creador(s)
      BY <1>1, <2>2 DEF Creador, Creando
    <3> QED BY <1>2, <1>6, <2>0, <2>1, <3>1, <3>2, <3>3, SigueAcorde DEF Avanza
  <2>3. CASE sol[s].op \in ConCandado /\ candado = s
    <3>1. Avanza(s, "fila")
      BY <1>1, <1>6, <2>3, PasaEfecto DEF Sigue, Fases, ConCandado, Quien
    <3>2. AcordeEn(q)'
      BY <1>1, <1>2, <2>0, <2>1, <2>3, <3>1, CuentaCambiada
    <3>3. ~Creador(s)'
      BY <3>1 DEF Creador, Creando, Avanza
    <3> QED BY <1>2, <1>6, <2>0, <2>1, <3>1, <3>2, <3>3, SigueAcorde DEF Avanza
  <2>4. CASE sol[s].op \in ConCandado /\ candado # s /\ sol[s].quien \in Personas
    <3>1. Termina(s)
      BY <1>1, <1>6, <2>4, AcabaEfecto DEF Sigue, ConCandado, Quien
    <3>2. sol[s].quien \in incierta
      BY <1>1, <2>4 DEF PersonalInv, PerdidosInciertos, ConCandado
    <3>3. incierta' = incierta \cup {sol[s].quien}
      BY <2>1, <3>2
    <3> QED BY <1>2, <1>6, <2>1, <2>4, <3>1, <3>3, TerminaFallaAcorde
  <2>5. CASE sol[s].op \in ConCandado /\ sol[s].quien \notin Personas
    <3>1. Responder(s) /\ candado # s
      BY <1>1, <1>6, <2>5 DEF Sigue, ConCandado, Quien
    <3>2. \A p \in Personas : Igual(p)
      BY <2>1, <2>5
    <3>3. CASE Acaba(s)
      BY <1>1, <1>2, <1>6, <2>1, <3>1, <3>2, <3>3, AcabaEfecto, TerminaNadaAcorde
    <3>4. CASE Pasa(s, "salir")
      <4>1. Avanza(s, "salir")
        BY <1>1, <3>4, PasaEfecto DEF Fases
      <4>2. ~Creador(s)'
        BY <4>1 DEF Creador, Creando, Avanza
      <4> QED BY <1>2, <1>6, <2>1, <2>5, <3>1, <4>1, <4>2, SigueAcorde DEF Avanza
    <3> QED BY <3>1, <3>3, <3>4 DEF Responder
  <2> QED BY <1>1, <2>2, <2>3, <2>4, <2>5
<1> QED BY <1>3, <1>5, <1>6 DEF LlamarKeycloak

-----------------------------------------------------------------------------
(* The rows and the accounts agree: the other steps, and the theorem *)

\* The row is written as its account was left.
LEMMA ConfirmarAcorde ==
  ASSUME PersonalInv, AcordeInv, NEW s \in Solicitudes, Confirmar(s)
  PROVE  AcordeInv'
<1>1. /\ sol[s].fase = "fila" /\ sol[s].quien \in Personas /\ sol[s].quien \in Cuentas
      /\ candado = s /\ PersonalTypeOK
  BY DEF PersonalInv, Validas, Confirmar, EnFase, Cuentas
<1>2. UNCHANGED cuenta /\ candado' = Ninguna /\ candado' # s
  BY <1>1, PersonalAssumption DEF Confirmar, Suelta
<1>3. CASE UnaFalla(s) /\ Acaba(s) /\ UNCHANGED fila
  <2>1. \A p \in Personas : Igual(p)
    BY <1>2, <1>3 DEF Igual
  <2>2. \A o \in Solicitudes \ {s} : candado' = o <=> candado = o
    BY <1>1, <1>2, PersonalAssumption
  <2> QED
    BY <1>1, <1>2, <1>3, <2>1, <2>2, AcabaEfecto, FallaEfecto, TerminaFallaAcorde DEF Quien
<1>4. CASE /\ fila' = [fila EXCEPT ![Quien(s)] = FilaTras(s)]
           /\ Responder(s) /\ SinFallas
  <2>0. PICK q \in Personas : q = sol[s].quien
    BY <1>1
  <2>1. /\ fila'[q] = FilaTras(s)
        /\ \A p \in Personas : p # sol[s].quien => Igual(p)
        /\ UNCHANGED incierta
    BY <1>1, <1>2, <1>4, <2>0 DEF PersonalTypeOK, Quien, Igual, SinFallas
  <2>2. /\ Cambia(s) /\ sol'[s].fase \in {"salir", "libre"}
        /\ sol'[s].quien = sol[s].quien \/ sol'[s].fase = "libre"
    BY <1>1, <1>4, PasaEfecto, AcabaEfecto DEF Responder, Fases, Avanza, Termina
  <2>3. ~AMedias(s)' /\ ~Creador(s)'
    BY <2>2 DEF AMedias, Creador, Creando
  <2>4. AcordeEn(q)'
    <3>1. CASE q \in incierta
      BY <2>1, <3>1 DEF AcordeEn
    <3>2. CASE q \notin incierta
      <4>1. AcordeEn(q) /\ fila[q].hay
        BY <1>1, <2>0 DEF AcordeInv, TieneFila
      <4>2. \A o \in Solicitudes : sol[o].quien = q /\ AMedias(o) => o = s
        BY <1>1, <3>2, <4>1, NadieMas
      <4>3. Concuerda(FilaTras(s), cuenta[q])
        BY <1>1, <2>0, <3>2, <4>1 DEF AcordeEn, AMediasBien
      <4> QED BY <1>2, <2>0, <2>1, <2>2, <2>3, <4>2, <4>3, SuPersona
    <3> QED BY <3>1, <3>2
  <2>5. \A o \in Solicitudes : candado' # o
    BY <1>2, PersonalAssumption
  <2> QED BY <1>2, <2>0, <2>1, <2>2, <2>3, <2>4, <2>5, SigueAcorde
<1> QED BY <1>3, <1>4 DEF Confirmar

LEMMA CerrarSesionesAcorde ==
  ASSUME PersonalInv, AcordeInv, NEW s \in Solicitudes, CerrarSesiones(s)
  PROVE  AcordeInv'
<1>1. sol[s].fase = "salir" /\ sol[s].quien \in Cuentas /\ PersonalTypeOK
  BY DEF PersonalInv, Validas, CerrarSesiones, EnFase
<1>2. Termina(s) /\ ~AMedias(s) /\ UNCHANGED <<fila, candado>> /\ candado # s
  BY <1>1, AcabaEfecto, PersonalAssumption DEF CerrarSesiones, AMedias, PersonalTypeOK
<1>3. \A c \in Cuentas : /\ cuenta'[c].estado = cuenta[c].estado
                         /\ cuenta'[c].habilitada = cuenta[c].habilitada
                         /\ cuenta'[c].roles = cuenta[c].roles
  <2>1. CASE UNCHANGED cuenta
    BY <2>1
  <2>2. CASE cuenta' = [cuenta EXCEPT ![Quien(s)].sesion = FALSE]
    BY <1>1, <2>2 DEF PersonalTypeOK, Cuenta, Quien
  <2> QED BY <2>1, <2>2 DEF CerrarSesiones
<1>4. incierta \subseteq incierta'
  BY DEF CerrarSesiones, SinFallas, UnaFalla
<1>5. \A p \in Personas : Igual(p)
  BY <1>2, <1>3 DEF Igual, Cuentas
<1> QED BY <1>2, <1>3, <1>4, <1>5, TerminaNadaAcorde

\* The role is given to an account that still has no row.
LEMMA AsignarRolAcorde ==
  ASSUME PersonalInv, AcordeInv, NEW s \in Solicitudes, AsignarRol(s)
  PROVE  AcordeInv'
<1>1. /\ sol[s].fase = "rol" /\ sol[s].quien \in Personas /\ sol[s].quien \in Cuentas
      /\ PersonalTypeOK
  BY DEF PersonalInv, Validas, AsignarRol, EnFase, Cuentas
<1>2. UNCHANGED <<fila, candado, incierta>> /\ Creador(s) /\ ~fila[sol[s].quien].hay
  BY <1>1 DEF AsignarRol, Creador, Creando, PersonalInv, Nuevas
<1>3. PICK q \in Personas : q = sol[s].quien
  BY <1>1
<1>4. /\ \A c \in Cuentas : /\ cuenta'[c].estado = cuenta[c].estado
                            /\ cuenta'[c].habilitada = cuenta[c].habilitada
                            /\ cuenta[c].roles \subseteq cuenta'[c].roles
      /\ \A c \in Cuentas : c # q => cuenta'[c] = cuenta[c]
  <2>1. CASE UNCHANGED cuenta
    BY <2>1
  <2>2. CASE cuenta' = [cuenta EXCEPT ![Quien(s)].roles = @ \cup {sol[s].rol}]
    BY <1>1, <1>3, <2>2 DEF PersonalTypeOK, Cuenta, Quien
  <2> QED BY <2>1, <2>2 DEF AsignarRol
<1>5. \A p \in Personas : p # sol[s].quien => Igual(p)
  BY <1>2, <1>3, <1>4 DEF Igual, Cuentas
<1>6. \A o \in Solicitudes : sol[o].quien = q /\ AMedias(o) => o = s
  BY <1>2, <1>3, SoloCreador
<1>7. /\ Cambia(s) /\ sol'[s].quien = q /\ sol'[s].rol = sol[s].rol
      /\ \/ sol'[s].fase = "deshacer"
         \/ /\ sol'[s].fase = "alta"
            /\ cuenta' = [cuenta EXCEPT ![q].roles = @ \cup {sol[s].rol}]
  BY <1>1, <1>3, PasaEfecto DEF AsignarRol, Fases, Avanza, Quien
<1>8. AcordeEn(q)'
  <2>1. CASE q \in incierta
    BY <1>2, <2>1 DEF AcordeEn
  <2>2. CASE q \notin incierta
    <3>1. AMediasBien(s)
      BY <1>3, <2>2 DEF AcordeInv, AcordeEn
    <3>2. sol'[s].fase = "alta" => sol[s].rol \in cuenta'[q].roles
      BY <1>1, <1>3, <1>7 DEF PersonalTypeOK, Cuenta
    <3>3. AMedias(s)' /\ AMediasBien(s)'
      BY <1>1, <1>2, <1>3, <1>4, <1>7, <3>1, <3>2 DEF AMedias, AMediasBien
    <3> QED BY <1>3, <1>6, <1>7, <3>3, SuPersona
  <2> QED BY <2>1, <2>2
<1> QED BY <1>1, <1>2, <1>3, <1>4, <1>5, <1>7, <1>8, SigueAcorde

\* The row is inserted as its account is, or the account will be undone.
LEMMA InsertarFilaAcorde ==
  ASSUME PersonalInv, AcordeInv, NEW s \in Solicitudes, InsertarFila(s)
  PROVE  AcordeInv'
<1> DEFINE nueva == [hay |-> TRUE, rol |-> sol[s].rol, activo |-> TRUE]
<1>1. /\ sol[s].fase = "alta" /\ sol[s].quien \in Personas /\ sol[s].quien \in Cuentas
      /\ PersonalTypeOK
  BY DEF PersonalInv, Validas, InsertarFila, EnFase, Cuentas
<1>2. UNCHANGED <<cuenta, candado>> /\ Creador(s) /\ ~fila[sol[s].quien].hay
  BY <1>1 DEF InsertarFila, Creador, Creando, PersonalInv, Nuevas
<1>3. PICK q \in Personas : q = sol[s].quien
  BY <1>1
<1>4. \A o \in Solicitudes : sol[o].quien = q /\ AMedias(o) => o = s
  BY <1>2, <1>3, SoloCreador
<1>5. /\ Cambia(s) /\ sol'[s].fase \in {"deshacer", "libre"}
      /\ sol'[s].quien = q \/ sol'[s].fase = "libre"
      /\ candado # s
  BY <1>1, <1>3, PasaEfecto, AcabaEfecto DEF InsertarFila, Fases, Avanza, Termina,
     PersonalInv, Validas
<1>6. /\ \A p \in Personas : p # sol[s].quien => Igual(p)
      /\ \A p \in Personas : fila[p].hay => fila'[p].hay
      /\ fila' = fila \/ fila'[q] = nueva
  BY <1>1, <1>2, <1>3 DEF InsertarFila, PersonalTypeOK, Quien, Igual
<1>7. incierta \subseteq incierta'
  BY DEF InsertarFila, SinFallas, UnaFalla
<1>8. AcordeEn(q)'
  <2>1. CASE q \in incierta'
    BY <2>1 DEF AcordeEn
  <2>2. CASE q \notin incierta'
    <3>1. AMediasBien(s)
      BY <1>3, <1>7, <2>2 DEF AcordeInv, AcordeEn
    <3>2. CASE fila' = [fila EXCEPT ![Quien(s)] = nueva] /\ Acaba(s)
      <4>1. fila'[q] = nueva
        BY <1>1, <1>3, <3>2 DEF PersonalTypeOK, Quien
      <4>2. Concuerda(fila'[q], cuenta'[q])
        BY <1>1, <1>2, <1>3, <3>1, <4>1 DEF AMediasBien, Concuerda
      <4>3. ~AMedias(s)'
        BY <1>1, <3>2, AcabaEfecto DEF Termina, AMedias
      <4> QED BY <1>3, <1>4, <1>5, <4>2, <4>3, SuPersona
    <3>3. CASE Pasa(s, "deshacer") /\ UNCHANGED fila
      <4>1. sol'[s].fase = "deshacer" /\ sol'[s].quien = q
        BY <1>1, <1>3, <3>3, PasaEfecto DEF Fases, Avanza
      <4>2. AMedias(s)' /\ AMediasBien(s)'
        BY <1>2, <1>3, <3>3, <4>1 DEF AMedias, AMediasBien
      <4> QED BY <1>3, <1>4, <1>5, <4>1, <4>2, SuPersona
    <3>4. ~UnaFalla(s)
      BY <1>3, <2>2 DEF UnaFalla, Quien
    <3> QED BY <3>2, <3>3, <3>4 DEF InsertarFila
  <2> QED BY <2>1, <2>2
<1>9. \A o \in Solicitudes : candado' = o /\ fila[sol[o].quien].hay =>
        fila'[sol[o].quien].hay
  BY <1>2, <1>6 DEF PersonalInv, Validas
<1>10. Creador(s)' => Creador(s)
  BY <1>2
<1> QED BY <1>1, <1>2, <1>3, <1>5, <1>6, <1>7, <1>8, <1>9, <1>10, SigueAcorde

\* The account that had no row is deleted.
LEMMA DeshacerAcorde ==
  ASSUME PersonalInv, AcordeInv, NEW s \in Solicitudes, Deshacer(s)
  PROVE  AcordeInv'
<1>1. /\ sol[s].fase = "deshacer" /\ sol[s].quien \in Personas /\ sol[s].quien \in Cuentas
      /\ PersonalTypeOK
  BY DEF PersonalInv, Validas, Deshacer, EnFase, Cuentas
<1>2. /\ UNCHANGED <<fila, candado>> /\ candado # s /\ Creador(s) /\ Termina(s)
  BY <1>1, AcabaEfecto, PersonalAssumption DEF Deshacer, Creador, PersonalTypeOK
<1>3. CASE UnaFalla(s) /\ UNCHANGED cuenta
  <2>1. \A p \in Personas : Igual(p)
    BY <1>2, <1>3 DEF Igual
  <2> QED BY <1>1, <1>2, <1>3, <2>1, FallaEfecto, TerminaFallaAcorde DEF Quien
<1>4. CASE cuenta' = [cuenta EXCEPT ![Quien(s)] = Borrada(@)] /\ SinFallas
  <2>0. PICK q \in Personas : q = sol[s].quien
    BY <1>1
  <2>1. /\ cuenta'[q] = Borrada(cuenta[q])
        /\ \A c \in Cuentas : c # q => cuenta'[c] = cuenta[c]
    BY <1>1, <1>4, <2>0 DEF PersonalTypeOK, Quien
  <2>2. cuenta'[q].estado = "borrada"
    BY <1>1, <2>0, <2>1 DEF Borrada, PersonalTypeOK, Cuenta
  <2>3. /\ \A c \in Cuentas : cuenta[c].estado # "nunca" => cuenta'[c].estado # "nunca"
        /\ \A p \in Personas : p # sol[s].quien => Igual(p)
        /\ UNCHANGED incierta
    BY <1>2, <1>4, <2>0, <2>1, <2>2 DEF Igual, Cuentas, SinFallas
  <2>4. AcordeEn(q)'
    <3>1. CASE q \in incierta
      BY <2>3, <3>1 DEF AcordeEn
    <3>2. CASE q \notin incierta
      <4>1. ~fila[q].hay
        BY <1>1, <2>0, <3>2 DEF AcordeInv, AcordeEn, AMediasBien
      <4>2. \A o \in Solicitudes : sol[o].quien = q /\ AMedias(o) => o = s
        BY <1>2, <2>0, <4>1, SoloCreador
      <4>3. ~AMedias(s)' /\ Cambia(s)
        BY <1>2 DEF Termina, AMedias
      <4>4. Concuerda(fila'[q], cuenta'[q])
        BY <1>2, <2>2, <4>1 DEF Concuerda
      <4> QED BY <2>0, <4>2, <4>3, <4>4, SuPersona
    <3> QED BY <3>1, <3>2
  <2> QED BY <1>2, <2>0, <2>3, <2>4, SigueAcorde DEF Termina
<1> QED BY <1>3, <1>4 DEF Deshacer

LEMMA VenceOCaeAcorde ==
  ASSUME PersonalInv, AcordeInv, NEW s \in Solicitudes,
         VenceTransaccion(s) \/ CaeProceso(s)
  PROVE  AcordeInv'
<1>1. sol[s].quien \in Cuentas /\ PersonalTypeOK
  BY DEF PersonalInv, Validas, VenceTransaccion, CaeProceso, EnFase, Cuentas
<1>2. UNCHANGED <<fila, cuenta>> /\ incierta' = incierta \cup {sol[s].quien}
  BY <1>1, FallaEfecto DEF VenceTransaccion, CaeProceso, Quien
<1>3. \A p \in Personas : Igual(p)
  BY <1>2 DEF Igual
<1>4. /\ candado' # s
      /\ \A o \in Solicitudes \ {s} : candado' = o <=> candado = o
  BY <1>1, SueltaEfecto, PersonalAssumption DEF VenceTransaccion, CaeProceso
<1>5. CASE Acaba(s)
  BY <1>1, <1>2, <1>3, <1>4, <1>5, AcabaEfecto, TerminaFallaAcorde
<1>6. CASE UNCHANGED sol
  <2>1. Cambia(s) /\ \A o \in Solicitudes : Creador(o)' <=> Creador(o)
    BY <1>1, <1>6 DEF PersonalTypeOK, Cambia, Creador, Creando
  <2>2. UnCreador' /\ TieneFila'
    BY <1>2, <1>4, <1>6, <2>1, CreadorQuieto
  <2>3. \A p \in Personas : AcordeEn(p)'
    BY <1>2, <1>3, <1>6, <2>1, FallaAcorde
  <2> QED BY <2>2, <2>3 DEF AcordeInv
<1> QED BY <1>5, <1>6 DEF VenceTransaccion, CaeProceso

LEMMA AcordeInicio == PersonalInit => AcordeInv
<1> SUFFICES ASSUME PersonalInit PROVE AcordeInv
  OBVIOUS
<1>1. Libre.fase = "libre" /\ \A s \in Solicitudes : sol[s] = Libre /\ candado # s
  BY PersonalAssumption DEF PersonalInit, Libre, UnaSolicitud
<1>2. UnCreador /\ TieneFila
  BY <1>1 DEF UnCreador, TieneFila, Creador, Creando
<1>3. ASSUME NEW p \in Personas PROVE AcordeEn(p)
  <2>1. p \in Cuentas /\ p \notin Cocinas /\ fila[p] \in Fila
    BY PersonalAssumption DEF PersonalInit, Cuentas
  <2>2. Concuerda(fila[p], cuenta[p])
    BY <2>1 DEF PersonalInit, Concuerda, UnaCuenta, SinCuenta, Fila
  <2>3. \A s \in Solicitudes : AMediasBien(s)
    BY <1>1 DEF AMediasBien
  <2> QED BY <2>2, <2>3 DEF AcordeEn
<1> QED BY <1>2, <1>3 DEF AcordeInv

LEMMA AcordePaso ==
  PersonalInv /\ AcordeInv /\ [PersonalNext]_personalVars => AcordeInv'
<1> SUFFICES ASSUME PersonalInv, AcordeInv, [PersonalNext]_personalVars
             PROVE  AcordeInv'
  OBVIOUS
<1>1. CASE UNCHANGED personalVars
  <2>1. \A o \in Solicitudes : Creador(o)' <=> Creador(o)
    BY <1>1 DEF personalVars, Creador, Creando
  <2>2. UnCreador' /\ TieneFila'
    BY <1>1, <2>1, CreadorQuieto DEF personalVars
  <2>3. \A p \in Personas : AcordeEn(p)'
    BY <1>1, Ajeno DEF personalVars, AcordeInv, Igual
  <2> QED BY <2>2, <2>3 DEF AcordeInv
<1>2. ASSUME NEW s \in Solicitudes,
             \/ \E p \in Personas, rol \in Roles :
                  \/ PedirCrear(s, p, rol)
                  \/ \E op \in ConCandado : PedirCambio(s, op, p, rol)
             \/ \E c \in Cocinas, op \in ConCandado : PedirCocina(s, op, c)
             \/ \E c \in Cuentas : PedirCerrar(s, c) \/ PedirContrasena(s, c)
      PROVE  AcordeInv'
  BY <1>2, PedirAcorde
<1>3. ASSUME NEW s \in Solicitudes,
             \/ Entrar(s) \/ LlamarKeycloak(s) \/ Confirmar(s) \/ CerrarSesiones(s)
             \/ AsignarRol(s) \/ InsertarFila(s) \/ Deshacer(s)
             \/ VenceTransaccion(s) \/ CaeProceso(s)
      PROVE  AcordeInv'
  BY <1>3, EntrarAcorde, LlamarKeycloakAcorde, ConfirmarAcorde, CerrarSesionesAcorde,
     AsignarRolAcorde, InsertarFilaAcorde, DeshacerAcorde, VenceOCaeAcorde
<1>4. ASSUME NEW c \in Cuentas, Ingresar(c) PROVE AcordeInv'
  BY <1>4, IngresarAcorde
<1> QED BY <1>1, <1>2, <1>3, <1>4, Zenon DEF PersonalNext

\* Whatever requests overlap, whoever has a row has an account with its role,
\* enabled when the row is active, and who has none has no account, unless a
\* request is at it or a failure is noted in it.
THEOREM FilaYCuentaConcuerdan == PersonalSpec => []CuentaAcorde
<1>1. PersonalInv /\ AcordeInv => CuentaAcorde
  <2> SUFFICES ASSUME AcordeInv, NEW p \in Personas, ~EnCurso(p), p \notin incierta
               PROVE  Concuerda(fila[p], cuenta[p])
    BY DEF CuentaAcorde, Concuerda
  <2> QED BY DEF AcordeInv, AcordeEn, AMedias, EnCurso, EnFase, Quien
<1>2. PersonalSpec => []AcordeInv
  <2>1. PersonalInit => AcordeInv
    BY AcordeInicio
  <2>2. PersonalInv /\ AcordeInv /\ [PersonalNext]_personalVars => AcordeInv'
    BY AcordePaso
  <2> QED BY <2>1, <2>2, PersonalSpecInv, PTL DEF PersonalSpec
<1> QED BY <1>1, <1>2, PersonalSpecInv, PTL

=============================================================================
