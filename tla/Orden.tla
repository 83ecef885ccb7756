-------------------------------- MODULE Orden --------------------------------
(***************************************************************************)
(* Lists in the order of a key: what an ORDER BY gives, and what a filter  *)
(* leaves of a list.                                                       *)
(***************************************************************************)
EXTENDS Integers, SequencesExt

EnOrdenDe(s, clave) == \A i, j \in DOMAIN s : i < j => clave[s[i]] <= clave[s[j]]

EnOrden(S, clave) == CHOOSE s \in SetToSeqs(S) : EnOrdenDe(s, clave)

\* What is at these places of a list, in the same order.
EnLugares(s, lugares) ==
  LET orden == EnOrden(lugares, [i \in lugares |-> i])
  IN  [j \in DOMAIN orden |-> s[orden[j]]]

=============================================================================
