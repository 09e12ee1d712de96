-------------------------------- MODULE Net --------------------------------
(***************************************************************************)
(* The secure transport and what is built on it: credentials and trust      *)
(* anchors, the TLS engine and its driver, fetch() with its pool, and the   *)
(* other users of BearSSL.  A behaviour uses one of them, fixed by the      *)
(* variable layer: what one layer promises the next is a property of its    *)
(* module.                                                                  *)
(***************************************************************************)
EXTENDS Fetch, TlsConn, Credentials, Crypto

VARIABLE layer

vars == <<layer, fetchVars, tl, credVars, cr>>

Layers == {"fetch", "tls", "credentials", "crypto"}

Init ==
  /\ layer \in Layers
  /\ FetchInit /\ TlsInit /\ CredInit /\ CrInit

Next ==
  /\ \/ layer = "fetch" /\ FetchNext /\ UNCHANGED <<tl, credVars, cr>>
     \/ layer = "tls" /\ TlsNext /\ UNCHANGED <<fetchVars, credVars, cr>>
     \/ layer = "credentials" /\ CredNext /\ UNCHANGED <<fetchVars, tl, cr>>
     \/ layer = "crypto" /\ CrNext /\ UNCHANGED <<fetchVars, tl, credVars>>
  /\ UNCHANGED layer

Fairness == FetchFairness /\ TlsFairness

Spec == Init /\ [][Next]_vars /\ Fairness

(* A fetch ends, and so does every operation on a TLS connection.  *)
NetworkCallsEnd == FetchEnds /\ OperationEnds
=============================================================================
