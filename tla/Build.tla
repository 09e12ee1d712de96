------------------------------- MODULE Build -------------------------------
(***************************************************************************)
(* The build tools: the compiler qnc and the cache of its support files.   *)
(* The two share no state; a behaviour exercises the one chosen at the     *)
(* start and leaves the other in its initial state.                        *)
(***************************************************************************)
EXTENDS Qnc, SupportCache

VARIABLE tool

buildVars == <<tool, qncVars, cacheVars>>

BuildInit ==
  \/ tool = "qnc" /\ QncInit /\ CacheInit
  \/ tool = "cache" /\ CacheInit /\ QncInit /\ prog = CHOOSE p \in Programs : TRUE

BuildNext ==
  \/ tool = "qnc" /\ QncNext /\ UNCHANGED <<tool, cacheVars>>
  \/ tool = "cache" /\ CacheNext /\ UNCHANGED <<tool, qncVars>>

Spec == BuildInit /\ [][BuildNext]_buildVars /\ CacheFairness

\* The types of both parts: what is embedded is a file, the map leads from
\* embedded names to embedded names.
BuildTypeOK == QncTypeOK /\ CacheTypeOK

\* Each module becomes one unit of the binary: compiled once, in cycles too,
\* under a C name of its own.
UnitsInv == BuildTypeOK /\ CompiledOnce /\ CNamesDistinct

\* The binary finds its own modules again wherever it runs: for its imports,
\* and for the modules named with -D.
BinaryReplays == Replays /\ DynImportable

\* The three resolvers agree: the runtime, the compile mode in C, and the port
\* of it in qnc.js.
ResolversAgree == SameFileInterpreted /\ PortAgrees
=============================================================================
