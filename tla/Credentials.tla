---------------------------- MODULE Credentials ----------------------------
(***************************************************************************)
(* What a TLS connection is set up with: the trust anchors of the process,   *)
(* which tlsLoadCACerts adds to, and a server's certificate chain and key,   *)
(* which an object owns and its connections refer to.  The three loaders     *)
(* read a PEM file block by block and follow the decoder's events.           *)
(*                                                                         *)
(* A file is a sequence of events, Block of them in each read: an object     *)
(* begins, ends, or turns out to be broken.  The decoder, external, looks    *)
(* for the next beginning after an error, or when it is entered in the       *)
(* middle of an object.                                                      *)
(***************************************************************************)
EXTENDS Naturals, Sequences, FiniteSets

CONSTANTS
  PemFiles,      \* the files there are: sequences of objects
  Block,      \* events in a block: 8192 bytes in the code
  AnchorCap,  \* first capacity of the store: 128 in the code
  MaxLoads    \* bound: calls of tlsLoadCACerts

(* Certificates, one that does not decode, a key, one that does not decode,  *)
(* something else, and an object that is broken or has no end.               *)
PemObjects == {"cert", "badcert", "key", "badkey", "other", "broken", "endless"}

ASSUME CredentialsAssumption ==
  /\ Block \in Nat \ {0} /\ AnchorCap \in Nat \ {0} /\ MaxLoads \in Nat
  /\ PemFiles \subseteq Seq(PemObjects)

VARIABLES
  store,  \* trust anchors: how many, the capacity, and which allocation it is
  cred,   \* the server credential
  peer,   \* the connections, by role
  load    \* the last load: its file and what it returned

credVars == <<store, cred, peer, load>>

NoLoad == [file |-> <<>>, added |-> 0]

CredInit ==
  /\ store = [num |-> 0, cap |-> 0, place |-> 0, loads |-> 0]
  /\ cred = [state |-> "none", held |-> FALSE, chain |-> 0, blocks |-> 0, cut |-> FALSE]
  /\ peer = [r \in {"client", "server"} |-> [state |-> "none", place |-> 0, room |-> 0, pin |-> FALSE]]
  /\ load = NoLoad

-----------------------------------------------------------------------------
(* The events of a file.                                                     *)

EventsOf(o) ==
  CASE o = "broken"  -> <<<<"begin", o>>, <<"error", o>>>>
    [] o = "endless" -> <<<<"begin", o>>>>
    [] OTHER         -> <<<<"begin", o>>, <<"end", o>>>>

Events(file) ==
  LET upTo[n \in 0..Len(file)] == IF n = 0 THEN <<>> ELSE upTo[n - 1] \o EventsOf(file[n])
  IN  upTo[Len(file)]

BlockOf(i) == 1 + (i - 1) \div Block

(* The loop over the events, common to the loaders: an object counts when    *)
(* its beginning and its end are seen, and after an error the rest of the    *)
(* block is not looked at.                                                   *)
OnEvent(ev, w, n) ==
  IF w.skip = BlockOf(n) THEN w
  ELSE CASE ev[n][1] = "begin"           -> [w EXCEPT !.open = TRUE]
         [] w.open /\ ev[n][1] = "end"   -> [w EXCEPT !.open = FALSE, !.whole = @ \cup {n}]
         [] w.open /\ ev[n][1] = "error" -> [w EXCEPT !.open = FALSE, !.skip = BlockOf(n)]
         [] OTHER                        -> w

ReadTo(ev, last) ==
  LET after[n \in 0..last] ==
        IF n = 0 THEN [open |-> FALSE, skip |-> 0, whole |-> {}] ELSE OnEvent(ev, after[n - 1], n)
  IN  after[last]

ReadPem(ev) == ReadTo(ev, Len(ev)).whole

(* The objects of the kinds given that are read from beginning to end.       *)
WholeObjects(file, kinds) == LET ev == Events(file) IN {i \in ReadPem(ev) : ev[i][2] \in kinds}

-----------------------------------------------------------------------------
(* Trust anchors.                                                            *)

(* Mutant: the array is allocated anew for each anchor.  *)
AddAnchorMoves(s) ==
  [s EXCEPT !.num = s.num + 1, !.place = s.place + 1,
            !.cap = IF s.num < s.cap THEN s.cap ELSE IF s.cap = 0 THEN AnchorCap ELSE 2 * s.cap]

(* add_trust_anchor: the array doubles, and may move, when it is full.       *)
AddAnchor(s) ==
  IF s.num < s.cap THEN [s EXCEPT !.num = s.num + 1]
  ELSE [s EXCEPT !.num = s.num + 1, !.place = s.place + 1,
                 !.cap = IF s.cap = 0 THEN AnchorCap ELSE 2 * s.cap]

(* One after the other.  *)
AddAnchors(s, n) ==
  LET after[k \in 0..n] == IF k = 0 THEN s ELSE AddAnchor(after[k - 1])
  IN  after[n]

(* load_ca_pem.  *)
AnchorsIn(file) == Cardinality(WholeObjects(file, {"cert"}))

LoadCACerts(file) ==
  /\ store.loads < MaxLoads
  /\ store' = [AddAnchors(store, AnchorsIn(file)) EXCEPT !.loads = store.loads + 1]
  /\ load' = [file |-> file, added |-> AnchorsIn(file)]
  /\ UNCHANGED <<cred, peer>>

(* tlsConnect.  *)
TlsConnect ==
  /\ peer["client"].state = "none" /\ store.num > 0
  /\ peer' = [peer EXCEPT !["client"] = [state |-> "live", place |-> store.place,
                                         room |-> store.cap, pin |-> FALSE]]
  /\ load' = NoLoad
  /\ UNCHANGED <<store, cred>>

-----------------------------------------------------------------------------
(* Server credentials.                                                       *)

(* load_cert_chain_pem takes the certificates as they are, and               *)
(* load_private_key_pem the keys of the first block that has one.            *)
ChainIn(file) == Cardinality(WholeObjects(file, {"cert", "badcert"}))
FirstKeys(file) ==
  LET keys == WholeObjects(file, {"key", "badkey"}) IN
  {i \in keys : \A j \in keys : BlockOf(i) =< BlockOf(j)}
KeysIn(file) == {Events(file)[i][2] : i \in FirstKeys(file)}

(* The byte vector of an object that has begun when a loader stops reading   *)
(* is not freed: the object at the end of the file, or of the block in which *)
(* a key was found, if it is, or may be, one of those that are looked for.   *)
LastRead(file) ==
  LET all == Len(Events(file))
      first == FirstKeys(file)
  IN
  CHOOSE n \in 0..all :
    IF first = {} THEN n = all
    ELSE \E i \in first :
           n >= i /\ BlockOf(n) = BlockOf(i) /\ (n = all \/ BlockOf(n + 1) # BlockOf(i))

Left(file, last, kinds) ==
  LET ev == Events(file) IN
  IF last > 0 /\ ReadTo(ev, last).open /\ ev[last][2] \in kinds \cup {"broken", "endless"} THEN 1 ELSE 0

LeftOfChain(file) == Left(file, Len(Events(file)), {"cert", "badcert"})
LeftOfKey(file) == Left(file, LastRead(file), {"key", "badkey"})

(* Mutant: the chain and its buffers stay.  *)
FreeStructOnly(c, state) ==
  [c EXCEPT !.state = state, !.held = FALSE, !.blocks = c.blocks - 1]

(* free_server_cred: the buffers of the chain, the array of them, the chain   *)
(* and the struct.                                                           *)
FreeServerCred(c, state) ==
  [c EXCEPT !.state = state, !.held = FALSE, !.blocks = c.blocks - (c.chain + 3)]

(* A file in which a loader may stop inside an object.  *)
EndsInside(file) ==
  \/ \E i \in DOMAIN file : file[i] = "endless"
  \/ \E i, j \in DOMAIN file : i # j /\ {file[i], file[j]} \subseteq {"key", "badkey", "broken"}

(* tlsLoadServerCert: a struct, then the chain, then the key; without a      *)
(* chain only the struct is freed, there is nothing else.                    *)
LoadedServerCert(certFile, keyFile) ==
  LET n == ChainIn(certFile)
      cut == EndsInside(certFile) \/ EndsInside(keyFile)
      made == [state |-> "live", held |-> TRUE, chain |-> n, cut |-> cut,
               blocks |-> n + 3 + LeftOfChain(certFile) + LeftOfKey(keyFile)]
  IN
  IF n = 0
  THEN [state |-> "failed", held |-> FALSE, chain |-> 0, cut |-> cut, blocks |-> LeftOfChain(certFile)]
  ELSE IF KeysIn(keyFile) # {"key"} THEN FreeServerCred(made, "failed")
  ELSE made

LoadServerCert(certFile, keyFile) ==
  /\ cred.state \in {"none", "failed"}
  /\ cred' = LoadedServerCert(certFile, keyFile)
  /\ load' = NoLoad
  /\ UNCHANGED <<store, peer>>

(* tlsAccept: the connection's object keeps the credential's in _cred.       *)
Accepted == [state |-> "live", place |-> 0, room |-> 0, pin |-> TRUE]

Accept ==
  /\ peer["server"].state = "none" /\ cred.state = "live" /\ cred.held
  /\ peer' = [peer EXCEPT !["server"] = Accepted]
  /\ load' = NoLoad
  /\ UNCHANGED <<store, cred>>

(* The program drops an object; the collector frees it when nothing keeps it. *)
DropCred ==
  /\ cred.held
  /\ cred' = [cred EXCEPT !.held = FALSE]
  /\ load' = NoLoad
  /\ UNCHANGED <<store, peer>>

(* tls_server_cred_finalizer.  *)
CredFinalizer ==
  /\ cred.state = "live" /\ ~cred.held /\ ~peer["server"].pin
  /\ cred' = FreeServerCred(cred, "freed")
  /\ load' = NoLoad
  /\ UNCHANGED <<store, peer>>

(* The program drops the connection: tls_conn_finalizer, which also closes   *)
(* the engine, and then what the object kept.                                *)
ConnFinalizer(role) ==
  /\ peer[role].state = "live"
  /\ peer' = [peer EXCEPT ![role].state = "freed", ![role].pin = FALSE]
  /\ load' = NoLoad
  /\ UNCHANGED <<store, cred>>

CredNext ==
  \/ \E f \in PemFiles : LoadCACerts(f) \/ (\E g \in PemFiles : LoadServerCert(f, g))
  \/ TlsConnect \/ Accept \/ DropCred \/ CredFinalizer
  \/ \E role \in {"client", "server"} : ConnFinalizer(role)

-----------------------------------------------------------------------------
CredTypeOK ==
  /\ store.num \in 0..store.cap /\ cred.state \in {"none", "live", "failed", "freed"}
  /\ \A r \in {"client", "server"} : peer[r].state \in {"none", "live", "freed"}

(* A server connection never outlives the chain and the key it was given,    *)
(* though the program may drop the credential while the connection is open.  *)
CredentialOutlivesConnection == peer["server"].state = "live" => cred.state = "live"

(* The anchors a client connection was given stay where they are as long as  *)
(* later loads fit the capacity.  (When they do not, realloc moves them and  *)
(* the connection is left with the old place.)                               *)
AnchorsStayPut ==
  peer["client"].state = "live" /\ store.num =< peer["client"].room
    => peer["client"].place = store.place

(* Exactly the certificates that decode are added, however the blocks fall,  *)
(* and a broken object costs at most what follows it in its own block.       *)
OnlyGoodAnchors ==
  LET good == {i \in DOMAIN load.file : load.file[i] = "cert"}
      bad  == {i \in DOMAIN load.file : load.file[i] = "broken"}
  IN  /\ load.added =< Cardinality(good)
      /\ bad = {} => load.added = Cardinality(good)
      /\ load.added >= Cardinality({i \in good : \A j \in bad : i < j})

(* tlsLoadServerCert frees what it has allocated when it throws, and the     *)
(* finalizer what the credential holds, except the vector of an object in    *)
(* which a loader has stopped reading.                                       *)
LoadsAreFreed == cred.state \in {"failed", "freed"} /\ ~cred.cut => cred.blocks = 0

(* What a connection points at stays, a file of certificates leaves exactly  *)
(* what is good in it, and what is over has freed what it held.              *)
CredentialsInv ==
  /\ CredTypeOK
  /\ CredentialOutlivesConnection /\ AnchorsStayPut
  /\ OnlyGoodAnchors /\ LoadsAreFreed
=============================================================================
