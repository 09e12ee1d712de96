----------------------------- MODULE FsRequests -----------------------------
(***************************************************************************)
(* The asynchronous requests of qn-uv-fs.c and qn-uv-dns.c, and QNFile, the *)
(* object that owns a file descriptor.  A request leaves the JavaScript     *)
(* thread with a bare descriptor number; a thread of libuv's pool makes the *)
(* system call later, in any order with the others; the loop then calls     *)
(* back and settles the promise.  Meanwhile JavaScript may close the file,  *)
(* or lose it, and the kernel gives the lowest free number to the next      *)
(* open.                                                                    *)
(*                                                                         *)
(* A request is open, close, some operation on a descriptor, or one on a    *)
(* path (make it, remove it, or look), or the look-up of a host.            *)
(* There is one path; buffers and addresses are left out.                   *)
(* An opened file is told from the next one with the same number by a       *)
(* serial number, the bound of which limits the opens.                      *)
(*                                                                         *)
(* The number is no secret: the getter fd shows it, and every call takes a  *)
(* bare number in place of the object.  A close by number leaves the object *)
(* as it is, with a number that may be another file's by the time the       *)
(* object is closed or collected.  Files closed by anything but their owner *)
(* are kept in astray.  An object that cannot be allocated leaves the       *)
(* descriptor it was for open, without an owner: these are in leaked.       *)
(***************************************************************************)
EXTENDS Integers, FiniteSets, FiniteSetsExt

CONSTANTS
  Files,     \* QNFile objects
  Requests,  \* QNFsReq and QNGetAddrInfoReq structs
  MaxOpens   \* bound: successful opens

ASSUME FsAssumption == MaxOpens \in Nat /\ IsFiniteSet(Requests)

VARIABLES
  files,   \* QNFile structs and their objects
  reqs,    \* requests
  fdTable,   \* the kernel's descriptor table: number -> serial of the open file
  opens,   \* files opened so far
  made,    \* the kernel's directory: the path exists
  told,    \* makes less removes that JavaScript was told of
  numbered, \* JavaScript has closed a descriptor by its number
  astray,  \* serials of the files closed by something that is not their owner
  leaked   \* serials of the files whose QNFile could not be made

fsVars == <<files, reqs, fdTable, opens, made, told, numbered, astray, leaked>>
ownVars == <<numbered, astray, leaked>>
pathVars == <<made, told>>

ClosedFd == MaxOpens + 1  \* f->fd == -1
Numbers == 1..MaxOpens
Serials == 0..MaxOpens  \* 0: the number is free

PathOps == {"make", "remove", "look"}

NoFile == [obj |-> "none", fd |-> ClosedFd, serial |-> 0, touched |-> 0]
OpenFile(n, id) == [NoFile EXCEPT !.obj = "alive", !.fd = n, !.serial = id]
NoReq == [op |-> "none", state |-> "free", fd |-> ClosedFd, serial |-> 0,
          file |-> "none", result |-> 0,
          promise |-> "none", intact |-> TRUE]

FsInit ==
  /\ files = [f \in Files |-> NoFile]
  /\ reqs = [r \in Requests |-> NoReq]
  /\ fdTable = [n \in Numbers |-> 0]
  /\ opens = 0
  /\ made = FALSE /\ told = 0
  /\ numbered = FALSE /\ astray = {} /\ leaked = {}

LowestFree == Min({n \in Numbers : fdTable[n] = 0})

(* The descriptor of f is about to be closed: requests still on their way    *)
(* with its number are no longer sure of their file.                         *)
Unsettled(q, f) ==
  [r \in Requests |->
     IF q[r].file = f /\ q[r].op = "fd" /\ q[r].state = "queued"
     THEN [q[r] EXCEPT !.intact = FALSE] ELSE q[r]]

(* close(2) of the number n, for the file with serial number id (0: for none  *)
(* in particular).                                                           *)
Closes(n, id) ==
  /\ fdTable' = [fdTable EXCEPT ![n] = 0]
  /\ astray' = astray \union ({fdTable[n]} \ {0, id})

-----------------------------------------------------------------------------
(* js_uv_fsop and js_uv_getaddrinfo.  An argument of the wrong type or a     *)
(* failed dispatch frees the struct and throws, and nothing else happens.    *)

FsOpOpen(r) ==
  /\ reqs[r].state = "free" /\ opens < MaxOpens
  /\ reqs' = [reqs EXCEPT ![r] = [NoReq EXCEPT !.op = "open", !.state = "queued",
                                               !.promise = "pending"]]
  /\ UNCHANGED <<files, fdTable, opens>>

(* qn_close_fd takes the number out of the object before the call is made.   *)
FsOpClose(r, f) ==
  /\ reqs[r].state = "free" /\ files[f].obj = "alive" /\ files[f].fd # ClosedFd
  /\ reqs' = [Unsettled(reqs, f) EXCEPT
                ![r] = [NoReq EXCEPT !.op = "close", !.state = "queued",
                                     !.fd = files[f].fd, !.serial = files[f].serial,
                                     !.promise = "pending"]]
  /\ files' = [files EXCEPT ![f].fd = ClosedFd]
  /\ UNCHANGED <<fdTable, opens>>

(* qn_get_fd reads the number.  *)
FsOpFd(r, f) ==
  /\ reqs[r].state = "free" /\ files[f].obj = "alive" /\ files[f].fd # ClosedFd
  /\ reqs' = [reqs EXCEPT
                ![r] = [NoReq EXCEPT !.op = "fd", !.state = "queued", !.file = f,
                                     !.fd = files[f].fd, !.serial = files[f].serial,
                                     !.promise = "pending"]]
  /\ UNCHANGED <<files, fdTable, opens>>

(* The same calls with a bare number, which the object that has it keeps.     *)
FsOpNumber(r, n) ==
  /\ reqs[r].state = "free"
  /\ \E op \in {"close", "fd"} :
       /\ reqs' = [reqs EXCEPT ![r] = [NoReq EXCEPT !.op = op, !.state = "queued", !.fd = n,
                                                    !.promise = "pending", !.intact = FALSE]]
       /\ numbered' = (numbered \/ op = "close")
  /\ UNCHANGED <<files, fdTable, opens, astray, leaked>>

FsOpPath(r) ==
  /\ reqs[r].state = "free"
  /\ \E op \in PathOps :
       reqs' = [reqs EXCEPT ![r] = [NoReq EXCEPT !.op = op, !.state = "queued",
                                                 !.promise = "pending"]]
  /\ UNCHANGED <<files, fdTable, opens>>

(* js_uv_getaddrinfo: the look-up is queued first and the promise made in    *)
(* the same turn, before the loop can call back.                             *)
GetAddrInfo(r) ==
  /\ reqs[r].state = "free"
  /\ reqs' = [reqs EXCEPT ![r] = [NoReq EXCEPT !.op = "host", !.state = "queued",
                                               !.promise = "pending"]]
  /\ UNCHANGED <<files, fdTable, opens>>

-----------------------------------------------------------------------------
(* A thread of the pool makes the system call.  result is the serial number  *)
(* of the file it touched, 0 for an error.                                   *)

FsWorkOpen(r) ==
  /\ reqs[r].state = "queued" /\ reqs[r].op = "open"
  /\ \/ /\ opens < MaxOpens
        /\ opens' = opens + 1
        /\ fdTable' = [fdTable EXCEPT ![LowestFree] = opens + 1]
        /\ reqs' = [reqs EXCEPT ![r].state = "done", ![r].fd = LowestFree,
                                ![r].serial = opens + 1, ![r].result = opens + 1]
     \/ /\ reqs' = [reqs EXCEPT ![r].state = "done"]
        /\ UNCHANGED <<fdTable, opens>>
  /\ UNCHANGED files

FsWorkClose(r) ==
  /\ reqs[r].state = "queued" /\ reqs[r].op = "close"
  /\ Closes(reqs[r].fd, reqs[r].serial)
  /\ reqs' = [reqs EXCEPT ![r].state = "done", ![r].result = fdTable[reqs[r].fd]]
  /\ UNCHANGED <<files, opens, numbered, leaked>>

FsWorkFd(r) ==
  /\ reqs[r].state = "queued" /\ reqs[r].op = "fd"
  /\ \E ok \in BOOLEAN :
       reqs' = [reqs EXCEPT ![r].state = "done",
                            ![r].result = IF ok THEN fdTable[reqs[r].fd] ELSE 0]
  /\ UNCHANGED <<files, fdTable, opens>>

(* What the kernel makes of an operation on the path: making one that is     *)
(* there and removing or reading one that is not are errors.                 *)
Works(op) == (op = "make") = ~made
MadeBy(op) == IF op = "look" \/ ~Works(op) THEN made ELSE op = "make"
Told(op) == CASE op = "make" -> 1 [] op = "remove" -> -1 [] OTHER -> 0

FsWorkPath(r) ==
  /\ reqs[r].state = "queued" /\ reqs[r].op \in PathOps
  /\ reqs' = [reqs EXCEPT ![r].state = "done",
                          ![r].result = IF Works(reqs[r].op) THEN 1 ELSE 0]
  /\ made' = MadeBy(reqs[r].op)
  /\ UNCHANGED <<files, fdTable, opens, told>>

(* The resolver finds addresses or gives an error.  *)
FsWorkHost(r) ==
  /\ reqs[r].state = "queued" /\ reqs[r].op = "host"
  /\ \E found \in 0..1 :
       reqs' = [reqs EXCEPT ![r].state = "done", ![r].result = found]
  /\ UNCHANGED <<files, fdTable, opens>>

-----------------------------------------------------------------------------
(* The promise is settled and the struct freed; without a promise the call   *)
(* goes through what the struct happens to hold.                             *)
Settled(q) ==
  [NoReq EXCEPT !.promise = IF q.promise = "pending" THEN "settled" ELSE "garbage"]

(* Mutant: an error returns before the promise is settled.  *)
FsReqCbDropsErrors(r) ==
  /\ reqs[r].state = "done" /\ reqs[r].op # "host"
  /\ reqs' = [reqs EXCEPT ![r] = IF reqs[r].result = 0 THEN [reqs[r] EXCEPT !.state = "lost"]
                                 ELSE Settled(reqs[r])]
  /\ \/ reqs[r].op = "open" /\ reqs[r].result # 0
        /\ \E f \in Files : /\ files[f].obj = "none"
                            /\ files' = [files EXCEPT ![f] =
                                 OpenFile(reqs[r].fd, reqs[r].serial)]
     \/ ~(reqs[r].op = "open" /\ reqs[r].result # 0) /\ UNCHANGED files
  /\ told' = told + reqs[r].result * Told(reqs[r].op)
  /\ UNCHANGED <<fdTable, opens, made, ownVars>>

(* qn_fs_req_cb: the promise is settled with the result, which for an open   *)
(* is a new QNFile; the pin and the struct go.  If the object cannot be      *)
(* allocated the promise is settled all the same and the descriptor stays    *)
(* open.                                                                     *)
FsReqCb(r) ==
  /\ reqs[r].state = "done" /\ reqs[r].op # "host"
  /\ reqs' = [reqs EXCEPT ![r] = Settled(reqs[r])]
  /\ IF reqs[r].op = "open" /\ reqs[r].result # 0
     THEN \/ /\ \E f \in Files :
                  /\ files[f].obj = "none"
                  /\ files' = [files EXCEPT ![f] = OpenFile(reqs[r].fd, reqs[r].serial)]
             /\ UNCHANGED leaked
          \/ leaked' = leaked \union {reqs[r].serial} /\ UNCHANGED files
     ELSE UNCHANGED <<files, leaked>>
  /\ told' = told + reqs[r].result * Told(reqs[r].op)
  /\ UNCHANGED <<fdTable, opens, made, numbered, astray>>

(* uv__getaddrinfo_cb: the promise is resolved with the addresses or         *)
(* rejected, the list and the struct are freed.                              *)
GetAddrInfoCb(r) ==
  /\ reqs[r].state = "done" /\ reqs[r].op = "host"
  /\ reqs' = [reqs EXCEPT ![r] = Settled(reqs[r])]
  /\ UNCHANGED <<files, fdTable, opens>>

-----------------------------------------------------------------------------
(* js_uv_fssync: the same operations, made at once.  *)

FsSyncOpen(f) ==
  /\ files[f].obj = "none" /\ opens < MaxOpens
  /\ opens' = opens + 1
  /\ fdTable' = [fdTable EXCEPT ![LowestFree] = opens + 1]
  /\ \/ files' = [files EXCEPT ![f] = OpenFile(LowestFree, opens + 1)] /\ UNCHANGED leaked
     \/ leaked' = leaked \union {opens + 1} /\ UNCHANGED files
  /\ UNCHANGED <<reqs, numbered, astray>>

(* Mutant: the number stays in the object after closeSync.  *)
FsSyncCloseKeeps(f) ==
  /\ files[f].obj = "alive" /\ files[f].fd # ClosedFd
  /\ Closes(files[f].fd, files[f].serial)
  /\ reqs' = Unsettled(reqs, f)
  /\ UNCHANGED <<files, opens, numbered, leaked>>

FsSyncClose(f) ==
  /\ files[f].obj = "alive" /\ files[f].fd # ClosedFd
  /\ Closes(files[f].fd, files[f].serial)
  /\ files' = [files EXCEPT ![f].fd = ClosedFd]
  /\ reqs' = Unsettled(reqs, f)
  /\ UNCHANGED <<opens, numbered, leaked>>

(* closeSync(n).  *)
FsSyncCloseNumber(n) ==
  /\ Closes(n, 0)
  /\ numbered' = TRUE
  /\ UNCHANGED <<files, reqs, opens, leaked>>

(* qn_file_finalizer: the last reference is lost, perhaps with requests on   *)
(* their way; a descriptor that is still open is closed.                     *)
FileFinalizer(f) ==
  /\ files[f].obj = "alive"
  /\ IF files[f].fd = ClosedFd THEN UNCHANGED <<fdTable, astray>>
     ELSE Closes(files[f].fd, files[f].serial)
  /\ reqs' = Unsettled(reqs, f)
  /\ files' = [files EXCEPT ![f].obj = "dead", ![f].fd = ClosedFd]
  /\ UNCHANGED <<opens, numbered, leaked>>

(* The operations on a descriptor; with a bare number they change nothing     *)
(* that is kept here.                                                        *)
FsSyncFd(f) ==
  /\ files[f].obj = "alive" /\ files[f].fd # ClosedFd
  /\ files' = [files EXCEPT ![f].touched = fdTable[files[f].fd]]
  /\ UNCHANGED <<reqs, fdTable, opens>>

(* The operations on a path; an error is thrown and changes nothing.  *)
FsSyncPath ==
  \E op \in PathOps \ {"look"} :
    /\ Works(op)
    /\ made' = MadeBy(op)
    /\ told' = told + Told(op)
    /\ UNCHANGED <<files, reqs, fdTable, opens>>

-----------------------------------------------------------------------------
FsNext ==
  \/ \E r \in Requests :
       \/ /\ \/ FsOpOpen(r) \/ FsOpPath(r) \/ GetAddrInfo(r)
             \/ \E f \in Files : FsOpClose(r, f) \/ FsOpFd(r, f)
             \/ FsWorkOpen(r) \/ FsWorkFd(r) \/ FsWorkHost(r) \/ GetAddrInfoCb(r)
          /\ UNCHANGED <<pathVars, ownVars>>
       \/ (FsWorkClose(r) \/ \E n \in Numbers : FsOpNumber(r, n)) /\ UNCHANGED pathVars
       \/ FsWorkPath(r) /\ UNCHANGED ownVars
       \/ FsReqCb(r)
  \/ \E f \in Files :
       \/ (FsSyncOpen(f) \/ FsSyncClose(f) \/ FileFinalizer(f)) /\ UNCHANGED pathVars
       \/ FsSyncFd(f) /\ UNCHANGED <<pathVars, ownVars>>
  \/ \E n \in Numbers : FsSyncCloseNumber(n) /\ UNCHANGED pathVars
  \/ FsSyncPath /\ UNCHANGED ownVars

(* The pool works off its queue and the loop calls back.  *)
FsFairness ==
  \A r \in Requests :
    /\ WF_fsVars((FsWorkOpen(r) \/ FsWorkFd(r)) /\ UNCHANGED <<pathVars, ownVars>>)
    /\ WF_fsVars(FsWorkClose(r) /\ UNCHANGED pathVars)
    /\ WF_fsVars((FsWorkHost(r) \/ GetAddrInfoCb(r)) /\ UNCHANGED <<pathVars, ownVars>>)
    /\ WF_fsVars(FsWorkPath(r) /\ UNCHANGED ownVars)
    /\ WF_fsVars(FsReqCb(r))

FsTypeOK ==
  /\ \A f \in Files : files[f].obj \in {"none", "alive", "dead"}
                      /\ files[f].fd \in Numbers \union {ClosedFd}
  /\ \A r \in Requests : reqs[r].promise \in {"none", "pending", "settled"}
  /\ fdTable \in [Numbers -> Serials]
  /\ opens \in 0..MaxOpens /\ made \in BOOLEAN
  /\ numbered \in BOOLEAN /\ astray \subseteq Serials /\ leaked \subseteq Serials

(* Who is to close descriptor n: the object that has the number, or a        *)
(* request that carries it from the object to close(2) or back from open(2).  *)
FileHolders(n) == {f \in Files : files[f].obj = "alive" /\ files[f].fd = n}
RequestHolders(n) ==
  {r \in Requests : /\ reqs[r].fd = n /\ reqs[r].serial # 0
                    /\ \/ reqs[r].op = "close" /\ reqs[r].state = "queued"
                       \/ reqs[r].op = "open" /\ reqs[r].state = "done" /\ reqs[r].result # 0}

(* The holders of n that have it for the file that is open under it, and      *)
(* those that have it for a file that is not.                                *)
Owners(n) ==
  {f \in FileHolders(n) : files[f].serial = fdTable[n]}
  \union {r \in RequestHolders(n) : reqs[r].serial = fdTable[n]}

Misled(n) ==
  {files[f].serial : f \in {f \in FileHolders(n) : files[f].serial # fdTable[n]}}
  \union {reqs[r].serial : r \in {r \in RequestHolders(n) : reqs[r].serial # fdTable[n]}}

(* An open descriptor has exactly one owner, unless the object for it could   *)
(* not be made; a closed one has none; and no order of open, close, failure  *)
(* and garbage collection closes a file behind its owner's back, unless      *)
(* JavaScript has closed a descriptor by its number.                         *)
DescriptorHasOneOwner ==
  /\ \A n \in Numbers :
       /\ fdTable[n] # 0 => Cardinality(Owners(n)) = IF fdTable[n] \in leaked THEN 0 ELSE 1
       /\ Misled(n) \subseteq astray
  /\ ~numbered => astray = {}

(* The calls op that were made and that JavaScript is still to be told of.   *)
Due(op) == {r \in Requests : reqs[r].state = "done" /\ reqs[r].op = op /\ reqs[r].result = 1}

(* What JavaScript was told of the path, and what it is still to be told by  *)
(* calls that were made, adds up to what is on the disk.                     *)
PathReportsTruth ==
  told + Cardinality(Due("make")) - Cardinality(Due("remove")) = IF made THEN 1 ELSE 0

(* An operation on a file whose descriptor JavaScript has not given up since *)
(* the call acts on that file, never on another that got the number, unless  *)
(* the file was closed behind its owner's back.                              *)
OpActsOnItsFile ==
  /\ \A r \in Requests : reqs[r].op = "fd" /\ reqs[r].intact =>
       reqs[r].result \in {0, reqs[r].serial} \/ reqs[r].serial \in astray
  /\ \A f \in Files :
       files[f].touched \in {0, files[f].serial} \/ files[f].serial \in astray

(* Every promise of a request is settled.  *)
RequestSettles ==
  \A r \in Requests : reqs[r].promise = "pending" ~> reqs[r].promise = "settled"

(* Descriptors and requests: every open descriptor has one owner, a request  *)
(* acts on the file it was made for, and reports what was done.              *)
FsInv == FsTypeOK /\ DescriptorHasOneOwner /\ OpActsOnItsFile /\ PathReportsTruth
=============================================================================
