---------------------------- MODULE SupportCache ----------------------------
(***************************************************************************)
(* The qnc binary carries its support files: qnc-pack appends them         *)
(* (src/qnc/pack.c), and every start of qnc extracts them into a cache     *)
(* directory, unless the .stamp there has the modification time of the     *)
(* binary, and then executes qjs from it (src/qnc/wrapper.c).              *)
(*                                                                         *)
(* A binary is a sequence of cells: the program, the data of the files,    *)
(* the directory and the footer.  Processes start one after the other or,  *)
(* if Overlap, at the same time; they may be killed at any step, and the   *)
(* binary may be replaced by a newer build at any time.  The disk has room: *)
(* the code does not look at what fopen and fwrite return.                 *)
(***************************************************************************)
EXTENDS Integers, Sequences, SequencesExt

CONSTANTS
  Qncs,        \* runs of qnc
  FileNames,   \* sequence of the packed names
  Contents,    \* build -> sequence of the contents of the files
  Overlap      \* whether two runs may overlap

Builds == DOMAIN Contents
Cells == UNION {UNION {Range(Contents[b][i]) : i \in DOMAIN Contents[b]} : b \in Builds}

ASSUME CacheAssumption ==
  /\ FileNames \in Seq(Range(FileNames))
  /\ \A i, j \in 1..Len(FileNames) : FileNames[i] = FileNames[j] => i = j
  /\ Contents \in Seq([1..Len(FileNames) -> Seq(Cells)]) /\ Contents # <<>>

Missing == <<"missing">>
NoStamp == 0
EmptyStamp == -1

VARIABLES
  exe,      \* build of the binary on disk; its modification time too
  cache,    \* name -> contents, or Missing
  stamp,    \* modification time in .stamp, EmptyStamp or NoStamp
  qnc       \* run -> pc, mtime and archive it read, next file

cacheVars == <<exe, cache, stamp, qnc>>

Names == Range(FileNames)
Index(n) == CHOOSE i \in 1..Len(FileNames) : FileNames[i] = n

----------------------------------------------------------------------------
\* qnc-pack: data, directory with a size for each name, footer.
Offset(dir, i) ==
  LET sum[k \in 0..Len(dir)] == IF k = 0 THEN 0 ELSE sum[k - 1] + dir[k].size
  IN  sum[i - 1]

Pack(bin, names, data) ==
  bin \o FlattenSeq(data)
    \o << [i \in 1..Len(names) |-> [name |-> names[i], size |-> Len(data[i])]],
          [start |-> Len(bin), count |-> Len(names)] >>

\* extract_archive: footer, directory, then the data by running offsets.
Unpack(archive, i) ==
  LET footer == Last(archive)
      dir    == archive[Len(archive) - 1]
      from   == footer.start + Offset(dir, i)
  IN  SubSeq(archive, from + 1, from + dir[i].size)

Archive(b) == Pack(<<"elf">>, FileNames, Contents[b])

----------------------------------------------------------------------------
Idle == [pc |-> "idle", mtime |-> 0, from |-> 0, next |-> 1]
Active(q) == qnc[q].pc \notin {"idle", "running", "ended"}

\* main: the binary is found and its modification time read.
QncStart(q) ==
  /\ qnc[q].pc = "idle"
  /\ Overlap \/ \A r \in Qncs : ~Active(r)
  /\ qnc' = [qnc EXCEPT ![q].pc = "check", ![q].mtime = exe]
  /\ UNCHANGED <<exe, cache, stamp>>

\* Mutant: any stamp makes the cache valid.
CheckStampAny(q) ==
  /\ qnc[q].pc = "check"
  /\ qnc' = [qnc EXCEPT ![q].pc = IF stamp = NoStamp THEN "open" ELSE "exec"]
  /\ UNCHANGED <<exe, cache, stamp>>

\* Mutant: a run with a stale stamp waits for it to go.
CheckStampWaits(q) ==
  /\ qnc[q].pc = "check"
  /\ stamp \in {qnc[q].mtime, NoStamp}
  /\ qnc' = [qnc EXCEPT ![q].pc = IF stamp = NoStamp THEN "open" ELSE "exec"]
  /\ UNCHANGED <<exe, cache, stamp>>

CheckStamp(q) ==
  /\ qnc[q].pc = "check"
  /\ qnc' = [qnc EXCEPT ![q].pc = CASE stamp = qnc[q].mtime -> "exec"
                                    [] stamp = NoStamp      -> "open"
                                    [] OTHER                -> "wipe"]
  /\ UNCHANGED <<exe, cache, stamp>>

\* rmrf: one entry of the directory after the other, in any order.
Wipe(q) ==
  /\ qnc[q].pc = "wipe"
  /\ \/ \E n \in Names : /\ cache[n] # Missing
                         /\ cache' = [cache EXCEPT ![n] = Missing]
                         /\ UNCHANGED <<stamp, qnc>>
     \/ /\ stamp # NoStamp
        /\ stamp' = NoStamp
        /\ UNCHANGED <<cache, qnc>>
     \/ /\ stamp = NoStamp /\ \A n \in Names : cache[n] = Missing
        /\ qnc' = [qnc EXCEPT ![q].pc = "open"]
        /\ UNCHANGED <<cache, stamp>>
  /\ UNCHANGED exe

OpenArchive(q) ==
  /\ qnc[q].pc = "open"
  /\ qnc' = [qnc EXCEPT ![q].pc = "create", ![q].from = exe]
  /\ UNCHANGED <<exe, cache, stamp>>

\* fopen(outpath, "wb") empties the file.
CreateFile(q) ==
  /\ qnc[q].pc = "create"
  /\ qnc[q].next <= Len(FileNames)
  /\ cache' = [cache EXCEPT ![FileNames[qnc[q].next]] = <<>>]
  /\ qnc' = [qnc EXCEPT ![q].pc = "write"]
  /\ UNCHANGED <<exe, stamp>>

WriteFile(q) ==
  /\ qnc[q].pc = "write"
  /\ cache' = [cache EXCEPT ![FileNames[qnc[q].next]] = Unpack(Archive(qnc[q].from), qnc[q].next)]
  /\ qnc' = [qnc EXCEPT ![q].pc = "create", ![q].next = @ + 1]
  /\ UNCHANGED <<exe, stamp>>

\* fopen(stamp_path, "w") leaves an empty stamp until fclose writes it.
OpenStamp(q) ==
  /\ qnc[q].pc = "create"
  /\ qnc[q].next > Len(FileNames)
  /\ stamp' = EmptyStamp
  /\ qnc' = [qnc EXCEPT ![q].pc = "stamp"]
  /\ UNCHANGED <<exe, cache>>

WriteStamp(q) ==
  /\ qnc[q].pc = "stamp"
  /\ stamp' = qnc[q].mtime
  /\ qnc' = [qnc EXCEPT ![q].pc = "exec"]
  /\ UNCHANGED <<exe, cache>>

\* execv of qjs with qnc.js, which reads the other files as it needs them.
Exec(q) ==
  /\ qnc[q].pc = "exec"
  /\ qnc' = [qnc EXCEPT ![q].pc = "running"]
  /\ UNCHANGED <<exe, cache, stamp>>

QncEnds(q) ==
  /\ qnc[q].pc = "running"
  /\ qnc' = [qnc EXCEPT ![q] = [Idle EXCEPT !.pc = "ended"]]
  /\ UNCHANGED <<exe, cache, stamp>>

\* Killed while it extracts: what it wrote stays.
Killed(q) ==
  /\ Active(q)
  /\ qnc' = [qnc EXCEPT ![q] = [Idle EXCEPT !.pc = "ended"]]
  /\ UNCHANGED <<exe, cache, stamp>>

Rebuild ==
  /\ exe + 1 \in Builds
  /\ exe' = exe + 1
  /\ UNCHANGED <<cache, stamp, qnc>>

QncStep(q) == \/ QncStart(q) \/ CheckStamp(q) \/ Wipe(q) \/ OpenArchive(q) \/ CreateFile(q)
              \/ WriteFile(q) \/ OpenStamp(q) \/ WriteStamp(q) \/ Exec(q)

CacheInit ==
  /\ exe = 1
  /\ cache = [n \in Names |-> Missing]
  /\ stamp = NoStamp
  /\ qnc = [q \in Qncs |-> Idle]

CacheNext == Rebuild \/ \E q \in Qncs : QncStep(q) \/ QncEnds(q) \/ Killed(q)

CacheFairness == \A q \in Qncs : WF_cacheVars(QncStep(q))

----------------------------------------------------------------------------
CacheTypeOK ==
  /\ exe \in Builds
  /\ stamp \in Builds \union {NoStamp, EmptyStamp}
  /\ \A q \in Qncs : /\ qnc[q].next \in 1..(Len(FileNames) + 1)
                     /\ qnc[q].mtime \in Builds \union {0}
                     /\ qnc[q].from \in Builds \union {0}
                     /\ qnc[q].pc \in {"idle", "check", "wipe", "open", "create", "write",
                                       "stamp", "exec", "running", "ended"}

\* A run executes the files as they were packed, all of one build that is not
\* older than the binary it was started as, after whatever kills and rebuilds.
\* (a stamp is written last and a run with a stale one wipes the directory)
RunsWhatWasPacked ==
  \A q \in Qncs : qnc[q].pc = "exec" =>
    \E b \in Builds : /\ b >= qnc[q].mtime
                      /\ \A n \in Names : cache[n] = Contents[b][Index(n)]

\* A run that was started executes qjs or is killed.
StartedRunExecs ==
  \A q \in Qncs : qnc[q].pc = "check" ~> qnc[q].pc \in {"running", "ended"}
=============================================================================
