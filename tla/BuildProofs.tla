---------------------------- MODULE BuildProofs ----------------------------
(***************************************************************************)
(* What the build tools promise, for any files and any number of builds,     *)
(* programs and runs: a start of qnc executes what was packed, though runs   *)
(* are killed and the binary is replaced; and each module becomes one unit   *)
(* of the binary under a C name of its own.                                  *)
(***************************************************************************)
EXTENDS Build, SequenceFacts, FiniteSetTheorems

-----------------------------------------------------------------------------
(* The archive.                                                              *)

(* sum[k] is the size of the first k files of the directory.  *)
Sums(sum, dir) ==
  /\ sum \in [0..Len(dir) -> Nat] /\ sum[0] = 0
  /\ \A k \in 1..Len(dir) : sum[k] = sum[k - 1] + dir[k].size

(* The running offset of extract_archive is a sum of sizes.  *)
LEMMA OffsetIs ==
  ASSUME NEW F, NEW dir \in Seq(F), \A k \in 1..Len(dir) : dir[k].size \in Nat
  PROVE  \E sum : Sums(sum, dir) /\ \A i \in 1..Len(dir) : Offset(dir, i) = sum[i - 1]
<1> DEFINE N == Len(dir)
           step == [n \in 1..N |-> [x \in Nat |-> x + dir[n].size]]
<1>0. N \in Nat
  OBVIOUS
<1>1. \A n \in 1..N : step[n] \in [Nat -> Nat]
  OBVIOUS
<1>2. \A n \in 1..N, x \in Nat : step[n][x] = x + dir[n].size
  OBVIOUS
<1> HIDE DEF step, N
<1>3. Steps(step, N, Nat)
  BY <1>1 DEF Steps
<1>4. PICK g : Recurses(g, 0, N, step, Nat)
  BY <1>0, <1>3, Recursion, Zenon
<1>5. g \in [0..N -> Nat] /\ g[0] = 0 /\ \A n \in 1..N : g[n] = step[n][g[n - 1]]
  BY <1>4 DEF Recurses
<1>6. \A n \in 1..N : g[n] = g[n - 1] + dir[n].size
  <2> TAKE n \in 1..N
  <2>1. n - 1 \in 0..N
    BY <1>0
  <2> QED  BY <1>2, <1>5, <2>1
<1> DEFINE sum[k \in 0..N] == IF k = 0 THEN 0 ELSE sum[k - 1] + dir[k].size
<1>7. g = [k \in 0..N |-> IF k = 0 THEN 0 ELSE g[k - 1] + dir[k].size]
  <2>1. \A k \in 0..N : g[k] = IF k = 0 THEN 0 ELSE g[k - 1] + dir[k].size
    <3> TAKE k \in 0..N
    <3>1. CASE k = 0
      BY <3>1, <1>5
    <3>2. CASE k # 0
      BY <3>2, <1>6, <1>0
    <3> QED  BY <3>1, <3>2
  <2>2. g = [k \in 0..N |-> g[k]]
    BY <1>5
  <2> QED  BY <2>1, <2>2
<1>8. sum = [k \in 0..N |-> IF k = 0 THEN 0 ELSE sum[k - 1] + dir[k].size]
  BY <1>7, Zenon DEF sum
<1>9. \A i \in 1..N : Offset(dir, i) = sum[i - 1]
  BY Zenon DEF Offset, sum, N
<1> HIDE DEF sum
<1>10. sum[0] = 0 /\ \A k \in 1..N : sum[k] = sum[k - 1] + dir[k].size
  BY <1>8, <1>0
<1>11. sum \in [0..N -> Nat]
  <2> DEFINE T == {n \in 0..N : sum[n] \in Nat}
  <2>1. 0 \in T
    BY <1>10, <1>0
  <2>2. ASSUME NEW n \in 0..(N - 1), n \in T PROVE n + 1 \in T
    <3>1. n + 1 \in 1..N /\ (n + 1) - 1 = n /\ n + 1 \in 0..N
      BY <1>0
    <3>2. sum[n + 1] = sum[n] + dir[n + 1].size /\ dir[n + 1].size \in Nat
      BY <3>1, <1>10 DEF N
    <3> QED  BY <3>1, <3>2, <2>2
  <2>3. 0..N \subseteq T
    <3> HIDE DEF T
    <3> QED  BY <1>0, <2>1, <2>2, IntervalInduction
  <2> QED  BY <2>3, <1>8
<1> QED  BY <1>9, <1>10, <1>11 DEF N, Sums

(* The offsets of the directory are those of the data.  *)
LEMMA SumsAreLengths ==
  ASSUME NEW S, NEW s \in Seq(Seq(S)), NEW g, Flattens(g, s, S),
         NEW dir, Len(dir) = Len(s), \A k \in 1..Len(s) : dir[k].size = Len(s[k]),
         NEW sum, Sums(sum, dir)
  PROVE  \A n \in 0..Len(s) : Len(g[n]) = sum[n]
<1> DEFINE T == {n \in 0..Len(s) : Len(g[n]) = sum[n]}
<1>0. Len(s) \in Nat /\ \A n \in 1..Len(s) : s[n] \in Seq(S)
  OBVIOUS
<1>b. \A n \in 0..Len(s) : g[n] \in Seq(S)
  BY DEF Flattens
<1>1. 0 \in T
  BY <1>0 DEF Flattens, Sums
<1>2. ASSUME NEW n \in 0..(Len(s) - 1), n \in T PROVE n + 1 \in T
  <2>1. n + 1 \in 1..Len(s) /\ (n + 1) - 1 = n /\ n \in 0..Len(s) /\ n + 1 \in 0..Len(s)
    BY <1>0
  <2>2. g[n + 1] = g[n] \o s[n + 1]
    BY <2>1 DEF Flattens
  <2>3. sum[n + 1] = sum[n] + Len(s[n + 1])
    BY <2>1 DEF Sums
  <2>4. g[n] \in Seq(S) /\ s[n + 1] \in Seq(S)
    BY <2>1, <1>0, <1>b
  <2>5. Len(g[n + 1]) = Len(g[n]) + Len(s[n + 1])
    BY <2>2, <2>4
  <2> QED  BY <1>2, <2>1, <2>3, <2>5
<1>3. 0..Len(s) \subseteq T
  <2> HIDE DEF T
  <2> QED  BY <1>0, <1>1, <1>2, IntervalInduction
<1> QED  BY <1>3

(* What is unpacked is what was packed, file by file.  *)
LEMMA UnpackPack ==
  ASSUME NEW b \in Builds, NEW i \in 1..Len(FileNames)
  PROVE  Unpack(Archive(b), i) = Contents[b][i]
<1> DEFINE data == Contents[b]
           N == Len(FileNames)
           dir == [k \in 1..N |-> [name |-> FileNames[k], size |-> Len(data[k])]]
           footer == [start |-> 1, count |-> N]
           U == {"elf"} \cup Cells \cup {dir, footer}
           bin == <<"elf">>
           flat == FlattenSeq(data)
           tail == <<dir, footer>>
           a == (bin \o flat) \o tail
<1>0. N \in Nat /\ i \in 1..N
  BY CacheAssumption
<1>1. data \in [1..N -> Seq(Cells)]
  <2>1. Contents \in Seq([1..N -> Seq(Cells)])
    BY CacheAssumption
  <2> QED  BY <2>1 DEF Builds
<1>2. data \in Seq(Seq(Cells)) /\ Len(data) = N
  BY <1>0, <1>1
<1>3. \A k \in 1..N : data[k] \in Seq(Cells) /\ Len(data[k]) \in Nat
  BY <1>1
<1>4. Archive(b) = a
  BY DEF Archive, Pack
<1> HIDE DEF data, N
<1>5. PICK g : Flattens(g, data, Cells) /\ flat = g[N]
  BY <1>2, FlattenIs
<1>6. flat \in Seq(U) /\ bin \in Seq(U) /\ tail \in Seq(U)
  <2>1. flat \in Seq(Cells)
    BY <1>2, FlattenType
  <2> HIDE DEF flat, dir, footer
  <2> QED  BY <2>1
<1>7. dir \in Seq([name : {FileNames[k] : k \in 1..N}, size : Nat]) /\ Len(dir) = N
  BY <1>0, <1>3
<1>8. \A k \in 1..N : dir[k].size = Len(data[k])
  OBVIOUS
<1> HIDE DEF dir, footer, flat, U
<1>9. /\ a \in Seq(U) /\ Len(a) = 1 + Len(flat) + 2
      /\ a[Len(a)] = footer /\ a[Len(a) - 1] = dir
      /\ \A k \in 1..Len(flat) : a[1 + k] = flat[k]
  BY <1>6
<1> HIDE DEF a
<1>10. Last(a) = footer /\ footer.start = 1
  BY <1>9 DEF Last, footer
<1>11. PICK sum : Sums(sum, dir) /\ \A k \in 1..Len(dir) : Offset(dir, k) = sum[k - 1]
  BY <1>3, <1>7, <1>8, OffsetIs
<1>12. Offset(dir, i) = Len(g[i - 1]) /\ Len(g[i - 1]) \in Nat
  <2>1. Offset(dir, i) = sum[i - 1]
    BY <1>0, <1>7, <1>11
  <2>2. \A n \in 0..N : Len(g[n]) = sum[n]
    <3>1. /\ Len(dir) = Len(data) /\ (\A k \in 1..Len(data) : dir[k].size = Len(data[k]))
          /\ data \in Seq(Seq(Cells)) /\ Flattens(g, data, Cells) /\ Sums(sum, dir)
      BY <1>2, <1>5, <1>7, <1>8, <1>11
    <3>2. \A n \in 0..Len(data) : Len(g[n]) = sum[n]
      BY <3>1, SumsAreLengths, SMTT(30)
    <3> QED  BY <3>2, <1>2
  <2>3. i - 1 \in 0..N /\ g[i - 1] \in Seq(Cells)
    BY <1>0, <1>2, <1>5 DEF Flattens
  <2> QED  BY <2>1, <2>2, <2>3
<1> DEFINE p == Len(g[i - 1])
           x == data[i]
           r == SubSeq(a, 1 + p + 1, 1 + p + Len(x))
<1>13. x \in Seq(Cells) /\ p \in Nat /\ \A j \in 1..Len(x) : p + j \in 1..Len(flat) /\ flat[p + j] = x[j]
  <2>1. data \in Seq(Seq(Cells)) /\ Flattens(g, data, Cells) /\ i \in 1..Len(data)
    BY <1>0, <1>2, <1>5
  <2>2. \A j \in 1..Len(data[i]) : /\ Len(g[i - 1]) + j \in 1..Len(g[Len(data)])
                                   /\ g[Len(data)][Len(g[i - 1]) + j] = data[i][j]
    BY <2>1, FlattenPiece, SMTT(30)
  <2>3. flat = g[Len(data)]
    BY <1>2, <1>5
  <2> QED  BY <1>0, <1>3, <1>12, <2>2, <2>3
<1>14. Unpack(Archive(b), i) = r
  BY <1>0, <1>4, <1>8, <1>9, <1>10, <1>12 DEF Unpack
<1> HIDE DEF p, x
<1>15. \A j \in 1..Len(x) : a[1 + p + j] = x[j] /\ 1 + p + j \in 1..Len(a)
  <2> TAKE j \in 1..Len(x)
  <2>1. p + j \in 1..Len(flat) /\ flat[p + j] = x[j]
    BY <1>13
  <2>2. 1 + p + j = 1 + (p + j)
    BY <1>13
  <2>3. a[1 + (p + j)] = flat[p + j]
    BY <1>9, <2>1
  <2> QED  BY <1>6, <1>9, <1>13, <2>1, <2>2, <2>3
<1>16. r = x
  <2>1. Len(x) \in Nat /\ p \in Nat /\ a \in Seq(U) /\ x \in Seq(Cells)
    BY <1>9, <1>13
  <2>2. \A j \in (1 + p + 1)..(1 + p + Len(x)) : a[j] \in U
    <3> TAKE j \in (1 + p + 1)..(1 + p + Len(x))
    <3>1. j - (1 + p) \in 1..Len(x) /\ 1 + p + (j - (1 + p)) = j
      BY <2>1
    <3>2. j \in 1..Len(a)
      BY <1>15, <3>1
    <3> QED  BY <2>1, <3>2
  <2>3. /\ r \in Seq(U) /\ Len(r) = Len(x)
        /\ \A j \in 1..Len(x) : r[j] = a[1 + p + j]
    <3>1. /\ r \in Seq(U)
          /\ Len(r) = IF 1 + p + 1 =< 1 + p + Len(x) THEN (1 + p + Len(x)) - (1 + p + 1) + 1 ELSE 0
          /\ \A j \in 1..((1 + p + Len(x)) - (1 + p + 1) + 1) : r[j] = a[(1 + p + 1) + j - 1]
      BY <2>1, <2>2, SubSeqProperties
    <3> HIDE DEF r
    <3>2. Len(r) = Len(x)
      BY <2>1, <3>1
    <3>3. \A j \in 1..Len(x) : r[j] = a[1 + p + j]
      <4> TAKE j \in 1..Len(x)
      <4>1. j \in 1..((1 + p + Len(x)) - (1 + p + 1) + 1) /\ (1 + p + 1) + j - 1 = 1 + p + j
        BY <2>1
      <4> QED  BY <3>1, <4>1
    <3> QED  BY <3>1, <3>2, <3>3
  <2> HIDE DEF r
  <2>4. \A j \in 1..Len(x) : r[j] = x[j]
    BY <1>15, <2>3
  <2>5. r \in Seq(U \cup Cells) /\ x \in Seq(U \cup Cells)
    BY <2>1, <2>3
  <2> QED  BY <2>3, <2>4, <2>5, SeqEqual
<1> QED  BY <1>14, <1>16 DEF x, data

-----------------------------------------------------------------------------
(* The cache of the support files.                                           *)

Pcs == {"idle", "check", "wipe", "open", "create", "write", "stamp", "exec", "running", "ended"}
QncRecords ==
  [pc : Pcs, mtime : Builds \cup {0}, from : Builds \cup {0}, next : 1..(Len(FileNames) + 1)]
AtWork(x) == x.pc \notin {"idle", "running", "ended"}
Caches == [Names -> Seq(Cells) \cup {Missing}]
Stamps == Builds \cup {NoStamp, EmptyStamp}

(* The cache has the first k - 1 files of build b.  *)
Extracted(ca, b, k) == \A i \in 1..Len(FileNames) : i < k => ca[FileNames[i]] = Contents[b][i]

(* It has all the files of a build that is not older than m.  *)
Complete(ca, m) ==
  \E b \in Builds : b >= m /\ \A n \in Names : ca[n] = Contents[b][Index(n)]

(* A run x: what its pc says of the cache ca, the stamp st and the binary ex. *)
RunOK(x, ca, st, ex) ==
  /\ x.pc = "idle" => x = Idle
  /\ AtWork(x) => x.mtime \in Builds /\ x.mtime =< ex /\ st =< x.mtime
  /\ x.pc \in {"check", "wipe", "open"} => x.next = 1
  /\ x.pc = "wipe" => st < x.mtime
  /\ x.pc = "open" => st = NoStamp
  /\ x.pc \in {"create", "write", "stamp"} =>
       x.from \in Builds /\ x.from >= x.mtime /\ Extracted(ca, x.from, x.next)
  /\ x.pc \in {"create", "write"} => st = NoStamp
  /\ x.pc = "write" => x.next =< Len(FileNames)
  /\ x.pc = "stamp" => st = EmptyStamp /\ x.next = Len(FileNames) + 1
  /\ x.pc = "exec" => Complete(ca, x.mtime)

OneAtWork == \A q, r \in Qncs : AtWork(qnc[q]) /\ AtWork(qnc[r]) => q = r

(* A stamp speaks of a complete cache, or no run will believe it.  *)
StampOK ==
  stamp \in Builds => \/ Complete(cache, stamp)
                      \/ stamp < exe /\ \A q \in Qncs : AtWork(qnc[q]) => stamp < qnc[q].mtime

CacheIInv ==
  /\ exe \in Builds /\ cache \in Caches /\ stamp \in Stamps /\ stamp =< exe
  /\ qnc \in [Qncs -> QncRecords]
  /\ OneAtWork /\ StampOK
  /\ \A q \in Qncs : RunOK(qnc[q], cache, stamp, exe)

(* The builds are numbered.  *)
LEMMA BuildNumbers == Builds \subseteq Nat \ {0} /\ 1 \in Builds
<1>1. Contents \in Seq([1..Len(FileNames) -> Seq(Cells)]) /\ Contents # <<>>
  BY CacheAssumption
<1> QED  BY <1>1 DEF Builds

(* The files are numbered, each once.  *)
LEMMA Indexes ==
  /\ \A n \in Names : Index(n) \in 1..Len(FileNames) /\ FileNames[Index(n)] = n
  /\ \A i \in 1..Len(FileNames) : FileNames[i] \in Names
  /\ \A i, j \in 1..Len(FileNames) : FileNames[i] = FileNames[j] => i = j
  /\ Len(FileNames) \in Nat
<1>1. /\ FileNames \in Seq(Range(FileNames)) /\ Names = Range(FileNames)
      /\ \A i, j \in 1..Len(FileNames) : FileNames[i] = FileNames[j] => i = j
  BY CacheAssumption DEF Names
<1>2. DOMAIN FileNames = 1..Len(FileNames) /\ Len(FileNames) \in Nat
  BY <1>1
<1>3. Names = {FileNames[i] : i \in 1..Len(FileNames)}
  BY <1>1, <1>2 DEF Range
<1>4. ASSUME NEW n \in Names PROVE Index(n) \in 1..Len(FileNames) /\ FileNames[Index(n)] = n
  <2>1. \E i \in 1..Len(FileNames) : FileNames[i] = n
    BY <1>3
  <2> QED  BY <2>1, Zenon DEF Index
<1> QED  BY <1>1, <1>2, <1>3, <1>4

(* All files extracted make a complete cache.  *)
LEMMA ExtractedIsComplete ==
  ASSUME NEW ca, NEW b \in Builds, NEW m, b >= m, Extracted(ca, b, Len(FileNames) + 1)
  PROVE  Complete(ca, m)
<1>1. \A n \in Names : ca[n] = Contents[b][Index(n)]
  <2> TAKE n \in Names
  <2>1. Index(n) \in 1..Len(FileNames) /\ FileNames[Index(n)] = n /\ Len(FileNames) \in Nat
    BY Indexes
  <2>2. Index(n) < Len(FileNames) + 1
    BY <2>1
  <2> QED  BY <2>1, <2>2 DEF Extracted
<1> QED  BY <1>1 DEF Complete

(* A step of q alone at work.  *)
LEMMA RunStep ==
  ASSUME CacheIInv, NEW q \in Qncs, NEW x \in QncRecords,
         \A r \in Qncs : AtWork(qnc[r]) => r = q,
         exe' = exe, qnc' = [qnc EXCEPT ![q] = x],
         cache' \in Caches, stamp' \in Stamps, stamp' =< exe,
         RunOK(x, cache', stamp', exe),
         stamp' \in Builds => \/ Complete(cache', stamp')
                              \/ stamp' < exe /\ (AtWork(x) => stamp' < x.mtime)
  PROVE  CacheIInv'
<1>1. qnc' \in [Qncs -> QncRecords] /\ qnc'[q] = x /\ \A r \in Qncs \ {q} : qnc'[r] = qnc[r]
  BY DEF CacheIInv
<1>2. \A r \in Qncs : AtWork(qnc'[r]) => r = q
  BY <1>1
<1>3. OneAtWork'
  BY <1>2 DEF OneAtWork
<1>4. StampOK'
  BY <1>1, <1>2 DEF StampOK
<1>5. \A r \in Qncs : RunOK(qnc'[r], cache', stamp', exe)
  <2> TAKE r \in Qncs
  <2>1. CASE r = q
    BY <2>1, <1>1
  <2>2. CASE r # q
    <3>1. ~AtWork(qnc[r]) /\ (qnc[r].pc = "idle" => qnc[r] = Idle) /\ qnc'[r] = qnc[r]
      BY <2>2, <1>1 DEF CacheIInv, RunOK
    <3>2. qnc[r].pc \in {"idle", "running", "ended"}
      BY <3>1 DEF AtWork
    <3> QED  BY <3>1, <3>2 DEF RunOK
  <2> QED  BY <2>1, <2>2
<1> QED  BY <1>1, <1>3, <1>4, <1>5 DEF CacheIInv

(* A run is what it was but for its pc.  *)
LEMMA RunFields ==
  ASSUME NEW x \in QncRecords, NEW pc \in Pcs
  PROVE  /\ [x EXCEPT !.pc = pc] \in QncRecords
         /\ [x EXCEPT !.pc = pc].pc = pc /\ [x EXCEPT !.pc = pc].mtime = x.mtime
         /\ [x EXCEPT !.pc = pc].from = x.from /\ [x EXCEPT !.pc = pc].next = x.next
BY DEF QncRecords

(* Every step of a run keeps the invariant.  *)
LEMMA QncStepKeeps ==
  ASSUME CacheIInv, Overlap = FALSE, NEW q \in Qncs, QncStep(q) \/ QncEnds(q) \/ Killed(q)
  PROVE  CacheIInv'
<1> DEFINE x == qnc[q]
<1>0. /\ exe \in Builds /\ cache \in Caches /\ stamp \in Stamps /\ stamp =< exe
      /\ qnc \in [Qncs -> QncRecords] /\ x \in QncRecords
      /\ RunOK(x, cache, stamp, exe) /\ StampOK
  BY DEF CacheIInv
<1>1. Builds \subseteq Nat \ {0} /\ Len(FileNames) \in Nat
  BY BuildNumbers, Indexes
<1>2. ASSUME AtWork(x) PROVE \A r \in Qncs : AtWork(qnc[r]) => r = q
  BY <1>2 DEF CacheIInv, OneAtWork
<1>3. /\ x.pc \in Pcs /\ x.mtime \in Builds \cup {0} /\ x.from \in Builds \cup {0}
      /\ x.next \in 1..(Len(FileNames) + 1)
  BY <1>0 DEF QncRecords
<1>n. /\ exe \in Nat /\ exe > 0 /\ stamp \in Int /\ x.mtime \in Nat
      /\ 0 \notin Builds /\ -1 \notin Builds /\ (x.mtime \in Builds => x.mtime > 0)
  <2>1. x.mtime \in Builds \cup {0} /\ stamp \in Builds \cup {0, -1} /\ exe \in Builds
    BY <1>0, <1>3 DEF Stamps, NoStamp, EmptyStamp
  <2>2. \A m \in Builds : m \in Nat /\ m > 0
    BY <1>1
  <2>3. 0 \notin Builds /\ -1 \notin Builds
    BY <2>2
  <2>4. x.mtime \in Nat /\ (x.mtime \in Builds => x.mtime > 0)
    BY <2>1, <2>2
  <2>5. stamp \in Int
    BY <2>1, <2>2
  <2> QED  BY <2>1, <2>2, <2>3, <2>4, <2>5
<1>4. ASSUME stamp \in Builds, AtWork(x)
      PROVE  Complete(cache, stamp) \/ (stamp < exe /\ stamp < x.mtime)
  BY <1>0, <1>4 DEF StampOK
<1>5. CASE QncStart(q)
  <2> DEFINE y == [x EXCEPT !.pc = "check", !.mtime = exe]
  <2>1. /\ x.pc = "idle" /\ (\A r \in Qncs : ~AtWork(qnc[r]))
        /\ exe' = exe /\ cache' = cache /\ stamp' = stamp
        /\ qnc' = [qnc EXCEPT ![q].pc = "check", ![q].mtime = exe]
    BY <1>5 DEF QncStart, Active, AtWork
  <2>2. x = Idle
    BY <1>0, <2>1 DEF RunOK
  <2>3. qnc' = [qnc EXCEPT ![q] = y]
    BY <1>0, <2>1
  <2>4. /\ y \in QncRecords /\ y.pc = "check" /\ y.mtime = exe /\ y.next = 1
    <3>1. x.next = 1
      BY <2>2 DEF Idle
    <3> QED  BY <1>0, <3>1 DEF QncRecords, Pcs
  <2> HIDE DEF y
  <2>5. RunOK(y, cache', stamp', exe)
    BY <1>0, <1>1, <2>1, <2>4 DEF RunOK
  <2>6. stamp \in Builds => Complete(cache, stamp) \/ stamp < exe
    BY <1>0 DEF StampOK
  <2>7. stamp' \in Builds => Complete(cache', stamp') \/ (stamp' < exe /\ stamp' < y.mtime)
    BY <2>1, <2>4, <2>6
  <2> QED  BY <1>0, <2>1, <2>3, <2>4, <2>5, <2>7, RunStep
<1>6. CASE CheckStamp(q)
  <2> DEFINE to == CASE stamp = x.mtime -> "exec"
                     [] stamp = NoStamp -> "open"
                     [] OTHER           -> "wipe"
             y == [x EXCEPT !.pc = to]
  <2>1. /\ x.pc = "check" /\ exe' = exe /\ cache' = cache /\ stamp' = stamp
        /\ qnc' = [qnc EXCEPT ![q] = y]
    BY <1>0, <1>6 DEF CheckStamp
  <2>2. /\ stamp = x.mtime => to = "exec"
        /\ stamp # x.mtime /\ stamp = NoStamp => to = "open"
        /\ stamp # x.mtime /\ stamp # NoStamp => to = "wipe"
        /\ to \in {"exec", "open", "wipe"}
    <3>1. CASE stamp = x.mtime
      <4>1. stamp # NoStamp \/ x.mtime = NoStamp
        BY <3>1
      <4>2. x.mtime # NoStamp
        BY <1>0, <1>n, <2>1 DEF RunOK, AtWork, NoStamp
      <4> QED  BY <3>1, <4>1, <4>2
    <3>2. CASE stamp # x.mtime /\ stamp = NoStamp
      BY <3>2
    <3>3. CASE stamp # x.mtime /\ stamp # NoStamp
      BY <3>3
    <3> QED  BY <3>1, <3>2, <3>3
  <2> HIDE DEF to
  <2>3. y \in QncRecords /\ y.pc = to /\ y.mtime = x.mtime /\ y.from = x.from /\ y.next = x.next
    <3>1. to \in Pcs
      BY <2>2 DEF Pcs
    <3> QED  BY <1>0, <3>1, RunFields
  <2> HIDE DEF y
  <2>4. AtWork(x) /\ x.mtime \in Builds /\ x.mtime =< exe /\ stamp =< x.mtime /\ x.next = 1
    BY <1>0, <2>1 DEF RunOK, AtWork
  <2>5. stamp = x.mtime => Complete(cache, x.mtime)
    BY <1>n, <1>4, <2>4
  <2>6. stamp # x.mtime => stamp < x.mtime
    BY <1>n, <2>4
  <2>7. RunOK(y, cache', stamp', exe)
    BY <2>1, <2>2, <2>3, <2>4, <2>5, <2>6 DEF RunOK
  <2>8. stamp' \in Builds => Complete(cache', stamp') \/ (stamp' < exe /\ stamp' < y.mtime)
    BY <1>4, <2>1, <2>3, <2>4
  <2> QED  BY <1>0, <1>2, <2>1, <2>3, <2>4, <2>7, <2>8, RunStep
<1>7. CASE Wipe(q)
  <2>1. x.pc = "wipe" /\ exe' = exe
    BY <1>7 DEF Wipe
  <2>2. AtWork(x) /\ x.mtime \in Builds /\ x.mtime =< exe /\ stamp < x.mtime /\ x.next = 1
    BY <1>0, <2>1 DEF RunOK, AtWork
  <2>3. stamp < exe
    BY <1>n, <2>2
  <2>4. CASE \E n \in Names : cache' = [cache EXCEPT ![n] = Missing] /\ UNCHANGED <<stamp, qnc>>
    <3>1. cache' \in Caches /\ stamp' = stamp /\ qnc' = [qnc EXCEPT ![q] = x]
      BY <1>0, <2>4 DEF Caches
    <3>2. RunOK(x, cache', stamp', exe)
      BY <1>0, <2>1, <2>2, <3>1 DEF RunOK
    <3> QED  BY <1>0, <1>2, <2>1, <2>2, <2>3, <3>1, <3>2, RunStep
  <2>5. CASE stamp' = NoStamp /\ UNCHANGED <<cache, qnc>>
    <3>1. /\ cache' = cache /\ stamp' \in Stamps /\ qnc' = [qnc EXCEPT ![q] = x]
          /\ stamp' \notin Builds /\ stamp' =< exe /\ stamp' < x.mtime /\ stamp' =< x.mtime
      BY <1>0, <1>n, <2>2, <2>5 DEF Stamps, NoStamp
    <3>2. RunOK(x, cache', stamp', exe)
      BY <2>1, <2>2, <3>1 DEF RunOK
    <3> QED  BY <1>0, <1>2, <2>1, <2>2, <3>1, <3>2, RunStep
  <2>6. CASE stamp = NoStamp /\ qnc' = [qnc EXCEPT ![q].pc = "open"] /\ UNCHANGED <<cache, stamp>>
    <3> DEFINE y == [x EXCEPT !.pc = "open"]
    <3>1. qnc' = [qnc EXCEPT ![q] = y] /\ cache' = cache /\ stamp' = stamp
      BY <1>0, <2>6
    <3>2. y \in QncRecords /\ y.pc = "open" /\ y.mtime = x.mtime /\ y.next = x.next
      BY <1>0, RunFields DEF Pcs
    <3> HIDE DEF y
    <3>3. stamp' \notin Builds /\ stamp' =< x.mtime
      BY <1>1, <2>2, <2>6, <3>1 DEF NoStamp
    <3>4. RunOK(y, cache', stamp', exe)
      BY <2>2, <2>6, <3>1, <3>2, <3>3 DEF RunOK
    <3> QED  BY <1>0, <1>2, <2>1, <2>2, <3>1, <3>2, <3>3, <3>4, RunStep
  <2> QED  BY <1>7, <2>4, <2>5, <2>6 DEF Wipe
<1>8. CASE OpenArchive(q)
  <2> DEFINE y == [x EXCEPT !.pc = "create", !.from = exe]
  <2>1. /\ x.pc = "open" /\ exe' = exe /\ cache' = cache /\ stamp' = stamp
        /\ qnc' = [qnc EXCEPT ![q] = y]
    BY <1>0, <1>8 DEF OpenArchive
  <2>2. /\ AtWork(x) /\ x.mtime \in Builds /\ x.mtime =< exe /\ stamp =< x.mtime /\ x.next = 1
        /\ stamp = NoStamp
    BY <1>0, <2>1 DEF RunOK, AtWork
  <2>3. y \in QncRecords /\ y.pc = "create" /\ y.mtime = x.mtime /\ y.from = exe /\ y.next = 1
    BY <1>0, <2>2 DEF QncRecords, Pcs
  <2> HIDE DEF y
  <2>4. Extracted(cache, exe, 1)
    BY <1>1 DEF Extracted
  <2>5. stamp' \notin Builds /\ exe >= x.mtime
    BY <1>0, <1>1, <2>1, <2>2 DEF NoStamp
  <2>6. RunOK(y, cache', stamp', exe)
    BY <1>0, <2>1, <2>2, <2>3, <2>4, <2>5 DEF RunOK
  <2> QED  BY <1>0, <1>2, <2>1, <2>2, <2>3, <2>5, <2>6, RunStep
<1>9. CASE CreateFile(q)
  <2> DEFINE y == [x EXCEPT !.pc = "write"]
             f == FileNames[x.next]
  <2>1. /\ x.pc = "create" /\ x.next =< Len(FileNames) /\ exe' = exe /\ stamp' = stamp
        /\ cache' = [cache EXCEPT ![f] = <<>>] /\ qnc' = [qnc EXCEPT ![q] = y]
    BY <1>0, <1>9 DEF CreateFile
  <2>2. /\ AtWork(x) /\ x.mtime \in Builds /\ x.mtime =< exe /\ stamp =< x.mtime
        /\ stamp = NoStamp /\ x.from \in Builds /\ x.from >= x.mtime
        /\ Extracted(cache, x.from, x.next)
    BY <1>0, <2>1 DEF RunOK, AtWork
  <2>3. y \in QncRecords /\ y.pc = "write" /\ y.mtime = x.mtime /\ y.from = x.from /\ y.next = x.next
    BY <1>0, RunFields DEF Pcs
  <2> HIDE DEF y
  <2>4. f \in Names /\ x.next \in 1..Len(FileNames)
    BY <1>1, <1>3, <2>1, Indexes
  <2>5. cache' \in Caches /\ \A n \in Names \ {f} : cache'[n] = cache[n]
    BY <1>0, <2>1, <2>4 DEF Caches
  <2>6. Extracted(cache', x.from, x.next)
    <3> SUFFICES ASSUME NEW i \in 1..Len(FileNames), i < x.next
                 PROVE  cache'[FileNames[i]] = Contents[x.from][i]
      BY DEF Extracted
    <3>1. FileNames[i] \in Names \ {f}
      BY <1>1, <2>4, Indexes
    <3> QED  BY <2>2, <2>5, <3>1 DEF Extracted
  <2>7. stamp' \notin Builds
    BY <1>1, <2>1, <2>2 DEF NoStamp
  <2>8. RunOK(y, cache', stamp', exe)
    BY <2>1, <2>2, <2>3, <2>6 DEF RunOK
  <2> QED  BY <1>0, <1>2, <2>1, <2>2, <2>3, <2>5, <2>7, <2>8, RunStep
<1>10. CASE WriteFile(q)
  <2> DEFINE y == [x EXCEPT !.pc = "create", !.next = x.next + 1]
             f == FileNames[x.next]
             c == Contents[x.from][x.next]
  <2>1. /\ x.pc = "write" /\ exe' = exe /\ stamp' = stamp
        /\ cache' = [cache EXCEPT ![f] = Unpack(Archive(x.from), x.next)]
        /\ qnc' = [qnc EXCEPT ![q] = y]
    BY <1>0, <1>10 DEF WriteFile
  <2>2. /\ AtWork(x) /\ x.mtime \in Builds /\ x.mtime =< exe /\ stamp =< x.mtime
        /\ stamp = NoStamp /\ x.from \in Builds /\ x.from >= x.mtime
        /\ Extracted(cache, x.from, x.next) /\ x.next =< Len(FileNames)
    BY <1>0, <2>1 DEF RunOK, AtWork
  <2>3. f \in Names /\ x.next \in 1..Len(FileNames) /\ x.next + 1 \in 1..(Len(FileNames) + 1)
    BY <1>1, <1>3, <2>2, Indexes
  <2>4. y \in QncRecords /\ y.pc = "create" /\ y.mtime = x.mtime /\ y.from = x.from /\ y.next = x.next + 1
    BY <1>0, <2>3 DEF QncRecords, Pcs
  <2>5. cache' = [cache EXCEPT ![f] = c]
    BY <2>1, <2>2, <2>3, UnpackPack
  <2>6. c \in Seq(Cells)
    <3>1. Contents \in Seq([1..Len(FileNames) -> Seq(Cells)])
      BY CacheAssumption
    <3>2. Contents[x.from] \in [1..Len(FileNames) -> Seq(Cells)]
      BY <2>2, <3>1 DEF Builds
    <3> QED  BY <2>3, <3>2
  <2> HIDE DEF y
  <2>7. cache' \in Caches /\ cache'[f] = c /\ \A n \in Names \ {f} : cache'[n] = cache[n]
    <3> HIDE DEF c
    <3> QED  BY <1>0, <2>3, <2>5, <2>6 DEF Caches
  <2>8. Extracted(cache', x.from, x.next + 1)
    <3> SUFFICES ASSUME NEW i \in 1..Len(FileNames), i < x.next + 1
                 PROVE  cache'[FileNames[i]] = Contents[x.from][i]
      BY DEF Extracted
    <3>1. CASE i = x.next
      BY <3>1, <2>7
    <3>2. CASE i # x.next
      <4>1. FileNames[i] \in Names \ {f} /\ i < x.next
        BY <3>2, <1>1, <2>3, Indexes
      <4> QED  BY <2>2, <2>7, <4>1 DEF Extracted
    <3> QED  BY <3>1, <3>2
  <2>9. stamp' \notin Builds
    BY <1>1, <2>1, <2>2 DEF NoStamp
  <2>10. RunOK(y, cache', stamp', exe)
    BY <2>1, <2>2, <2>4, <2>8 DEF RunOK
  <2> QED  BY <1>0, <1>2, <2>1, <2>2, <2>4, <2>7, <2>9, <2>10, RunStep
<1>11. CASE OpenStamp(q)
  <2> DEFINE y == [x EXCEPT !.pc = "stamp"]
  <2>1. /\ x.pc = "create" /\ x.next > Len(FileNames) /\ exe' = exe /\ cache' = cache
        /\ stamp' = EmptyStamp /\ qnc' = [qnc EXCEPT ![q] = y]
    BY <1>0, <1>11 DEF OpenStamp
  <2>2. /\ AtWork(x) /\ x.mtime \in Builds /\ x.mtime =< exe
        /\ x.from \in Builds /\ x.from >= x.mtime /\ Extracted(cache, x.from, x.next)
    BY <1>0, <2>1 DEF RunOK, AtWork
  <2>3. y \in QncRecords /\ y.pc = "stamp" /\ y.mtime = x.mtime /\ y.from = x.from /\ y.next = x.next
    BY <1>0, RunFields DEF Pcs
  <2> HIDE DEF y
  <2>4. x.next = Len(FileNames) + 1
    BY <1>1, <1>3, <2>1
  <2>5. stamp' \notin Builds /\ stamp' \in Stamps /\ stamp' =< exe /\ stamp' =< x.mtime
    BY <1>n, <2>1, <2>2 DEF EmptyStamp, Stamps
  <2>6. RunOK(y, cache', stamp', exe)
    BY <2>1, <2>2, <2>3, <2>4, <2>5 DEF RunOK
  <2> QED  BY <1>0, <1>2, <2>1, <2>2, <2>3, <2>5, <2>6, RunStep
<1>12. CASE WriteStamp(q)
  <2> DEFINE y == [x EXCEPT !.pc = "exec"]
  <2>1. /\ x.pc = "stamp" /\ exe' = exe /\ cache' = cache
        /\ stamp' = x.mtime /\ qnc' = [qnc EXCEPT ![q] = y]
    BY <1>0, <1>12 DEF WriteStamp
  <2>2. /\ AtWork(x) /\ x.mtime \in Builds /\ x.mtime =< exe
        /\ x.from \in Builds /\ x.from >= x.mtime /\ Extracted(cache, x.from, Len(FileNames) + 1)
    BY <1>0, <2>1 DEF RunOK, AtWork
  <2>3. y \in QncRecords /\ y.pc = "exec" /\ y.mtime = x.mtime
    BY <1>0, RunFields DEF Pcs
  <2> HIDE DEF y
  <2>4. Complete(cache, x.mtime)
    BY <2>2, ExtractedIsComplete
  <2>5. stamp' \in Stamps /\ stamp' =< exe /\ stamp' =< x.mtime
    BY <1>n, <2>1, <2>2 DEF Stamps
  <2>6. RunOK(y, cache', stamp', exe)
    BY <2>1, <2>2, <2>3, <2>4, <2>5 DEF RunOK
  <2> QED  BY <1>0, <1>2, <2>1, <2>2, <2>3, <2>4, <2>5, <2>6, RunStep
<1>13. CASE Exec(q)
  <2> DEFINE y == [x EXCEPT !.pc = "running"]
  <2>1. /\ x.pc = "exec" /\ exe' = exe /\ cache' = cache /\ stamp' = stamp
        /\ qnc' = [qnc EXCEPT ![q] = y]
    BY <1>0, <1>13 DEF Exec
  <2>2. y \in QncRecords /\ y.pc = "running" /\ y.mtime = x.mtime
    BY <1>0, RunFields DEF Pcs
  <2> HIDE DEF y
  <2>3. AtWork(x)
    BY <2>1 DEF AtWork
  <2>4. RunOK(y, cache', stamp', exe)
    BY <2>2 DEF RunOK, AtWork
  <2>5. stamp' \in Builds => Complete(cache', stamp') \/ stamp' < exe
    BY <1>4, <2>1, <2>3
  <2>6. ~AtWork(y)
    BY <2>2 DEF AtWork
  <2> QED  BY <1>0, <1>2, <2>1, <2>2, <2>3, <2>4, <2>5, <2>6, RunStep
<1>14. CASE QncEnds(q) \/ Killed(q)
  <2> DEFINE y == [Idle EXCEPT !.pc = "ended"]
  <2>1. /\ exe' = exe /\ cache' = cache /\ stamp' = stamp /\ qnc' = [qnc EXCEPT ![q] = y]
        /\ x.pc = "running" \/ AtWork(x)
    BY <1>14 DEF QncEnds, Killed, Active, AtWork
  <2>2. y \in QncRecords /\ y.pc = "ended"
    BY <1>1 DEF QncRecords, Pcs, Idle
  <2> HIDE DEF y
  <2>3. RunOK(y, cache', stamp', exe) /\ ~AtWork(y)
    BY <2>2 DEF RunOK, AtWork
  <2>4. stamp' \in Builds => Complete(cache', stamp') \/ stamp' < exe
    BY <1>0, <2>1 DEF StampOK
  <2>5. CASE AtWork(x)
    BY <1>0, <1>2, <2>1, <2>2, <2>3, <2>4, <2>5, RunStep
  <2>6. CASE ~AtWork(x)
    <3>1. qnc' \in [Qncs -> QncRecords] /\ qnc'[q] = y /\ \A r \in Qncs \ {q} : qnc'[r] = qnc[r]
      BY <1>0, <2>1, <2>2
    <3>2. \A r \in Qncs : AtWork(qnc'[r]) => AtWork(qnc[r]) /\ qnc'[r] = qnc[r]
      BY <2>3, <3>1
    <3>3. OneAtWork'
      BY <3>2 DEF CacheIInv, OneAtWork
    <3>4. StampOK'
      BY <1>0, <2>1, <3>2 DEF StampOK
    <3>5. \A r \in Qncs : RunOK(qnc'[r], cache', stamp', exe)
      BY <2>1, <2>3, <3>1 DEF CacheIInv
    <3> QED  BY <1>0, <2>1, <3>1, <3>3, <3>4, <3>5 DEF CacheIInv
  <2> QED  BY <2>5, <2>6
<1> QED  BY <1>5, <1>6, <1>7, <1>8, <1>9, <1>10, <1>11, <1>12, <1>13, <1>14 DEF QncStep

(* A new build leaves runs and cache alone.  *)
LEMMA RebuildKeeps == CacheIInv /\ Rebuild => CacheIInv'
<1> SUFFICES ASSUME CacheIInv, Rebuild PROVE CacheIInv'
  OBVIOUS
<1>1. /\ exe \in Builds /\ stamp \in Stamps /\ stamp =< exe
      /\ exe' = exe + 1 /\ exe' \in Builds /\ cache' = cache /\ stamp' = stamp /\ qnc' = qnc
  BY DEF CacheIInv, Rebuild
<1>2. Builds \subseteq Nat \ {0} /\ stamp \in Int
  BY <1>1, BuildNumbers DEF Stamps, NoStamp, EmptyStamp
<1>3. stamp' =< exe' /\ (stamp < exe => stamp' < exe')
  BY <1>1, <1>2
<1>4. StampOK'
  BY <1>1, <1>3 DEF CacheIInv, StampOK
<1>5. \A q \in Qncs : RunOK(qnc[q], cache, stamp, exe + 1)
  <2> TAKE q \in Qncs
  <2>1. RunOK(qnc[q], cache, stamp, exe)
    BY DEF CacheIInv
  <2>2. qnc[q].mtime \in Builds /\ qnc[q].mtime =< exe => qnc[q].mtime =< exe + 1
    <3>1. exe \in Nat /\ (qnc[q].mtime \in Builds => qnc[q].mtime \in Nat)
      BY <1>1, <1>2
    <3> QED  BY <3>1
  <2> QED  BY <2>1, <2>2 DEF RunOK
<1>6. OneAtWork'
  BY <1>1 DEF CacheIInv, OneAtWork
<1>7. \A q \in Qncs : RunOK(qnc'[q], cache', stamp', exe')
  BY <1>1, <1>5
<1> QED  BY <1>1, <1>3, <1>4, <1>6, <1>7 DEF CacheIInv

(* Before the first start.  *)
LEMMA CacheInitIInv == CacheInit => CacheIInv
<1> SUFFICES ASSUME CacheInit PROVE CacheIInv
  OBVIOUS
<1>1. exe = 1 /\ cache = [n \in Names |-> Missing] /\ stamp = 0 /\ qnc = [q \in Qncs |-> Idle]
  BY DEF CacheInit, NoStamp
<1>2. Builds \subseteq Nat \ {0} /\ 1 \in Builds /\ Len(FileNames) \in Nat
  BY BuildNumbers, Indexes
<1>3. Idle \in QncRecords /\ Idle.pc = "idle"
  BY <1>2 DEF Idle, QncRecords, Pcs
<1>4. qnc \in [Qncs -> QncRecords] /\ \A q \in Qncs : qnc[q] = Idle
  BY <1>1, <1>3
<1>5. cache \in Caches /\ stamp \in Stamps /\ stamp =< exe /\ stamp \notin Builds
  BY <1>1, <1>2 DEF Caches, Stamps, NoStamp
<1>6. \A q \in Qncs : ~AtWork(qnc[q]) /\ RunOK(qnc[q], cache, stamp, exe)
  BY <1>3, <1>4 DEF AtWork, RunOK
<1> QED  BY <1>1, <1>2, <1>4, <1>5, <1>6 DEF CacheIInv, OneAtWork, StampOK

(* The start of a run finds what was packed: a run executes the files of one *)
(* build, not older than the binary it was started as, whatever kills and    *)
(* rebuilds came before, if no two runs extract at the same time.            *)
THEOREM StartsWhatWasPacked ==
  ASSUME Overlap = FALSE
  PROVE  Spec => []RunsWhatWasPacked
<1>1. BuildInit => CacheIInv
  BY CacheInitIInv DEF BuildInit
<1>2. CacheIInv /\ [BuildNext]_buildVars => CacheIInv'
  <2> SUFFICES ASSUME CacheIInv, [BuildNext]_buildVars PROVE CacheIInv'
    OBVIOUS
  <2>1. CASE CacheNext
    BY <2>1, QncStepKeeps, RebuildKeeps DEF CacheNext
  <2>2. CASE UNCHANGED cacheVars
    BY <2>2 DEF cacheVars, CacheIInv, OneAtWork, StampOK
  <2> QED  BY <2>1, <2>2 DEF BuildNext, buildVars
<1>3. CacheIInv => RunsWhatWasPacked
  <2> SUFFICES ASSUME CacheIInv, NEW q \in Qncs, qnc[q].pc = "exec"
               PROVE  Complete(cache, qnc[q].mtime)
    BY DEF RunsWhatWasPacked, Complete
  <2>1. RunOK(qnc[q], cache, stamp, exe)
    BY DEF CacheIInv
  <2> QED  BY <2>1 DEF RunOK
<1> QED  BY <1>1, <1>2, <1>3, PTL DEF Spec

-----------------------------------------------------------------------------
(* The units of a binary.                                                    *)

(* A sequence is one of its own elements.  *)
LEMMA OwnElements ==
  ASSUME NEW s, IsSequence(s)
  PROVE  s \in Seq(Range(s)) /\ DOMAIN s = 1..Len(s) /\ Len(s) \in Nat
<1>1. Len(s) \in Nat /\ s = [i \in 1..Len(s) |-> s[i]]
  BY DEF IsSequence
<1> DEFINE n == Len(s)
<1>2. n \in Nat /\ s = [i \in 1..n |-> s[i]]
  BY <1>1
<1> HIDE DEF n
<1>3. DOMAIN s = 1..n
  BY <1>2
<1>4. s \in [1..n -> Range(s)]
  BY <1>2, <1>3 DEF Range
<1>5. s \in Seq(Range(s))
  BY <1>2, <1>4
<1> QED  BY <1>2, <1>3, <1>5 DEF n

(* Every sequence is one.  *)
LEMMA SequencesAre ==
  ASSUME NEW S, NEW s \in Seq(S)
  PROVE  IsSequence(s)
BY DEF IsSequence

(* What is done to a sequence.  *)
LEMMA TailSequence ==
  ASSUME NEW s, IsSequence(s), s # <<>>
  PROVE  /\ IsSequence(Tail(s)) /\ Len(Tail(s)) = Len(s) - 1 /\ Len(s) \in Nat \ {0}
         /\ \A i \in 1..(Len(s) - 1) : Tail(s)[i] = s[i + 1]
<1>1. s \in Seq(Range(s))
  BY OwnElements
<1>2. /\ Tail(s) \in Seq(Range(s)) /\ Len(Tail(s)) = Len(s) - 1 /\ Len(s) \in Nat
      /\ \A i \in 1..Len(Tail(s)) : Tail(s)[i] = s[i + 1]
  BY <1>1, HeadTailProperties
<1>3. Len(s) # 0
  BY <1>1
<1> QED  BY <1>2, <1>3, SequencesAre

(* An element in front.  *)
LEMMA PushSequence ==
  ASSUME NEW s, IsSequence(s), NEW x
  PROVE  /\ IsSequence(<<x>> \o s) /\ Len(<<x>> \o s) = Len(s) + 1 /\ Len(s) \in Nat
         /\ (<<x>> \o s)[1] = x /\ \A i \in 1..Len(s) : (<<x>> \o s)[i + 1] = s[i]
<1> DEFINE S == Range(s) \cup {x}
<1>1. s \in Seq(Range(s)) /\ Len(s) \in Nat
  BY OwnElements
<1>2. s \in Seq(S) /\ <<x>> \in Seq(S) /\ Len(<<x>>) = 1
  BY <1>1
<1> HIDE DEF S
<1> DEFINE t == <<x>> \o s
<1>3. t \in Seq(S) /\ Len(t) = Len(s) + 1 /\ t[1] = x /\ \A i \in 1..Len(s) : t[i + 1] = s[i]
  BY <1>1, <1>2
<1> HIDE DEF t
<1>4. IsSequence(t)
  BY <1>3, SequencesAre
<1> QED  BY <1>1, <1>3, <1>4 DEF t

(* An element at the end.  *)
LEMMA AppendSequence ==
  ASSUME NEW s, IsSequence(s), NEW x
  PROVE  /\ IsSequence(Append(s, x)) /\ Len(Append(s, x)) = Len(s) + 1 /\ Len(s) \in Nat
         /\ Append(s, x)[Len(s) + 1] = x /\ \A i \in 1..Len(s) : Append(s, x)[i] = s[i]
<1> DEFINE S == Range(s) \cup {x}
<1>1. s \in Seq(Range(s)) /\ Len(s) \in Nat
  BY OwnElements
<1>2. s \in Seq(S) /\ x \in S
  BY <1>1
<1> HIDE DEF S
<1> DEFINE t == Append(s, x)
<1>3. t \in Seq(S) /\ Len(t) = Len(s) + 1 /\ t[Len(s) + 1] = x /\ \A i \in 1..Len(s) : t[i] = s[i]
  BY <1>1, <1>2, AppendProperties
<1> HIDE DEF t
<1>4. IsSequence(t)
  BY <1>3, SequencesAre
<1> QED  BY <1>1, <1>3, <1>4 DEF t

(* Of more numbered names than there are names in use one is free.  *)
LEMMA FreeName ==
  ASSUME NEW C, IsFiniteSet(C), NEW c, IsSequence(c)
  PROVE  \E k \in 1..(Cardinality(C) + 1) : Append(c, k) \notin C
<1> DEFINE n == Cardinality(C)
           f == [k \in 1..(n + 1) |-> Append(c, k)]
<1> SUFFICES ASSUME \A k \in 1..(n + 1) : Append(c, k) \in C PROVE FALSE
  OBVIOUS
<1>1. n \in Nat
  BY FS_CardinalityType
<1> HIDE DEF n
<1>2. f \in [1..(n + 1) -> C]
  OBVIOUS
<1>3. \A j, k \in 1..(n + 1) : f[j] = f[k] => j = k
  <2> TAKE j, k \in 1..(n + 1)
  <2>1. Append(c, j)[Len(c) + 1] = j /\ Append(c, k)[Len(c) + 1] = k
    BY AppendSequence
  <2> QED  BY <2>1
<1>4. IsFiniteSet(1..(n + 1)) /\ Cardinality(1..(n + 1)) = n + 1
  <2>1. 1 \in Int /\ n + 1 \in Int
    BY <1>1
  <2>2. Cardinality(1..(n + 1)) = IF 1 > n + 1 THEN 0 ELSE (n + 1) - 1 + 1
    BY <2>1, FS_Interval
  <2> QED  BY <1>1, <2>1, <2>2, FS_Interval
<1> HIDE DEF f
<1>5. f \in Injection(1..(n + 1), C)
  BY <1>2, <1>3 DEF Injection, IsInjective
<1>6. Cardinality(1..(n + 1)) =< n
  BY <1>4, <1>5, FS_Injection, Zenon DEF ExistsInjection, n
<1> QED  BY <1>1, <1>4, <1>6

(* The C name of a new unit is none of those in use.  *)
LEMMA NewCName ==
  ASSUME NEW p, IsFiniteSet(cnames)
  PROVE  make_cname(p) \notin cnames
<1> DEFINE c == get_c_name(p)
           free == {k \in 1..(Cardinality(cnames) + 1) : Append(c, k) \notin cnames}
           least == CHOOSE k \in free : \A j \in free : k =< j
<1>1. IsSequence(c)
  <2>1. CASE Leaf(p) \in DOMAIN CIdent
    BY <2>1, QncAssumption DEF get_c_name
  <2>2. CASE Leaf(p) \notin DOMAIN CIdent
    <3>1. c = <<Leaf(p)>>
      BY <2>2 DEF get_c_name
    <3>2. <<Leaf(p)>> \in Seq({Leaf(p)})
      OBVIOUS
    <3> QED  BY <3>1, <3>2, SequencesAre
  <2> QED  BY <2>1, <2>2
<1> HIDE DEF c
<1>2. free # {} /\ free \subseteq Nat
  <2>1. \E k \in 1..(Cardinality(cnames) + 1) : Append(c, k) \notin cnames
    BY <1>1, FreeName
  <2> QED  BY <2>1
<1>3. least \in free
  <2> HIDE DEF free
  <2>1. \E m \in free : \A j \in free : m =< j
    BY <1>2, LeastNumber
  <2> QED  BY <2>1, Zenon
<1>4. Append(c, least) \notin cnames
  BY <1>3
<1>5. find_unique_cname(c) = Append(c, least)
  BY Zenon DEF find_unique_cname
<1> HIDE DEF least
<1> QED  BY <1>4, <1>5 DEF make_cname, c

(* Names that were given out: of the modules loaded, and of the -D modules   *)
(* that the compiler has come to.                                            *)
Made(loaded, n) == loaded \cup {Synthetic(i) : i \in 1..n}
Turns == Len(prog.dyn) - Len(dyn)

(* The frames and units with names of a set: a frame once, a unit once unless *)
(* it is an input file.                                                      *)
IsUnit(x) == "name" \in DOMAIN x /\ "input" \in DOMAIN x
Alike(x, y) == IsUnit(x) /\ x.name = y.name /\ x.input = y.input

Distinct(s) == \A i, j \in 1..Len(s) : s[i].name = s[j].name => i = j
OnceOrInput(t) == \A i, j \in 1..Len(t) : (i < j /\ t[i].name = t[j].name) => t[j].input
NamedIn(s, M) == \A i \in 1..Len(s) : IsUnit(s[i]) /\ s[i].name \in M
Apart(s, t) == \A i \in 1..Len(s), j \in 1..Len(t) : s[i].name = t[j].name => s[i].input

UnitsOK(s, t, M) ==
  /\ IsSequence(s) /\ NamedIn(s, M) /\ Distinct(s)
  /\ IsSequence(t) /\ NamedIn(t, M) /\ OnceOrInput(t)
  /\ Apart(s, t)

(* A C name is new, or it is the one that -N gives.  *)
Given(e, c) == e.input /\ c # NoCName /\ e.cname = c

CNamesOK(t, c) ==
  /\ \A i, j \in 1..Len(t) : (i < j /\ t[i].cname = t[j].cname) => Given(t[j], c)
  /\ IsFiniteSet({t[i].cname : i \in 1..Len(t)})

UnitsIInv ==
  /\ prog \in Programs /\ stage \in {"compile", "run", "failed"}
  /\ taken \in 0..Len(prog.inputs)
  /\ IsSequence(dyn) /\ Len(dyn) =< Len(prog.dyn)
  /\ UnitsOK(stack, entries, Made(loadedModules, Turns)) /\ CNamesOK(entries, prog.cname)
  /\ \A m \in loadedModules : file_exists(Source, m.path)
  /\ \A p \in mods : file_exists(Source, p)
  /\ \A e \in map : e.base.emb

(* No module has the name of a synthetic one, and these have one each.  *)
LEMMA SyntheticNames ==
  /\ \A i, j \in 1..Len(InputNames) : Synthetic(i) = Synthetic(j) => i = j
  /\ \A m : file_exists(Source, m.path) => m \notin Synthetics
<1>1. \A i \in 1..Len(InputNames) : Synthetic(i).path = <<InputNames[i]>>
  BY DEF Synthetic, make_embedded_name
<1>2. ASSUME NEW i \in 1..Len(InputNames), NEW j \in 1..Len(InputNames), Synthetic(i) = Synthetic(j)
      PROVE  i = j
  <2>1. <<InputNames[i]>> = <<InputNames[j]>>
    BY <1>1, <1>2
  <2>2. InputNames[i] = InputNames[j]
    BY <2>1
  <2> QED  BY <2>2, QncAssumption
<1>3. ASSUME NEW m, file_exists(Source, m.path), m \in Synthetics PROVE FALSE
  <2>1. PICK i \in 1..Len(InputNames) : m = Synthetic(i)
    BY <1>3 DEF Synthetics
  <2>2. m.path = <<InputNames[i]>>
    BY <1>1, <2>1
  <2> QED  BY <1>3, <2>2, QncAssumption
<1> QED  BY <1>2, <1>3

(* The module on top has its next import taken off.  *)
LEMMA RestNames ==
  ASSUME IsSequence(stack), stack # <<>>, NEW M, NamedIn(stack, M)
  PROVE  /\ IsSequence(Rest) /\ Len(Rest) = Len(stack)
         /\ \A i \in 1..Len(stack) : Alike(Rest[i], stack[i])
<1> DEFINE t == Tail(stack)
           x == [Top EXCEPT !.left = Tail(@)]
<1>1. /\ IsSequence(t) /\ Len(t) = Len(stack) - 1 /\ Len(stack) \in Nat \ {0}
      /\ \A i \in 1..(Len(stack) - 1) : t[i] = stack[i + 1]
  BY TailSequence
<1>2. IsUnit(stack[1])
  BY <1>1 DEF NamedIn
<1>3. Alike(x, stack[1])
  BY <1>2 DEF Top, IsUnit, Alike
<1>4. Rest = <<x>> \o t
  BY DEF Rest
<1> HIDE DEF x, t
<1>5. /\ IsSequence(Rest) /\ Len(Rest) = Len(t) + 1
      /\ Rest[1] = x /\ \A i \in 1..Len(t) : Rest[i + 1] = t[i]
  BY <1>1, <1>4, PushSequence
<1>6. ASSUME NEW i \in 1..Len(stack)
      PROVE  Alike(Rest[i], stack[i])
  <2>1. CASE i = 1
    BY <2>1, <1>3, <1>5
  <2>2. CASE i # 1
    <3>1. i - 1 \in 1..Len(t) /\ (i - 1) + 1 = i
      BY <2>2, <1>1
    <3>2. Rest[i] = stack[i]
      BY <1>1, <1>5, <3>1
    <3> QED  BY <3>2 DEF NamedIn, Alike
  <2> QED  BY <2>1, <2>2
<1> QED  BY <1>1, <1>5, <1>6

(* Frames of the same names.  *)
LEMMA SameNames ==
  ASSUME NEW s, NEW t, NEW M, NEW N, UnitsOK(s, t, M), M \subseteq N,
         NEW r, IsSequence(r), Len(r) = Len(s),
         \A i \in 1..Len(s) : Alike(r[i], s[i])
  PROVE  UnitsOK(r, t, N)
BY DEF UnitsOK, NamedIn, Distinct, Apart, Alike

(* A frame of a new name.  *)
LEMMA NewFrame ==
  ASSUME NEW s, NEW t, NEW M, NEW N, UnitsOK(s, t, M), M \subseteq N,
         NEW x, IsUnit(x), x.name \in N \ M
  PROVE  UnitsOK(<<x>> \o s, t, N)
<1> DEFINE r == <<x>> \o s
<1>1. /\ IsSequence(r) /\ Len(r) = Len(s) + 1 /\ Len(s) \in Nat
      /\ r[1] = x /\ \A i \in 1..Len(s) : r[i + 1] = s[i]
  BY PushSequence DEF UnitsOK
<1> HIDE DEF r
<1>2. \A i \in 1..Len(r) : \/ r[i] = x /\ i = 1
                           \/ i # 1 /\ i - 1 \in 1..Len(s) /\ r[i] = s[i - 1]
  <2> TAKE i \in 1..Len(r)
  <2>1. CASE i = 1
    <3>1. r[1] = x
      BY <1>1
    <3>2. r[i] = x
      BY <2>1, <3>1
    <3> QED  BY <2>1, <3>2
  <2>2. CASE i # 1
    <3>1. i - 1 \in 1..Len(s) /\ (i - 1) + 1 = i
      BY <2>2, <1>1
    <3> QED  BY <2>2, <3>1, <1>1
  <2> QED  BY <2>1, <2>2
<1>3. \A i \in 1..Len(s) : s[i].name \in M /\ s[i].name # x.name /\ IsUnit(s[i])
  BY DEF UnitsOK, NamedIn
<1>4. \A i \in 1..Len(t) : t[i].name \in M /\ t[i].name # x.name /\ IsUnit(t[i])
  BY DEF UnitsOK, NamedIn
<1>5. NamedIn(r, N) /\ NamedIn(t, N)
  BY <1>2, <1>3, <1>4 DEF NamedIn
<1>6. Distinct(r)
  <2> SUFFICES ASSUME NEW i \in 1..Len(r), NEW j \in 1..Len(r), r[i].name = r[j].name PROVE i = j
    BY DEF Distinct
  <2>1. CASE i = 1 \/ j = 1
    BY <2>1, <1>2, <1>3
  <2>2. CASE i # 1 /\ j # 1
    <3>1. /\ i - 1 \in 1..Len(s) /\ r[i] = s[i - 1]
          /\ j - 1 \in 1..Len(s) /\ r[j] = s[j - 1]
      BY <2>2, <1>2
    <3>2. i - 1 = j - 1
      BY <3>1 DEF UnitsOK, Distinct
    <3> QED  BY <3>2, <1>1
  <2> QED  BY <2>1, <2>2
<1>7. Apart(r, t)
  <2> SUFFICES ASSUME NEW i \in 1..Len(r), NEW j \in 1..Len(t), r[i].name = t[j].name
               PROVE  r[i].input
    BY DEF Apart
  <2>1. CASE r[i] = x
    BY <2>1, <1>4
  <2>2. CASE i - 1 \in 1..Len(s) /\ r[i] = s[i - 1]
    BY <2>2 DEF UnitsOK, Apart
  <2> QED  BY <2>1, <2>2, <1>2
<1> QED  BY <1>1, <1>5, <1>6, <1>7 DEF UnitsOK, r

(* The frame on top becomes a unit.  *)
LEMMA FrameToUnit ==
  ASSUME NEW s, NEW t, NEW M, UnitsOK(s, t, M), s # <<>>,
         NEW e, Alike(e, s[1])
  PROVE  UnitsOK(Tail(s), Append(t, e), M)
<1> DEFINE r == Tail(s)
           u == Append(t, e)
<1>1. /\ IsSequence(r) /\ Len(r) = Len(s) - 1 /\ Len(s) \in Nat \ {0}
      /\ \A i \in 1..(Len(s) - 1) : r[i] = s[i + 1]
  BY TailSequence DEF UnitsOK
<1>2. /\ IsSequence(u) /\ Len(u) = Len(t) + 1 /\ Len(t) \in Nat
      /\ u[Len(t) + 1] = e /\ \A i \in 1..Len(t) : u[i] = t[i]
  BY AppendSequence DEF UnitsOK
<1> HIDE DEF r, u
<1>3. \A i \in 1..Len(r) : i + 1 \in 1..Len(s) /\ r[i] = s[i + 1] /\ i + 1 # 1
  BY <1>1
<1>4. \A i \in 1..Len(u) : \/ i = Len(t) + 1 /\ u[i] = e
                           \/ i \in 1..Len(t) /\ u[i] = t[i]
  <2> TAKE i \in 1..Len(u)
  <2>1. i = Len(t) + 1 \/ i \in 1..Len(t)
    BY <1>2
  <2>2. CASE i = Len(t) + 1
    <3>1. u[i] = e
      BY <2>2, <1>2
    <3> QED  BY <2>2, <3>1
  <2>3. CASE i \in 1..Len(t)
    BY <2>3, <1>2
  <2> QED  BY <2>1, <2>2, <2>3
<1>5. 1 \in 1..Len(s)
  BY <1>1
<1>6. NamedIn(r, M) /\ NamedIn(u, M)
  BY <1>3, <1>4, <1>5 DEF UnitsOK, NamedIn, Alike
<1>7. Distinct(r)
  <2> SUFFICES ASSUME NEW i \in 1..Len(r), NEW j \in 1..Len(r), r[i].name = r[j].name PROVE i = j
    BY DEF Distinct
  <2>1. i + 1 = j + 1
    BY <1>3 DEF UnitsOK, Distinct
  <2> QED  BY <2>1, <1>1
<1>8. \A i \in 1..Len(t) : t[i].name = e.name => e.input
  BY <1>5 DEF UnitsOK, Apart, Alike
<1>9. OnceOrInput(u)
  <2> SUFFICES ASSUME NEW i \in 1..Len(u), NEW j \in 1..Len(u), i < j, u[i].name = u[j].name
               PROVE  u[j].input
    BY DEF OnceOrInput
  <2>1. i \in 1..Len(t) /\ u[i] = t[i]
    BY <1>2, <1>4
  <2>2. CASE u[j] = e
    BY <2>1, <2>2, <1>8
  <2>3. CASE j \in 1..Len(t) /\ u[j] = t[j]
    BY <2>1, <2>3 DEF UnitsOK, OnceOrInput
  <2> QED  BY <2>2, <2>3, <1>4
<1>10. Apart(r, u)
  <2> SUFFICES ASSUME NEW i \in 1..Len(r), NEW j \in 1..Len(u), r[i].name = u[j].name
               PROVE  r[i].input
    BY DEF Apart
  <2>1. CASE u[j] = e
    BY <2>1, <1>3, <1>5 DEF UnitsOK, Distinct, Alike
  <2>2. CASE j \in 1..Len(t) /\ u[j] = t[j]
    BY <2>2, <1>3 DEF UnitsOK, Apart
  <2> QED  BY <2>1, <2>2, <1>4
<1> QED  BY <1>1, <1>2, <1>6, <1>7, <1>9, <1>10 DEF UnitsOK, r, u

(* An input file alone on the stack, compiled before or not.  *)
LEMMA InputFrame ==
  ASSUME NEW s, NEW t, NEW M, NEW N, UnitsOK(s, t, M), M \subseteq N,
         NEW x, IsUnit(x), x.name \in N, x.input
  PROVE  UnitsOK(<<x>>, t, N)
<1>1. IsSequence(<<x>>) /\ Len(<<x>>) = 1 /\ <<x>>[1] = x
  <2>1. <<x>> \in Seq({x})
    OBVIOUS
  <2> QED  BY <2>1, SequencesAre
<1> DEFINE r == <<x>>
<1> HIDE DEF r
<1>2. \A i \in 1..Len(r) : i = 1 /\ r[i] = x
  BY <1>1 DEF r
<1>3. NamedIn(r, N) /\ Distinct(r) /\ Apart(r, t)
  BY <1>2 DEF NamedIn, Distinct, Apart
<1>4. IsSequence(t) /\ NamedIn(t, N) /\ OnceOrInput(t)
  BY DEF UnitsOK, NamedIn
<1> QED  BY <1>1, <1>3, <1>4 DEF UnitsOK, r

(* Every step of the compiler keeps the units apart.  *)
LEMMA QncNextKeeps ==
  ASSUME UnitsIInv, QncNext
  PROVE  UnitsIInv'
<1> DEFINE M == Made(loadedModules, Turns)
<1>0. /\ prog \in Programs /\ IsSequence(dyn) /\ Len(dyn) =< Len(prog.dyn)
      /\ taken \in 0..Len(prog.inputs)
      /\ UnitsOK(stack, entries, M) /\ CNamesOK(entries, prog.cname)
      /\ \A m \in loadedModules : file_exists(Source, m.path)
      /\ \A p \in mods : file_exists(Source, p)
      /\ \A e \in map : e.base.emb
      /\ IsSequence(stack) /\ IsSequence(entries) /\ NamedIn(stack, M)
  BY DEF UnitsIInv, UnitsOK
<1>1. /\ Len(dyn) \in Nat /\ Len(prog.dyn) \in Nat /\ Len(prog.dyn) =< Len(InputNames)
      /\ Turns \in Nat /\ Turns =< Len(InputNames) /\ Len(InputNames) \in Nat
  <2>1. IsSequence(prog.dyn) /\ Len(prog.dyn) =< Len(InputNames) /\ Len(InputNames) \in Nat
    BY <1>0, QncAssumption
  <2>2. Len(dyn) \in Nat /\ Len(prog.dyn) \in Nat
    BY <1>0, <2>1 DEF IsSequence
  <2> QED  BY <1>0, <2>1, <2>2 DEF Turns
<1>2. M \subseteq loadedModules \cup Synthetics
  BY <1>1 DEF Made, Synthetics
<1>m. \A base, spec, r : \A e \in Recorded(base, spec, r) : e.base.emb
  BY DEF Recorded, make_embedded_name
<1>3. CASE CompileEntry
  <2> DEFINE file == prog.inputs[taken + 1]
             name == EntryName(file)
             x == Frame(name, Imports(Walk(Source, file)), TRUE)
             N == Made(loadedModules \cup {name}, Turns)
  <2>1. /\ stage = "compile" /\ stack = <<>> /\ ~AllTaken
        /\ UNCHANGED <<prog, mods, map, entries, dyn>>
    BY <1>3 DEF CompileEntry
  <2>2. Len(prog.inputs) \in Nat /\ taken + 1 \in 1..Len(prog.inputs)
    <3>1. Len(prog.inputs) \in Nat
      BY <1>0, QncAssumption DEF IsSequence
    <3> QED  BY <1>0, <2>1, <3>1 DEF AllTaken
  <2>3. Turns' = Turns /\ CNamesOK(entries', prog'.cname) /\ \A e \in map' : e.base.emb
    BY <1>0, <2>1 DEF Turns
  <2>4. CASE file_exists(Source, file)
    <3>1. /\ stack' = <<x>> /\ loadedModules' = loadedModules \cup {name}
          /\ taken' = taken + 1 /\ stage' = stage
      BY <1>3, <2>4 DEF CompileEntry
    <3>2. file_exists(Source, name.path)
      BY <1>0, <2>2, <2>4, EntryAssumption
    <3>3. IsUnit(x) /\ x.name = name /\ x.input
      BY DEF Frame, IsUnit
    <3>4. M \subseteq N /\ name \in N
      BY DEF Made
    <3> HIDE DEF x, N, M, name, file
    <3>5. UnitsOK(<<x>>, entries, N)
      BY <1>0, <3>3, <3>4, InputFrame
    <3>6. UnitsOK(stack', entries', Made(loadedModules', Turns'))
      BY <2>1, <2>3, <3>1, <3>5 DEF N
    <3>7. \A m \in loadedModules' : file_exists(Source, m.path)
      BY <1>0, <3>1, <3>2
    <3>8. taken' \in 0..Len(prog'.inputs) /\ stage' \in {"compile", "run", "failed"}
      BY <2>1, <2>2, <3>1
    <3> QED  BY <1>0, <2>1, <2>3, <3>6, <3>7, <3>8 DEF UnitsIInv
  <2>5. CASE ~file_exists(Source, file)
    <3>1. stage' = "failed" /\ UNCHANGED <<taken, stack, loadedModules>>
      BY <1>3, <2>5 DEF CompileEntry
    <3>2. UnitsOK(stack', entries', Made(loadedModules', Turns'))
      BY <1>0, <2>1, <2>3, <3>1
    <3> QED  BY <1>0, <2>1, <2>3, <3>1, <3>2 DEF UnitsIInv
  <2> QED  BY <2>4, <2>5
<1>4. CASE ResolveImport
  <2> DEFINE r == resolverFn(Source, Top.name, NextImport)
             file == Walk(Source, r.name.path)
  <2>1. /\ stage = "compile" /\ stack # <<>> /\ UNCHANGED <<prog, taken, entries, dyn>>
        /\ map' = map \cup Recorded(Top.name, NextImport, r)
        /\ \/ Known(r.name) /\ stack' = Rest /\ UNCHANGED <<loadedModules, mods, stage>>
           \/ /\ ~Known(r.name) /\ file \in Source.files
              /\ stack' = <<Frame(r.name, Imports(file), FALSE)>> \o Rest
              /\ loadedModules' = loadedModules \cup {r.name}
              /\ mods' = mods \cup {r.name.path} /\ UNCHANGED stage
           \/ stage' = "failed" /\ UNCHANGED <<stack, loadedModules, mods>>
    <3>1. CASE Known(r.name)
      BY <1>4, <3>1 DEF ResolveImport, Import, Record, Load
    <3>2. CASE ~Known(r.name) /\ file \in Source.files
      BY <1>4, <3>2 DEF ResolveImport, Import, Record, Load
    <3>3. CASE ~Known(r.name) /\ file \notin Source.files
      BY <1>4, <3>3 DEF ResolveImport, Import, Record, Load
    <3> QED  BY <3>1, <3>2, <3>3
  <2> HIDE DEF r
  <2>2. \A e \in map' : e.base.emb
    BY <1>0, <1>m, <2>1
  <2>3. Turns' = Turns /\ CNamesOK(entries', prog'.cname) /\ entries' = entries
    BY <1>0, <2>1 DEF Turns
  <2>4. /\ IsSequence(Rest) /\ Len(Rest) = Len(stack)
        /\ \A i \in 1..Len(stack) : Alike(Rest[i], stack[i])
    BY <1>0, <2>1, RestNames
  <2>5. UnitsOK(Rest, entries, M)
    BY <1>0, <2>4, SameNames
  <2>6. CASE Known(r.name) /\ stack' = Rest /\ UNCHANGED <<loadedModules, mods, stage>>
    <3>1. UnitsOK(stack', entries', Made(loadedModules', Turns'))
      BY <2>3, <2>5, <2>6
    <3> QED  BY <1>0, <2>1, <2>2, <2>3, <2>6, <3>1 DEF UnitsIInv
  <2>7. CASE /\ ~Known(r.name) /\ file \in Source.files
             /\ stack' = <<Frame(r.name, Imports(file), FALSE)>> \o Rest
             /\ loadedModules' = loadedModules \cup {r.name}
             /\ mods' = mods \cup {r.name.path} /\ UNCHANGED stage
    <3> DEFINE x == Frame(r.name, Imports(file), FALSE)
               N == Made(loadedModules', Turns)
    <3>1. IsUnit(x) /\ x.name = r.name
      BY DEF Frame, IsUnit
    <3>2. file_exists(Source, r.name.path)
      BY <2>7 DEF file_exists
    <3>3. r.name \notin loadedModules /\ r.name \notin Synthetics
      BY <2>7, <3>2, SyntheticNames DEF Known
    <3>4. M \subseteq N /\ r.name \in N \ M
      BY <1>2, <2>7, <3>3 DEF Made
    <3> HIDE DEF x, N, M
    <3>5. UnitsOK(<<x>> \o Rest, entries, N)
      BY <2>5, <3>1, <3>4, NewFrame
    <3>6. UnitsOK(stack', entries', Made(loadedModules', Turns'))
      BY <2>3, <2>7, <3>5 DEF x, N
    <3>7. \A m \in loadedModules' : file_exists(Source, m.path)
      BY <1>0, <2>7, <3>2
    <3>8. \A p \in mods' : file_exists(Source, p)
      BY <1>0, <2>7, <3>2
    <3> QED  BY <1>0, <2>1, <2>2, <2>3, <2>7, <3>6, <3>7, <3>8 DEF UnitsIInv
  <2>8. CASE stage' = "failed" /\ UNCHANGED <<stack, loadedModules, mods>>
    <3>1. UnitsOK(stack', entries', Made(loadedModules', Turns'))
      BY <1>0, <2>3, <2>8
    <3> QED  BY <1>0, <2>1, <2>2, <2>3, <2>8, <3>1 DEF UnitsIInv
  <2> QED  BY <2>1, <2>6, <2>7, <2>8
<1>5. CASE EmitModule
  <2> DEFINE c == EntryCName(Top)
             e == [name |-> Top.name, cname |-> c, input |-> Top.input]
  <2>1. /\ stage = "compile" /\ stack # <<>>
        /\ UNCHANGED <<prog, taken, loadedModules, mods, map, dyn, stage>>
        /\ entries' = Append(entries, e) /\ stack' = Tail(stack)
    BY <1>5 DEF EmitModule
  <2>2. DOMAIN entries = 1..Len(entries)
    BY <1>0, OwnElements
  <2>3. cnames = {entries[i].cname : i \in 1..Len(entries)}
    BY <2>2 DEF cnames
  <2>4. IsFiniteSet(cnames)
    BY <1>0, <2>3 DEF CNamesOK
  <2>5. c \notin cnames \/ (Top.input /\ prog.cname # NoCName /\ c = prog.cname)
    <3>1. make_cname(Top.name.path) \notin cnames
      BY <2>4, NewCName
    <3> QED  BY <3>1 DEF EntryCName
  <2> HIDE DEF c
  <2>6. Alike(e, stack[1]) /\ e.cname = c /\ e.input = Top.input
    BY DEF Top, Alike, IsUnit
  <2> HIDE DEF e
  <2>7. UnitsOK(stack', entries', M)
    BY <1>0, <2>1, <2>6, FrameToUnit
  <2>8. /\ Len(entries') = Len(entries) + 1 /\ Len(entries) \in Nat
        /\ entries'[Len(entries) + 1] = e /\ \A i \in 1..Len(entries) : entries'[i] = entries[i]
    BY <1>0, <2>1, AppendSequence
  <2>9. \A i \in 1..Len(entries') : \/ i = Len(entries) + 1 /\ entries'[i] = e
                                    \/ i \in 1..Len(entries) /\ entries'[i] = entries[i]
    <3> TAKE i \in 1..Len(entries')
    <3>1. i = Len(entries) + 1 \/ i \in 1..Len(entries)
      BY <2>8
    <3>2. CASE i = Len(entries) + 1
      <4>1. entries'[i] = e
        BY <3>2, <2>8
      <4> QED  BY <3>2, <4>1
    <3>3. CASE i \in 1..Len(entries)
      BY <3>3, <2>8
    <3> QED  BY <3>1, <3>2, <3>3
  <2>10. ASSUME NEW i \in 1..Len(entries'), NEW j \in 1..Len(entries'),
                i < j, entries'[i].cname = entries'[j].cname
         PROVE  Given(entries'[j], prog.cname)
    <3>1. i \in 1..Len(entries) /\ entries'[i] = entries[i]
      BY <2>8, <2>9, <2>10
    <3>2. CASE entries'[j] = e
      <4>1. c \in cnames
        BY <2>3, <2>6, <2>10, <3>1, <3>2
      <4> QED  BY <2>5, <2>6, <3>2, <4>1 DEF Given
    <3>3. CASE j \in 1..Len(entries) /\ entries'[j] = entries[j]
      BY <1>0, <2>10, <3>1, <3>3 DEF CNamesOK
    <3> QED  BY <2>9, <3>2, <3>3
  <2>11. {entries'[i].cname : i \in 1..Len(entries')} = cnames \cup {c}
    <3>1. 1..Len(entries') = (1..Len(entries)) \cup {Len(entries) + 1}
      BY <2>8
    <3> QED  BY <2>3, <2>6, <2>8, <3>1
  <2>12. IsFiniteSet(cnames \cup {c})
    BY <2>4, FS_AddElement
  <2>13. CNamesOK(entries', prog'.cname)
    BY <2>1, <2>10, <2>11, <2>12 DEF CNamesOK
  <2>14. Made(loadedModules', Turns') = M
    BY <2>1 DEF Turns, Made
  <2> QED  BY <1>0, <2>1, <2>7, <2>13, <2>14 DEF UnitsIInv
<1>6. CASE CompileDynamic
  <2> DEFINE spec == Head(dyn)
             r == resolverFn(Source, InputName, spec)
             own == IF r.name \in loadedModules THEN {}
                    ELSE {[base |-> InputName, spec |-> spec, resolved |-> r.name]}
             k == Turns + 1
             x == Frame(Synthetic(k), <<spec>>, FALSE)
             N == Made(loadedModules, k)
  <2>1. /\ stage = "compile" /\ stack = <<>> /\ dyn # <<>> /\ dyn' = Tail(dyn)
        /\ map' = map \cup Recorded(InputName, spec, r) \cup own
        /\ stack' = <<>> \/ stack' = <<x>>
        /\ UNCHANGED <<prog, taken, loadedModules, mods, entries, stage>>
    BY <1>6 DEF CompileDynamic, AddDynamic, Turns
  <2>2. \A e \in own : e.base.emb
    BY DEF InputName, make_embedded_name
  <2> HIDE DEF own, r
  <2>3. \A e \in map' : e.base.emb
    BY <1>0, <1>m, <2>1, <2>2
  <2>4. IsSequence(dyn') /\ Len(dyn') = Len(dyn) - 1 /\ Len(dyn) \in Nat \ {0}
    BY <1>0, <2>1, TailSequence
  <2>5. Len(dyn') =< Len(prog'.dyn) /\ Turns' = k /\ k \in 1..Len(InputNames)
    <3>1. Turns' = Len(prog.dyn) - Len(dyn') /\ Turns = Len(prog.dyn) - Len(dyn)
      BY <2>1 DEF Turns
    <3> QED  BY <1>0, <1>1, <2>1, <2>4, <3>1
  <2>6. Synthetic(k) \in Synthetics /\ Synthetic(k) \notin M /\ Synthetic(k) \in N /\ M \subseteq N
    <3>1. \A i \in 1..Turns : i \in 1..Len(InputNames) /\ i # k /\ i \in 1..k
      BY <1>1, <2>5
    <3>2. \A i \in 1..Turns : Synthetic(i) # Synthetic(k)
      BY <2>5, <3>1, SyntheticNames
    <3>3. Synthetic(k) \in Synthetics
      BY <2>5 DEF Synthetics
    <3>4. Synthetic(k) \notin loadedModules
      BY <1>0, <3>3, SyntheticNames
    <3>5. k \in 1..k
      BY <1>1
    <3> HIDE DEF k
    <3> QED  BY <3>1, <3>2, <3>3, <3>4, <3>5 DEF Made
  <2>7. IsUnit(x) /\ x.name = Synthetic(k)
    BY DEF Frame, IsUnit
  <2> HIDE DEF x, N, M, k
  <2>8. UnitsOK(<<x>> \o stack, entries, N)
    BY <1>0, <2>6, <2>7, NewFrame
  <2>9. <<x>> \o stack = <<x>>
    <3>1. <<x>> \in Seq({x})
      OBVIOUS
    <3> QED  BY <2>1, <3>1, ConcatEmptySeq
  <2>10. UnitsOK(stack, entries, N)
    <3>1. \A i \in 1..Len(stack) : Alike(stack[i], stack[i])
      BY <1>0 DEF NamedIn, Alike
    <3> QED  BY <1>0, <2>6, <3>1, SameNames
  <2>11. UnitsOK(stack', entries', Made(loadedModules', Turns'))
    BY <2>1, <2>5, <2>8, <2>9, <2>10 DEF N
  <2> QED  BY <1>0, <2>1, <2>3, <2>4, <2>5, <2>11 DEF UnitsIInv
<1>7. CASE StartBinary \/ LinkEmbedded
  <2>1. /\ UNCHANGED <<prog, taken, stack, loadedModules, mods, map, entries, dyn>>
        /\ stage' = "run"
    BY <1>7 DEF StartBinary, LinkEmbedded
  <2>2. Made(loadedModules', Turns') = M
    BY <2>1 DEF Turns, Made
  <2> QED  BY <1>0, <2>1, <2>2 DEF UnitsIInv
<1> QED  BY <1>3, <1>4, <1>5, <1>6, <1>7 DEF QncNext

(* Before anything is compiled.  *)
LEMMA QncInitIInv == QncInit => UnitsIInv
<1> SUFFICES ASSUME QncInit PROVE UnitsIInv
  OBVIOUS
<1>1. /\ prog \in Programs /\ stack = <<>> /\ loadedModules = {} /\ mods = {} /\ map = {}
      /\ entries = <<>> /\ dyn = prog.dyn /\ stage = "compile" /\ taken = 0
  BY DEF QncInit
<1>2. IsSequence(dyn) /\ Len(dyn) =< Len(prog.dyn)
  <2>1. IsSequence(prog.dyn)
    BY <1>1, QncAssumption
  <2>2. Len(prog.dyn) \in Nat
    BY <2>1 DEF IsSequence
  <2> QED  BY <1>1, <2>1, <2>2
<1>t. taken \in 0..Len(prog.inputs)
  BY <1>1, QncAssumption DEF IsSequence
<1>3. IsSequence(<<>>) /\ Len(<<>>) = 0
  <2>1. <<>> \in Seq({})
    OBVIOUS
  <2> QED  BY <2>1, SequencesAre
<1>4. UnitsOK(stack, entries, Made(loadedModules, Turns))
  BY <1>1, <1>3 DEF UnitsOK, NamedIn, Distinct, OnceOrInput, Apart
<1>5. {entries[i].cname : i \in 1..Len(entries)} = {}
  BY <1>1, <1>3
<1>6. CNamesOK(entries, prog.cname)
  <2>1. IsFiniteSet({entries[i].cname : i \in 1..Len(entries)})
    BY <1>5, FS_EmptySet, Zenon
  <2> QED  BY <1>1, <1>3, <2>1 DEF CNamesOK
<1> QED  BY <1>1, <1>t, <1>2, <1>4, <1>6 DEF UnitsIInv

(* What the invariant says of stack, entries and C names.  *)
LEMMA UnitsIInvImplies ==
  ASSUME UnitsIInv
  PROVE  QncTypeOK /\ CompiledOnce /\ CNamesDistinct
<1> DEFINE M == Made(loadedModules, Turns)
<1>0. /\ prog \in Programs /\ IsSequence(dyn) /\ Len(dyn) =< Len(prog.dyn)
      /\ UnitsOK(stack, entries, M) /\ CNamesOK(entries, prog.cname)
      /\ \A p \in mods : Walk(Source, p) \in Source.files
  BY DEF UnitsIInv, file_exists
<1>1. IsSequence(prog.dyn) /\ Len(prog.dyn) =< Len(InputNames) /\ Len(InputNames) \in Nat
  BY <1>0, QncAssumption
<1>2. Len(dyn) \in Nat /\ Len(prog.dyn) \in Nat
  BY <1>0, <1>1 DEF IsSequence
<1>3. \A i \in 1..Turns : i \in 1..Len(InputNames)
  BY <1>0, <1>1, <1>2 DEF Turns
<1>4. M \subseteq loadedModules \cup Synthetics
  BY <1>3 DEF Made, Synthetics
<1> HIDE DEF M
<1>5. DOMAIN stack = 1..Len(stack) /\ DOMAIN entries = 1..Len(entries)
  BY <1>0, OwnElements DEF UnitsOK
<1>6. /\ \A i \in DOMAIN entries : entries[i].name \in loadedModules \cup Synthetics
      /\ \A i \in DOMAIN stack : stack[i].name \in loadedModules \cup Synthetics
  BY <1>0, <1>4, <1>5 DEF UnitsOK, NamedIn
<1>7. QncTypeOK
  BY <1>0, <1>6 DEF QncTypeOK, UnitsIInv
<1>8. CompiledOnce
  BY <1>0, <1>5 DEF CompiledOnce, UnitsOK, Distinct, OnceOrInput, Apart
<1>9. CNamesDistinct
  BY <1>0, <1>5 DEF CNamesDistinct, CNamesOK, Given
<1> QED  BY <1>7, <1>8, <1>9

(* The types of the cache, which two runs at a time keep as well.  *)
CacheTyped ==
  /\ exe \in Builds /\ stamp \in Stamps /\ qnc \in [Qncs -> QncRecords]
  /\ \A q \in Qncs : qnc[q].pc = "write" => qnc[q].next =< Len(FileNames)

(* Every step keeps the types.  *)
LEMMA CacheNextTyped ==
  ASSUME CacheTyped, CacheNext
  PROVE  CacheTyped'
<1>0. /\ exe \in Builds /\ stamp \in Stamps /\ qnc \in [Qncs -> QncRecords]
      /\ \A q \in Qncs : qnc[q].pc = "write" => qnc[q].next =< Len(FileNames)
      /\ Len(FileNames) \in Nat
  BY Indexes DEF CacheTyped
<1>1. ASSUME exe' \in Builds, stamp' \in Stamps, NEW q \in Qncs, NEW x \in QncRecords,
             qnc' = [qnc EXCEPT ![q] = x], x.pc = "write" => x.next =< Len(FileNames)
      PROVE  CacheTyped'
  BY <1>0, <1>1 DEF CacheTyped
<1>2. CASE Rebuild
  BY <1>0, <1>2 DEF Rebuild, CacheTyped
<1>3. ASSUME NEW q \in Qncs, QncStep(q) \/ QncEnds(q) \/ Killed(q) PROVE CacheTyped'
  <2> DEFINE x == qnc[q]
  <2>0. x \in QncRecords /\ x.mtime \in Builds \cup {0} /\ x.next \in 1..(Len(FileNames) + 1)
    BY <1>0 DEF QncRecords
  <2>1. CASE QncStart(q)
    <3> DEFINE y == [x EXCEPT !.pc = "check", !.mtime = exe]
    <3>1. y \in QncRecords /\ y.pc # "write"
      BY <1>0, <2>0 DEF QncRecords, Pcs
    <3>2. qnc' = [qnc EXCEPT ![q] = y] /\ exe' = exe /\ stamp' = stamp
      BY <1>0, <2>1 DEF QncStart
    <3> QED  BY <1>0, <1>1, <3>1, <3>2
  <2>2. CASE \E pc \in Pcs \ {"write"} :
               exe' = exe /\ stamp' \in Stamps /\ qnc' = [qnc EXCEPT ![q] = [x EXCEPT !.pc = pc]]
    <3>1. PICK pc \in Pcs \ {"write"} :
            exe' = exe /\ stamp' \in Stamps /\ qnc' = [qnc EXCEPT ![q] = [x EXCEPT !.pc = pc]]
      BY <2>2
    <3>2. [x EXCEPT !.pc = pc] \in QncRecords /\ [x EXCEPT !.pc = pc].pc = pc
      BY <2>0, RunFields
    <3> QED  BY <1>0, <1>1, <3>1, <3>2
  <2>3. CASE CheckStamp(q)
    <3> DEFINE to == CASE stamp = x.mtime -> "exec"
                       [] stamp = NoStamp -> "open"
                       [] OTHER           -> "wipe"
    <3>1. exe' = exe /\ stamp' = stamp /\ qnc' = [qnc EXCEPT ![q] = [x EXCEPT !.pc = to]]
      BY <1>0, <2>3 DEF CheckStamp
    <3>2. to \in {"exec", "open", "wipe"}
      OBVIOUS
    <3> HIDE DEF to
    <3> QED  BY <1>0, <2>2, <3>1, <3>2 DEF Pcs
  <2>4. CASE Wipe(q)
    <3>1. CASE qnc' = qnc
      <4>1. stamp' \in Stamps /\ exe' = exe
        BY <1>0, <2>4 DEF Wipe, Stamps
      <4> QED  BY <1>0, <3>1, <4>1 DEF CacheTyped
    <3>2. CASE qnc' # qnc
      <4>1. exe' = exe /\ stamp' = stamp /\ qnc' = [qnc EXCEPT ![q] = [x EXCEPT !.pc = "open"]]
        BY <1>0, <2>4, <3>2 DEF Wipe
      <4> QED  BY <1>0, <2>2, <4>1 DEF Pcs
    <3> QED  BY <3>1, <3>2
  <2>5. CASE OpenArchive(q)
    <3> DEFINE y == [x EXCEPT !.pc = "create", !.from = exe]
    <3>1. y \in QncRecords /\ y.pc # "write"
      BY <1>0, <2>0 DEF QncRecords, Pcs
    <3>2. qnc' = [qnc EXCEPT ![q] = y] /\ exe' = exe /\ stamp' = stamp
      BY <1>0, <2>5 DEF OpenArchive
    <3> QED  BY <1>0, <1>1, <3>1, <3>2
  <2>6. CASE CreateFile(q)
    <3> DEFINE y == [x EXCEPT !.pc = "write"]
    <3>1. y \in QncRecords /\ y.next = x.next
      BY <2>0, RunFields DEF Pcs
    <3>2. /\ qnc' = [qnc EXCEPT ![q] = y] /\ exe' = exe /\ stamp' = stamp
          /\ x.next =< Len(FileNames)
      BY <1>0, <2>6 DEF CreateFile
    <3> HIDE DEF y
    <3> QED  BY <1>0, <1>1, <3>1, <3>2
  <2>7. CASE WriteFile(q)
    <3> DEFINE y == [x EXCEPT !.pc = "create", !.next = x.next + 1]
    <3>1. x.next =< Len(FileNames)
      BY <1>0, <2>7 DEF WriteFile
    <3>2. x.next + 1 \in 1..(Len(FileNames) + 1)
      BY <1>0, <2>0, <3>1
    <3>3. y \in QncRecords /\ y.pc # "write"
      BY <1>0, <2>0, <3>2 DEF QncRecords, Pcs
    <3>4. qnc' = [qnc EXCEPT ![q] = y] /\ exe' = exe /\ stamp' = stamp
      BY <1>0, <2>7 DEF WriteFile
    <3> QED  BY <1>0, <1>1, <3>3, <3>4
  <2>8. CASE OpenStamp(q)
    <3>1. exe' = exe /\ stamp' = EmptyStamp /\ qnc' = [qnc EXCEPT ![q] = [x EXCEPT !.pc = "stamp"]]
      BY <1>0, <2>8 DEF OpenStamp
    <3>2. stamp' \in Stamps /\ "stamp" \in Pcs \ {"write"}
      BY <3>1 DEF Stamps, Pcs
    <3> QED  BY <2>2, <3>1, <3>2
  <2>9. CASE WriteStamp(q)
    <3>1. exe' = exe /\ stamp' = x.mtime /\ qnc' = [qnc EXCEPT ![q] = [x EXCEPT !.pc = "exec"]]
      BY <1>0, <2>9 DEF WriteStamp
    <3>2. stamp' \in Stamps /\ "exec" \in Pcs \ {"write"}
      BY <2>0, <3>1 DEF Stamps, Pcs, NoStamp
    <3> QED  BY <2>2, <3>1, <3>2
  <2>10. CASE Exec(q)
    <3>1. exe' = exe /\ stamp' = stamp /\ qnc' = [qnc EXCEPT ![q] = [x EXCEPT !.pc = "running"]]
      BY <1>0, <2>10 DEF Exec
    <3>2. stamp' \in Stamps /\ "running" \in Pcs \ {"write"}
      BY <1>0, <3>1 DEF Pcs
    <3> QED  BY <2>2, <3>1, <3>2
  <2>11. CASE QncEnds(q) \/ Killed(q)
    <3> DEFINE y == [Idle EXCEPT !.pc = "ended"]
    <3>1. exe' = exe /\ stamp' = stamp /\ qnc' = [qnc EXCEPT ![q] = y]
      BY <2>11 DEF QncEnds, Killed
    <3>2. y \in QncRecords /\ y.pc # "write"
      BY <1>0 DEF QncRecords, Pcs, Idle
    <3> QED  BY <1>0, <1>1, <3>1, <3>2
  <2> QED  BY <1>3, <2>1, <2>3, <2>4, <2>5, <2>6, <2>7, <2>8, <2>9, <2>10, <2>11 DEF QncStep
<1> QED  BY <1>2, <1>3 DEF CacheNext

(* The type invariant the run checks.  *)
LEMMA CacheTypedImplies == CacheTyped => CacheTypeOK
<1> SUFFICES ASSUME CacheTyped PROVE CacheTypeOK
  OBVIOUS
<1>1. exe \in Builds /\ stamp \in Builds \cup {NoStamp, EmptyStamp} /\ qnc \in [Qncs -> QncRecords]
  BY DEF CacheTyped, Stamps
<1>2. \A q \in Qncs : /\ qnc[q].next \in 1..(Len(FileNames) + 1)
                      /\ qnc[q].mtime \in Builds \cup {0} /\ qnc[q].from \in Builds \cup {0}
                      /\ qnc[q].pc \in Pcs
  BY <1>1 DEF QncRecords
<1> QED  BY <1>1, <1>2 DEF CacheTypeOK, Pcs

(* Each module of a program becomes one unit of the binary, in a cycle of    *)
(* imports too, under a C name that no unit before it has: loadedModules and *)
(* the list of cnames do their work.  The exceptions are those of the code:  *)
(* an input file is compiled in its turn, though an input before it may have *)
(* imported it, and -N gives all of them one name that nothing checks.  For  *)
(* any imports, any disk, any number of input files and of -D modules.       *)
THEOREM UnitsAreDistinct == Spec => []UnitsInv
<1> DEFINE IInv == CacheTyped /\ UnitsIInv
<1>1. BuildInit => IInv
  <2> SUFFICES ASSUME BuildInit PROVE CacheTyped
    BY QncInitIInv DEF BuildInit
  <2>1. CacheIInv
    BY CacheInitIInv DEF BuildInit
  <2>2. \A q \in Qncs : RunOK(qnc[q], cache, stamp, exe)
    BY <2>1 DEF CacheIInv
  <2> QED  BY <2>1, <2>2 DEF CacheIInv, CacheTyped, RunOK
<1>2. IInv /\ [BuildNext]_buildVars => IInv'
  <2> SUFFICES ASSUME CacheTyped, UnitsIInv, [BuildNext]_buildVars PROVE IInv'
    OBVIOUS
  <2>1. CacheTyped'
    <3>1. CASE CacheNext
      BY <3>1, CacheNextTyped
    <3>2. CASE UNCHANGED cacheVars
      BY <3>2 DEF cacheVars, CacheTyped
    <3> QED  BY <3>1, <3>2 DEF BuildNext, buildVars
  <2>2. UnitsIInv'
    <3>1. CASE QncNext
      BY <3>1, QncNextKeeps
    <3>2. CASE UNCHANGED qncVars
      BY <3>2 DEF qncVars, UnitsIInv, Turns
    <3> QED  BY <3>1, <3>2 DEF BuildNext, buildVars
  <2> QED  BY <2>1, <2>2
<1>3. IInv => UnitsInv
  BY CacheTypedImplies, UnitsIInvImplies DEF UnitsInv, BuildTypeOK
<1> QED  BY <1>1, <1>2, <1>3, PTL DEF Spec
=============================================================================
