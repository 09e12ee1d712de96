------------------------------- MODULE Sqlite -------------------------------
(***************************************************************************)
(* node:sqlite.  DatabaseSync and StatementSync wrap the two classes of      *)
(* qjs-sqlite.c, and those wrap a connection and a prepared statement of     *)
(* SQLite.  A database may be closed and opened again, each time with a new  *)
(* connection on the same file; statements of the old one stay in the        *)
(* program's hands.  The garbage collector finalizes the objects in any      *)
(* order.  SQLite itself is external: a closed connection lives on for its   *)
(* statements, a statement that stands on a row holds a lock on the file,    *)
(* and a bound statement cannot be bound again before it is reset.           *)
(***************************************************************************)
EXTENDS Naturals, Sequences, FiniteSets

CONSTANTS
  MaxConns, \* bound: connections, one for each open()
  MaxStmts, \* bound: prepared statements
  Values,   \* classes of JavaScript values the program binds
  MaxRows   \* bound: rows of the table

ValueClasses ==
  {"null", "true", "int", "wide", "huge", "real", "whole", "text", "nul", "buffer", "bytes", "object"}

ASSUME SqliteAssumption ==
  Values \subseteq ValueClasses /\ MaxConns \in Nat /\ MaxStmts \in Nat /\ MaxRows \in Nat

Conns == 1..MaxConns
Stmts == 1..MaxStmts

VARIABLES
  conn,   \* the connections and the sqlite_db objects that wrap them
  stmt,   \* the statements and the sqlite_stmt objects that wrap them
  table,  \* the rows on the file: what was bound and what was stored
  db,     \* the program's DatabaseSync
  answer  \* what the last call did and returned

sqVars == <<conn, stmt, table, db, answer>>

NoConn == 0
NoAnswer == [op |-> "other", ok |-> TRUE, busy |-> FALSE, closed |-> FALSE, big |-> FALSE,
             arg |-> <<>>, rows |-> <<>>, wrote |-> <<>>]

NoStmt == [kind |-> "none", conn |-> NoConn, lib |-> "none", held |-> FALSE,
           cur |-> 0, ready |-> TRUE, bound |-> "null", big |-> FALSE]

SqInit ==
  /\ conn = [c \in Conns |-> [lib |-> "none", ptr |-> FALSE, obj |-> FALSE, closes |-> 0]]
  /\ stmt = [s \in Stmts |-> NoStmt]
  /\ table = <<>>
  /\ db = [cur |-> NoConn, isOpen |-> FALSE, held |-> TRUE]
  /\ answer = NoAnswer

-----------------------------------------------------------------------------
(* SQLite.                                                                   *)

LiveOf(ss, c) == {s \in Stmts : ss[s].lib = "live" /\ ss[s].conn = c}

(* sqlite3_close_v2.  *)
CloseV2(cs, ss, c) ==
  [cs EXCEPT ![c].closes = @ + 1, ![c].lib = IF LiveOf(ss, c) = {} THEN "freed" ELSE "zombie"]

(* sqlite3_finalize: the last statement takes a closed connection with it.   *)
Finalized(cs, ss, s) ==
  LET c == ss[s].conn IN
  IF cs[c].lib = "zombie" /\ LiveOf(ss, c) = {s} THEN [cs EXCEPT ![c].lib = "freed"] ELSE cs

(* Another connection reads: a write on c does not get its lock.             *)
Busy(c) == \E s \in Stmts : stmt[s].lib = "live" /\ stmt[s].conn # c /\ stmt[s].cur > 0

-----------------------------------------------------------------------------
(* js_sqlite_stmt_bind and js_sqlite_stmt_column_value, on classes of values. *)

Stored(v) ==
  CASE v \in {"null", "undefined"}   -> "NULL"
    [] v \in {"true", "int"}         -> "INT32"
    [] v = "wide"                    -> "INT53"
    [] v = "huge"                    -> "INT64"
    [] v = "real"                    -> "FLOAT"
    [] v = "whole"                   -> "FLOAT0"
    [] v = "text"                    -> "TEXT"
    [] v = "nul"                     -> "CUT TEXT"
    [] v \in {"buffer", "bytes"}     -> "BLOB"

(* The column's value with what #readRow makes of it: an integer becomes a   *)
(* Number, and then, if the program asked for it, a BigInt.                  *)
ReadBack(d, big) ==
  CASE d = "NULL"     -> "null"
    [] d = "INT32"    -> IF big THEN "int32n" ELSE "int32"
    [] d = "INT53"    -> IF big THEN "int53n" ELSE "int53"
    [] d = "INT64"    -> IF big THEN "roundedn" ELSE "rounded"
    [] d = "FLOAT"    -> "real"
    [] d = "FLOAT0"   -> IF big THEN "wholen" ELSE "whole"
    [] d = "TEXT"     -> "text"
    [] d = "CUT TEXT" -> "cut text"
    [] d = "BLOB"     -> "bytes"

(* #bindParams: the statement has one parameter if it inserts and none       *)
(* otherwise.  A value that cannot be bound, or one too many, throws, and    *)
(* what was bound before stays.                                              *)
BindParams(q, params) ==
  LET fits == params # <<>> /\ q.kind = "insert" /\ params[1] # "object" /\ q.ready
  IN  [q  |-> IF fits THEN [q EXCEPT !.bound = params[1]] ELSE q,
       ok |-> params = <<>> \/ (fits /\ Len(params) = 1)]

(* Mutant: the statement is used as the last call left it.  *)
ResetNot(q) == q

(* js_sqlite_stmt_reset: what is bound stays bound.  *)
Reset(q) == [q EXCEPT !.cur = 0, !.ready = TRUE]

(* js_sqlite_stmt_step of a statement that inserts.  *)
Insert(q) ==
  [q |-> [q EXCEPT !.ready = FALSE], ok |-> ~Busy(q.conn),
   new |-> IF Busy(q.conn) THEN <<>> ELSE <<[js |-> q.bound, db |-> Stored(q.bound)]>>]

(* One step of a statement that selects, and steps until it is done.         *)
StepRow(q) == [q EXCEPT !.ready = FALSE, !.cur = IF q.cur < Len(table) THEN q.cur + 1 ELSE 0]
StepAll(q) == [q EXCEPT !.ready = FALSE, !.cur = 0]

-----------------------------------------------------------------------------
(* DatabaseSync.                                                             *)

SqOpen(c) ==
  /\ db.held /\ ~db.isOpen /\ c = 1 + Cardinality({d \in Conns : conn[d].lib # "none"})
  /\ conn' = [conn EXCEPT ![c] = [lib |-> "open", ptr |-> TRUE, obj |-> TRUE, closes |-> 0]]
  /\ db' = [db EXCEPT !.cur = c, !.isOpen = TRUE]
  /\ answer' = NoAnswer
  /\ UNCHANGED <<stmt, table>>

(* The constructor throws: the connection SQLite made to hold the error is   *)
(* closed, the database keeps the old one.                                   *)
SqOpenFails ==
  /\ db.held /\ ~db.isOpen
  /\ answer' = [NoAnswer EXCEPT !.ok = FALSE]
  /\ UNCHANGED <<conn, stmt, table, db>>

(* js_sqlite_db_close.  *)
Closed(c) == [CloseV2(conn, stmt, c) EXCEPT ![c].ptr = FALSE]

SqClose ==
  /\ db.held /\ db.isOpen
  /\ conn' = Closed(db.cur)
  /\ db' = [db EXCEPT !.isOpen = FALSE]
  /\ answer' = NoAnswer
  /\ UNCHANGED <<stmt, table>>

(* exec(sql), with a statement that inserts a row.  *)
SqExec ==
  /\ db.held /\ db.isOpen /\ Len(table) < MaxRows
  /\ LET new == IF Busy(db.cur) THEN <<>> ELSE <<[js |-> "wide", db |-> Stored("wide")]>> IN
     /\ table' = table \o new
     /\ answer' = [NoAnswer EXCEPT !.op = "exec", !.ok = ~Busy(db.cur), !.busy = Busy(db.cur),
                                   !.arg = <<"wide">>, !.wrote = new]
  /\ UNCHANGED <<conn, stmt, db>>

SqPrepare(s, kind) ==
  /\ db.held /\ db.isOpen /\ s = 1 + Cardinality({t \in Stmts : stmt[t].lib # "none"})
  /\ stmt' = [stmt EXCEPT ![s].kind = kind, ![s].conn = db.cur, ![s].lib = "live", ![s].held = TRUE]
  /\ answer' = NoAnswer
  /\ UNCHANGED <<conn, table, db>>

-----------------------------------------------------------------------------
(* StatementSync.                                                            *)

SetReadBigInts(s) ==
  /\ stmt[s].held /\ stmt[s].kind = "select" /\ ~stmt[s].big
  /\ stmt' = [stmt EXCEPT ![s].big = TRUE]
  /\ answer' = NoAnswer
  /\ UNCHANGED <<conn, table, db>>

(* reset, #bindParams and step of run(), with a statement that inserts.      *)
RunSteps(q, params) ==
  LET b == BindParams(Reset(q), params)
      i == Insert(b.q)
  IN  IF b.ok THEN [q |-> i.q, ok |-> i.ok, busy |-> ~i.ok, new |-> i.new]
      ELSE [q |-> b.q, ok |-> FALSE, busy |-> FALSE, new |-> <<>>]

(* run(): the counters are read from the connection, which may be closed.    *)
SqRun(s, params) ==
  /\ stmt[s].held /\ stmt[s].kind = "insert" /\ Len(table) < MaxRows
  /\ LET r == RunSteps(stmt[s], params) IN
     /\ stmt' = [stmt EXCEPT ![s] = r.q]
     /\ table' = table \o r.new
     /\ answer' = [NoAnswer EXCEPT !.op = "run", !.ok = r.ok /\ conn[stmt[s].conn].ptr,
                                   !.busy = r.busy, !.closed = ~conn[stmt[s].conn].ptr,
                                   !.arg = params, !.wrote = r.new]
  /\ UNCHANGED <<conn, db>>

Shown(q, rows) == [i \in DOMAIN rows |-> ReadBack(rows[i].db, q.big)]

(* get() and all().  get() leaves the statement on the row it has read.      *)
SqQuery(s, op, params) ==
  /\ stmt[s].held /\ stmt[s].kind = "select"
  /\ LET b == BindParams(Reset(stmt[s]), params)
         q == IF ~b.ok THEN b.q ELSE IF op = "get" THEN StepRow(b.q) ELSE StepAll(b.q)
         from == b.q.cur + 1
         rows == IF op = "get" THEN SubSeq(table, from, from) ELSE SubSeq(table, from, Len(table))
     IN  /\ stmt' = [stmt EXCEPT ![s] = q]
         /\ answer' = [NoAnswer EXCEPT !.op = op, !.ok = b.ok, !.arg = params, !.big = stmt[s].big,
                         !.rows = IF ~b.ok THEN <<>>
                                  ELSE Shown(stmt[s], IF from > Len(table) THEN <<>> ELSE rows)]
  /\ UNCHANGED <<conn, table, db>>

-----------------------------------------------------------------------------
(* The program drops an object; the collector finalizes what nobody holds.   *)

SqDropDb ==
  /\ db.held
  /\ db' = [cur |-> NoConn, isOpen |-> FALSE, held |-> FALSE]
  /\ answer' = NoAnswer
  /\ UNCHANGED <<conn, stmt, table>>

SqDropStmt(s) ==
  /\ stmt[s].held
  /\ stmt' = [stmt EXCEPT ![s].held = FALSE]
  /\ answer' = NoAnswer
  /\ UNCHANGED <<conn, table, db>>

(* Mutant: the object is freed and its statement is not.  *)
StmtFinalizedLeaks(s) == [conns |-> conn, stmts |-> [stmt EXCEPT ![s].lib = "leaked"]]

(* js_sqlite_stmt_finalizer.  *)
StmtFinalized(s) ==
  [conns |-> Finalized(conn, stmt, s), stmts |-> [stmt EXCEPT ![s] = [NoStmt EXCEPT !.lib = "freed"]]]

SqStmtFinalizer(s) ==
  /\ stmt[s].lib = "live" /\ ~stmt[s].held
  /\ conn' = StmtFinalized(s).conns
  /\ stmt' = StmtFinalized(s).stmts
  /\ answer' = NoAnswer
  /\ UNCHANGED <<table, db>>

(* Who holds the object of the connection c: the database and the statements. *)
Holds(c) == (db.held /\ db.cur = c) \/ \E s \in Stmts : stmt[s].held /\ stmt[s].conn = c

(* js_sqlite_db_finalizer.  *)
SqDbFinalizer(c) ==
  /\ conn[c].obj /\ ~Holds(c)
  /\ conn' = [(IF conn[c].ptr THEN CloseV2(conn, stmt, c) ELSE conn)
                EXCEPT ![c].obj = FALSE, ![c].ptr = FALSE]
  /\ answer' = NoAnswer
  /\ UNCHANGED <<stmt, table, db>>

(* None, one, or one too many; for a statement that selects one is too many, *)
(* whatever its value.                                                       *)
Params == {<<>>} \cup {<<v>> : v \in Values} \cup {<<"wide", "wide">>}

SqGc == (\E s \in Stmts : SqStmtFinalizer(s)) \/ (\E c \in Conns : SqDbFinalizer(c))

SqNext ==
  \/ \E c \in Conns : SqOpen(c)
  \/ SqOpenFails \/ SqClose \/ SqExec \/ SqDropDb
  \/ \E s \in Stmts :
       \/ \E kind \in {"insert", "select"} : SqPrepare(s, kind)
       \/ SetReadBigInts(s)
       \/ \E params \in Params : SqRun(s, params)
       \/ \E op \in {"get", "all"}, params \in {<<>>, <<"wide">>} : SqQuery(s, op, params)
       \/ SqDropStmt(s)
  \/ SqGc

(* Reference counting frees what is dropped.  *)
SqFairness == WF_sqVars(SqGc)

-----------------------------------------------------------------------------
SqTypeOK ==
  /\ \A c \in Conns : conn[c].lib \in {"none", "open", "zombie", "freed"}
  /\ \A s \in Stmts : stmt[s].lib \in {"none", "live", "freed"} /\ stmt[s].cur \in 0..MaxRows
  /\ Len(table) =< MaxRows

(* A connection is closed once, by close() or by its finalizer, and is never *)
(* gone while a statement of it can still run, in whatever order the         *)
(* collector takes the objects.                                              *)
ConnectionIsSound ==
  /\ \A c \in Conns : conn[c].closes =< 1
  /\ \A s \in Stmts : stmt[s].lib = "live" => conn[stmt[s].conn].lib \in {"open", "zombie"}

(* What a call with all its parameters does depends on these and on the      *)
(* table and not on what was done with the statement before: an insert       *)
(* writes its own value, unless the file is in use, and all() returns every  *)
(* row.  (With fewer parameters a statement uses what was bound earlier.)    *)
CallIsSelfContained ==
  /\ answer.op = "run" /\ Len(answer.arg) = 1 /\ answer.arg # <<"object">> /\ ~answer.busy
       => Len(answer.wrote) = 1 /\ answer.wrote[1].js = answer.arg[1]
  /\ answer.op = "all" /\ answer.arg = <<>> => answer.ok /\ Len(answer.rows) = Len(table)
  /\ answer.op = "get" /\ answer.arg = <<>>
       => answer.ok /\ Len(answer.rows) = IF table = <<>> THEN 0 ELSE 1

(* What the program is to get back for a value it has stored.                *)
Expected(v, big) ==
  CASE v = "null"                 -> "null"
    [] v \in {"true", "int"}      -> IF big THEN "int32n" ELSE "int32"
    [] v = "wide"                 -> IF big THEN "int53n" ELSE "int53"
    [] v = "real"                 -> "real"
    [] v = "text"                 -> "text"
    [] v \in {"buffer", "bytes"}  -> "bytes"
    [] OTHER                      -> "unclear"

(* A value comes back as it went in.  Not so are integers beyond 2^53, text  *)
(* with a NUL in it, and whole floats when BigInts were asked for.           *)
ValuesReadBack ==
  answer.op \in {"all", "get"} =>
    \A i \in DOMAIN answer.rows :
      Expected(table[i].js, answer.big) \in {"unclear", answer.rows[i]}

(* A run() that throws has written nothing, unless its database was closed:  *)
(* then the row is written and the counters cannot be read.                  *)
ThrownRunWroteNothing ==
  answer.op = "run" /\ ~answer.ok /\ ~answer.closed => answer.wrote = <<>>

(* A connection the program has dropped, with all its statements, is freed.  *)
ConnectionIsFreed ==
  \A c \in Conns : conn[c].lib # "none" /\ ~Holds(c) ~> conn[c].lib = "freed"

(* A statement used again and again, with close() and the collector between: *)
(* its connection is there, its calls do not depend on earlier ones, values  *)
(* come back, and a run that throws has written nothing.                     *)
SqliteInv ==
  SqTypeOK /\ ConnectionIsSound /\ CallIsSelfContained /\ ValuesReadBack /\ ThrownRunWroteNothing
=============================================================================
