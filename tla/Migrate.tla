------------------------------- MODULE Migrate ------------------------------
(***************************************************************************)
(* Opening the database (store.go, Open and migrate): the base schema,     *)
(* then the migrations the file has not had, each in a transaction, while  *)
(* other processes open the same file, die and try again.                  *)
(*                                                                         *)
(* Of a statement the model keeps whether it fails on what is there        *)
(* already: ALTER and CREATE do, CREATE ... IF NOT EXISTS does not.        *)
(***************************************************************************)
EXTENDS Naturals, Sequences, FiniteSets

CONSTANTS
  Procs,     \* processes that open the database
  Versions,  \* the versions it may have been left at; 0 also stands for no file
  AloneBelow \* a process that opens a database below this version does so alone

VARIABLES
  db,     \* what is committed: ver (PRAGMA user_version), has (tables, columns, views),
          \* plain (where the plain text of the commands is)
  holder, \* who holds the write lock, or {}
  work,   \* what the holder's transaction would commit
  pc,     \* "idle", "opened", "begin", "tx", "vacuum", "ready", or how Open failed
  v, startV, i \* locals of migrate; i counts the statements of the transaction
vars == <<db, holder, work, pc, v, startV, i>>

Add(x)    == [op |-> "add", of |-> x]
Ensure(x) == [op |-> "ensure", of |-> x]
Do(x)     == [op |-> "do", of |-> x]

migrations == <<
  <<Add("machine"), Add("host"), Add("origin_seq"), Ensure("idx_origin"), Ensure("import_state")>>,
  <<Ensure("sync_state")>>,
  <<Add("plain_z"), Do("fill"), Do("drop"), Add("view"), Do("create"), Do("rebuild")>>,
  <<Add("note")>> >>

Base == {"commands", "commands_fts"}
Names(m) == {migrations[m][k].of : k \in {k \in DOMAIN migrations[m] : migrations[m][k].op # "do"}}
SchemaAt(n) == Base \cup UNION {Names(m) : m \in 1..n}
PlainAt(n)  == IF n < 3 THEN {"index"} ELSE {"column"}

Nobody == {}
Init ==
  /\ \E n \in Versions : db \in [ver : {n}, has : {SchemaAt(n)} \cup (IF n = 0 THEN {{}} ELSE {}),
                                 plain : {PlainAt(n)}]
  /\ holder = Nobody /\ work = db
  /\ pc = [p \in Procs |-> "idle"]
  /\ v = [p \in Procs |-> 0] /\ startV = v /\ i = v

-----------------------------------------------------------------------------
\* Open: the directory, the file, the base schema; all of it IF NOT EXISTS.
Open(p) ==
  /\ pc[p] = "idle" /\ holder = Nobody
  /\ db' = [db EXCEPT !.has = @ \cup Base]
  /\ pc' = [pc EXCEPT ![p] = "opened"]
  /\ UNCHANGED <<holder, work, v, startV, i>>

\* What migrate does once it has run the migrations up to n.
After(p, n, from) ==
  IF n < Len(migrations) THEN "begin"
  ELSE IF from < 3 THEN "vacuum" ELSE "ready"

Migrating == {p \in Procs : pc[p] \in {"begin", "tx"}}

\* PRAGMA user_version, outside any transaction.
ReadVersion(p) ==
  /\ pc[p] = "opened"
  /\ db.ver < AloneBelow => Migrating = {}
  /\ \A q \in Migrating : v[q] >= AloneBelow
  /\ v' = [v EXCEPT ![p] = db.ver] /\ startV' = [startV EXCEPT ![p] = db.ver]
  /\ pc' = [pc EXCEPT ![p] = After(p, db.ver, db.ver)]
  /\ UNCHANGED <<db, holder, work, i>>

Begin(p) ==
  /\ pc[p] = "begin" /\ holder = Nobody
  /\ holder' = {p} /\ work' = db
  /\ i' = [i EXCEPT ![p] = 1]
  /\ pc' = [pc EXCEPT ![p] = "tx"]
  /\ UNCHANGED <<db, v, startV>>

\* The lock was not to be had within busy_timeout.
Busy(p) ==
  /\ pc[p] \in {"begin", "vacuum"} /\ holder # Nobody
  /\ pc' = [pc EXCEPT ![p] = "busy"]
  /\ UNCHANGED <<db, holder, work, v, startV, i>>

Statement(p) == migrations[v[p] + 1][i[p]]

Fails(s) ==
  \/ s.op = "add" /\ s.of \in work.has
  \/ s.of = "create" /\ "commands_fts" \in work.has

Effect(s) ==
  CASE s.op # "do" -> [work EXCEPT !.has = @ \cup {s.of}]
    [] s.of = "fill" ->
         [work EXCEPT !.plain = IF "index" \in @ THEN @ \cup {"column"} ELSE {}]
    [] s.of = "drop" ->
         [work EXCEPT !.has = @ \ {"commands_fts"}, !.plain = @ \ {"index"}]
    [] s.of = "create" -> [work EXCEPT !.has = @ \cup {"commands_fts"}]
    [] OTHER -> work

\* Mutant: each statement commits by itself.
ExecAutoCommit(p) ==
  /\ pc[p] = "tx" /\ i[p] <= Len(migrations[v[p] + 1]) /\ ~Fails(Statement(p))
  /\ work' = Effect(Statement(p)) /\ db' = work'
  /\ i' = [i EXCEPT ![p] = @ + 1]
  /\ UNCHANGED <<holder, pc, v, startV>>

Exec(p) ==
  /\ pc[p] = "tx" /\ i[p] <= Len(migrations[v[p] + 1]) /\ ~Fails(Statement(p))
  /\ work' = Effect(Statement(p))
  /\ i' = [i EXCEPT ![p] = @ + 1]
  /\ UNCHANGED <<db, holder, pc, v, startV>>

\* A statement fails: on what it finds, or for want of space.
Rollback(p) ==
  /\ pc[p] = "tx" /\ i[p] <= Len(migrations[v[p] + 1])
  /\ pc' = [pc EXCEPT ![p] = IF Fails(Statement(p)) THEN "refused" ELSE "failed"]
  /\ holder' = Nobody /\ work' = db
  /\ UNCHANGED <<db, v, startV, i>>

\* PRAGMA user_version=v+1 is part of the transaction.
Commit(p) ==
  /\ pc[p] = "tx" /\ i[p] > Len(migrations[v[p] + 1])
  /\ db' = [work EXCEPT !.ver = v[p] + 1] /\ work' = db'
  /\ holder' = Nobody
  /\ v' = [v EXCEPT ![p] = @ + 1]
  /\ pc' = [pc EXCEPT ![p] = After(p, v'[p], startV[p])]
  /\ UNCHANGED <<startV, i>>

\* VACUUM, in no transaction; when it fails so does Open.
Vacuum(p) ==
  /\ pc[p] = "vacuum" /\ holder = Nobody
  /\ pc' = [pc EXCEPT ![p] = "ready"] \/ pc' = [pc EXCEPT ![p] = "failed"]
  /\ UNCHANGED <<db, holder, work, v, startV, i>>

\* The process ends, wherever it is; the user may run it again.
Ends(p) ==
  /\ pc[p] # "idle"
  /\ pc' = [pc EXCEPT ![p] = "idle"]
  /\ IF p \in holder THEN holder' = Nobody /\ work' = db ELSE UNCHANGED <<holder, work>>
  /\ UNCHANGED <<db, v, startV, i>>

Step(p) == Open(p) \/ ReadVersion(p) \/ Begin(p) \/ Busy(p) \/ Exec(p) \/ Rollback(p)
           \/ Commit(p) \/ Vacuum(p) \/ Ends(p)
Next == \E p \in Procs : Step(p)
Spec == Init /\ [][Next]_vars

-----------------------------------------------------------------------------
\* "PRAGMA user_version tracks how many have run" (store.go:90): the file has
\* the tables, columns and views of just the migrations it counts, and can
\* therefore be opened again, whoever died at whatever point.
VersionTracks ==
  db.has \in {{}, SchemaAt(db.ver)}

\* The plain text of commands recorded by an older version is somewhere, and
\* where the readers of that version look for it (migration 3).
PlainKept == db.plain = PlainAt(db.ver)

\* Both: the version tells which migrations have run, and they lose no
\* recorded text.
MigrateOnce == VersionTracks /\ PlainKept
=============================================================================
