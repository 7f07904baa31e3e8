----------------------------- MODULE StoreIndex -----------------------------
(***************************************************************************)
(* The commands table and its full-text index (internal/store).  The index *)
(* is an external-content FTS5 table: it holds no text, only postings, and *)
(* a posting goes away when FTS5 is told to `delete` it with the text it   *)
(* was made from.  Table and index are written by separate SQL statements, *)
(* each of which commits by itself, and every recorder, `exec`, `sync      *)
(* import`, `prune`, `delete`, `redact` and `doctor --reindex` is a process*)
(* on the one database file.  A step here is one statement.                *)
(***************************************************************************)
EXTENDS Integers, FiniteSets

CONSTANTS
  Procs,       \* processes that have the database open
  Texts,       \* what a command may say (command line and output together)
  Redacted,    \* Redacted[t]: t with its secrets masked
  Blank,       \* the indexable text of a row whose plain_z is NULL
  Keys,        \* (machine, origin_seq) pairs of imported rows
  Null,        \* no plain_z, no key
  Times,       \* when commands started
  MaxId,       \* bound: the highest row id
  MaxAdds,     \* bound: rows ever inserted
  MaxCrashes,  \* bound: processes that die between two statements
  OldBinary    \* whether a pre-0.4 binary also writes to the database

ASSUME IndexAssumption ==
  /\ Blank \notin Texts /\ Null \notin Texts \cup Keys \cup {Blank}
  /\ Redacted \in [Texts -> Texts]
  /\ \A t \in Texts : Redacted[Redacted[t]] = Redacted[t]
  /\ Times \subseteq Nat
  /\ Texts # {}
  /\ MaxId \in Nat \ {0} /\ MaxAdds \in Nat /\ MaxCrashes \in Nat
  /\ OldBinary \in BOOLEAN

VARIABLES
  rows,      \* the commands table
  posted,    \* posted[id][t]: times t was posted under id, less times deleted
  job,       \* job[p]: the operation p is in the middle of
  trust,     \* history: whether anything can have made the index drift
  adds, crashes

vars == <<rows, posted, job, trust, adds, crashes>>

Ids == 1..MaxId
Indexable == Texts \cup {Blank}

Row == [id : Ids, raw : Texts, plain : Texts \cup {Null},
        key : Keys \cup {Null}, at : Times, scrubbed : BOOLEAN]
Job == [kind : {"none", "add", "upkeep"},
        next : {"start", "post", "deleteRow", "pruneRows", "unpost", "update",
                "repost", "fill"},
        id : Ids, text : Texts, upto : Nat \X Nat,
        fixes : SUBSET [id : Ids, text : Texts]]

\* The text FTS5 reads from, and is given for, a row (the commands_plain view).
Plain(r) == IF r.plain = Null THEN Blank ELSE r.plain

SomeText == CHOOSE t \in Texts : TRUE
Idle == [kind |-> "none", next |-> "start", id |-> 1, text |-> SomeText,
         upto |-> <<0, 0>>, fixes |-> {}]

TypeOK ==
  /\ rows \subseteq Row
  /\ \A r, s \in rows : r.id = s.id => r = s
  /\ posted \in [Ids -> [Indexable -> Int]]
  /\ job \in [Procs -> Job]
  /\ trust \in {"yes", "no", "repair"}
  /\ adds \in Nat /\ crashes \in Nat

Init ==
  /\ rows = {}
  /\ posted = [id \in Ids |-> [t \in Indexable |-> 0]]
  /\ job = [p \in Procs |-> Idle]
  /\ trust = "yes"
  /\ adds = 0 /\ crashes = 0

(***************************************************************************)
(* trust stays "yes" as long as no process dies between two statements, no *)
(* old binary writes, and no upkeep (delete, prune, redact, reindex)       *)
(* overlaps another operation.  A reindex that runs alone restores it.     *)
(***************************************************************************)
Overlaps(p, kind) ==
  \E q \in Procs \ {p} : /\ job[q].kind # "none"
                         /\ kind = "upkeep" \/ job[q].kind = "upkeep"

Starts(p, kind) ==
  /\ job[p].kind = "none"
  /\ trust' = IF Overlaps(p, kind) THEN "no" ELSE trust
-----------------------------------------------------------------------------
(***************************************************************************)
(* Statements.                                                             *)
(***************************************************************************)

\* A bug: the next id is the number of rows plus one.
IsNextIdByCount(id) == id = Cardinality(rows) + 1

IsNextId(id) ==
  /\ id = 1 \/ \E r \in rows : id = r.id + 1
  /\ \A r \in rows : r.id < id

Post(id, t) == posted' = [posted EXCEPT ![id][t] = @ + 1]

\* A bug: the index is told to delete the text as it will be after redaction.
UnpostRedacted(gone) ==
  posted' = [id \in Ids |-> [t \in Indexable |->
               posted[id][t] - Cardinality({r \in gone : r.id = id
                                              /\ Redacted[r.raw] = t})]]

\* INSERT INTO commands_fts(commands_fts, ...) SELECT 'delete', ... WHERE
Unpost(gone) ==
  posted' = [id \in Ids |-> [t \in Indexable |->
               posted[id][t] - Cardinality({r \in gone : r.id = id /\ Plain(r) = t})]]

NewRow(id, t, key, at) == [id |-> id, raw |-> t, plain |-> t, key |-> key,
                           at |-> at, scrubbed |-> FALSE]
-----------------------------------------------------------------------------
(***************************************************************************)
(* Operations.                                                             *)
(***************************************************************************)

\* First statement of AddCommand (no key) and of AddImported, which is an
\* INSERT OR IGNORE on the key: nothing more happens when the key is known.
InsertRow(p, t, key, at) ==
  /\ Starts(p, "add") /\ adds < MaxAdds
  /\ key = Null \/ \A r \in rows : r.key # key
  /\ \E id \in Ids :
       /\ IsNextId(id)
       /\ rows' = rows \cup {NewRow(id, t, key, at)}
       /\ job' = [job EXCEPT ![p] = [Idle EXCEPT !.kind = "add", !.next = "post",
                                                 !.id = id, !.text = t]]
  /\ adds' = adds + 1
  /\ UNCHANGED <<posted, crashes>>

\* Their second statement.
PostRow(p) ==
  /\ job[p].next = "post"
  /\ Post(job[p].id, job[p].text)
  /\ job' = [job EXCEPT ![p] = Idle]
  /\ UNCHANGED <<rows, trust, adds, crashes>>

\* AddHistory inserts and indexes an entry in one transaction.
AddHistory(p, t, key, at) ==
  /\ Starts(p, "add") /\ adds < MaxAdds
  /\ \A r \in rows : r.key # key
  /\ \E id \in Ids :
       /\ IsNextId(id)
       /\ rows' = rows \cup {NewRow(id, t, key, at)}
       /\ Post(id, t)
  /\ adds' = adds + 1
  /\ UNCHANGED <<job, crashes>>

\* A pre-0.4 binary stores no plain_z and posts the text as ever.
OldInsert(p, t, at) ==
  /\ OldBinary
  /\ job[p].kind = "none" /\ adds < MaxAdds
  /\ \E id \in Ids :
       /\ IsNextId(id)
       /\ rows' = rows \cup {[NewRow(id, t, Null, at) EXCEPT !.plain = Null]}
       /\ Post(id, t)
  /\ adds' = adds + 1
  /\ trust' = "no"
  /\ UNCHANGED <<job, crashes>>

\* Delete: ftsDelete, then the row.
StartDelete(p, id) ==
  /\ Starts(p, "upkeep")
  /\ Unpost({r \in rows : r.id = id})
  /\ job' = [job EXCEPT ![p] = [Idle EXCEPT !.kind = "upkeep",
                                            !.next = "deleteRow", !.id = id]]
  /\ UNCHANGED <<rows, adds, crashes>>

DeleteRow(p) ==
  /\ job[p].next = "deleteRow"
  /\ rows' = {r \in rows : r.id # job[p].id}
  /\ job' = [job EXCEPT ![p] = Idle]
  /\ UNCHANGED <<posted, trust, adds, crashes>>

\* The rows up to a point of the timeline (started_at, then id).
UpTo(point) ==
  {r \in rows : r.at < point[1] \/ (r.at = point[1] /\ r.id <= point[2])}

\* Prune takes everything before a time, a round of PruneToSize everything up
\* to the row with which enough is freed; both unpost it, then delete it.
StartPrune(p) ==
  /\ Starts(p, "upkeep")
  /\ \E point \in {<<at, 0>> : at \in Times} \cup {<<r.at, r.id>> : r \in rows} :
       /\ Unpost(UpTo(point))
       /\ job' = [job EXCEPT ![p] = [Idle EXCEPT !.kind = "upkeep",
                                                 !.next = "pruneRows",
                                                 !.upto = point]]
  /\ UNCHANGED <<rows, adds, crashes>>

\* A bug: the rows deleted are all those of the last one's time.
PruneRowsSameTime(p) ==
  /\ job[p].next = "pruneRows"
  /\ rows' = {r \in rows : r.at > job[p].upto[1]}
  /\ job' = [job EXCEPT ![p] = Idle]
  /\ UNCHANGED <<posted, trust, adds, crashes>>

PruneRows(p) ==
  /\ job[p].next = "pruneRows"
  /\ rows' = rows \ UpTo(job[p].upto)
  /\ job' = [job EXCEPT ![p] = Idle]
  /\ UNCHANGED <<posted, trust, adds, crashes>>

\* cmdRedact reads an entry and masks it; with nothing to mask it is done.
StartRedact(p) ==
  /\ Starts(p, "upkeep")
  /\ \E r \in rows :
       /\ Redacted[r.raw] # r.raw
       /\ job' = [job EXCEPT ![p] =
                    [Idle EXCEPT !.kind = "upkeep", !.next = "unpost",
                                 !.id = r.id, !.text = Redacted[r.raw]]]
  /\ UNCHANGED <<rows, posted, adds, crashes>>

\* UpdateOutput: ftsDelete, UPDATE, INSERT into the index.
RedactUnpost(p) ==
  /\ job[p].next = "unpost"
  /\ Unpost({r \in rows : r.id = job[p].id})
  /\ job' = [job EXCEPT ![p].next = "update"]
  /\ UNCHANGED <<rows, trust, adds, crashes>>

RedactUpdate(p) ==
  /\ job[p].next = "update"
  /\ rows' = {IF r.id = job[p].id
                THEN [r EXCEPT !.raw = job[p].text, !.plain = job[p].text]
                ELSE r : r \in rows}
  /\ job' = [job EXCEPT ![p].next = "repost"]
  /\ UNCHANGED <<posted, trust, adds, crashes>>

RedactPost(p) ==
  /\ job[p].next = "repost"
  /\ Post(job[p].id, job[p].text)
  /\ rows' = {IF r.id = job[p].id THEN [r EXCEPT !.scrubbed = TRUE] ELSE r :
                r \in rows}
  /\ job' = [job EXCEPT ![p] = Idle]
  /\ UNCHANGED <<trust, adds, crashes>>

\* RebuildFTS: collect the rows without plain_z, fill them in one by one
\* from their raw output, then let FTS5 index the view anew.
StartReindex(p) ==
  /\ job[p].kind = "none"
  /\ trust' = IF \E q \in Procs \ {p} : job[q].kind # "none" THEN "no"
              ELSE IF trust = "yes" THEN "yes" ELSE "repair"
  /\ job' = [job EXCEPT ![p] =
               [Idle EXCEPT !.kind = "upkeep", !.next = "fill",
                            !.fixes = {[id |-> r.id, text |-> r.raw] :
                                         r \in {s \in rows : s.plain = Null}}]]
  /\ UNCHANGED <<rows, posted, adds, crashes>>

FillPlain(p) ==
  /\ job[p].next = "fill"
  /\ \E f \in job[p].fixes :
       /\ rows' = {IF r.id = f.id THEN [r EXCEPT !.plain = f.text] ELSE r :
                     r \in rows}
       /\ job' = [job EXCEPT ![p].fixes = @ \ {f}]
  /\ UNCHANGED <<posted, trust, adds, crashes>>

Rebuild(p) ==
  /\ job[p].next = "fill" /\ job[p].fixes = {}
  /\ posted' = [id \in Ids |-> [t \in Indexable |->
                  Cardinality({r \in rows : r.id = id /\ Plain(r) = t})]]
  /\ trust' = IF trust = "repair" THEN "yes" ELSE trust
  /\ job' = [job EXCEPT ![p] = Idle]
  /\ UNCHANGED <<rows, adds, crashes>>

\* A process dies, or a statement fails (SQLITE_BUSY, a full disk) and the
\* operation gives up.
Crash(p) ==
  /\ job[p].kind # "none" /\ crashes < MaxCrashes
  /\ job' = [job EXCEPT ![p] = Idle]
  /\ crashes' = crashes + 1
  /\ trust' = "no"
  /\ UNCHANGED <<rows, posted, adds>>

Add(p) ==
  \/ \E t \in Texts, at \in Times :
       \/ \E key \in Keys \cup {Null} : InsertRow(p, t, key, at)
       \/ \E key \in Keys : AddHistory(p, t, key, at)
       \/ OldInsert(p, t, at)
  \/ PostRow(p)

Upkeep(p) ==
  \/ \E id \in Ids : StartDelete(p, id)
  \/ DeleteRow(p)
  \/ StartPrune(p) \/ PruneRows(p)
  \/ StartRedact(p) \/ RedactUnpost(p) \/ RedactUpdate(p) \/ RedactPost(p)
  \/ StartReindex(p) \/ FillPlain(p) \/ Rebuild(p)

Next == \E p \in Procs : Add(p) \/ Upkeep(p) \/ Crash(p)

Spec == Init /\ [][Next]_vars
-----------------------------------------------------------------------------
(***************************************************************************)
(* Properties.                                                             *)
(***************************************************************************)

\* The index and the table agree: a row's whole text is posted under its id
\* exactly once, and nothing else is.
Agree ==
  /\ \A r \in rows : r.plain # Null
  /\ \A id \in Ids, t \in Indexable :
       posted[id][t] = IF \E r \in rows : r.id = id /\ Plain(r) = t THEN 1 ELSE 0

\* Recorders and imports may overlap as they like and upkeep may follow
\* upkeep, over ids that are given out again: unless a process died midway,
\* an old binary wrote, or an upkeep command overlapped another operation,
\* index and table agree whenever nobody is at work -- and if one of these
\* did happen, they agree again once a reindex has run alone (RebuildFTS,
\* "safety valve for index drift").
NoDrift == trust = "yes" /\ (\A p \in Procs : job[p].kind = "none") => Agree

\* The plain text of a row, when it has one, is that of its own output
\* (RebuildFTS: "regenerate it from the stored raw output").
PlainIsOwn == \A r \in rows : r.plain \in {Null, r.raw}

\* Once redact is done with an entry, neither the entry nor the index holds
\* what it masked (cmdRedact: "the command line, the raw output, and the
\* search index are all rewritten in place").
Scrubbed ==
  \A r \in rows : r.scrubbed =>
    /\ Redacted[r.raw] = r.raw
    /\ \A t \in Texts : Redacted[t] # t =>
         /\ r.plain # t
         /\ posted[r.id][t] <= 0

\* The `delete` command is only ever given a posting that is there (Prune,
\* UpdateOutput: it "must be given the originally indexed text").
DeletesWhatIsPosted ==
  [][\A p \in Procs, id \in Ids, t \in Indexable :
       job[p].kind = "none" /\ job'[p].next \in {"deleteRow", "pruneRows"}
         => posted'[id][t] >= 0 \/ posted'[id][t] = posted[id][t]]_vars
=============================================================================
