------------------------------ MODULE SyncLog ------------------------------
(***************************************************************************)
(* Cross-machine sync (internal/synclog, and the sync half of              *)
(* internal/store).  Every machine has one SQLite database, whose rows are *)
(* its own commands and the ones imported from others, and one log: the    *)
(* segment files it writes into its directory of the shared tree.  A file  *)
(* synchroniser outside the program copies those files to the others.      *)
(* Exporters and Importers are processes (`backscroll sync export` and     *)
(* `sync import`), several of which may run on one machine; each of their  *)
(* steps is one SQL statement or one file operation, and each may die      *)
(* between two of them.                                                    *)
(***************************************************************************)
EXTENDS Naturals, FiniteSets

CONSTANTS
  Machines,      \* machine ids; numbers, because ReadDir lists them in order
  Exporters,     \* processes running `sync export`
  Importers,     \* processes running `sync import`
  Home,          \* the machine each process runs on
  Recorders,     \* bound: the machines on which commands are recorded
  Local,         \* the value of the machine column of a local row (NULL)
  Hist,          \* the machine column of a shell-history row ("hist:...")
  HistSeqs,      \* sequence numbers of the shell-history file's entries
  SegCap,        \* records per segment (segCap bounds its bytes)
  Batch,         \* rows LocalAfter returns at a time (exportBatch)
  MaxCommands,   \* bound: commands ever recorded, on all machines together
  MaxId,         \* bound: the highest row id of any database
  MaxCrashes,    \* bound: processes that ever die or fail midway
  InOrder,       \* the synchroniser delivers a log's segments in their order
  Torn,          \* a segment may be visible before all its bytes are
  DeleteNewest   \* deletions may remove the row with the highest id

ASSUME SyncAssumption ==
  /\ Machines \subseteq Nat \ {0}
  /\ Home \in [Exporters \cup Importers -> Machines]
  /\ Recorders \subseteq Machines
  /\ Local \notin Machines /\ Hist \notin Machines /\ Local # Hist
  /\ HistSeqs \subseteq Nat \ {0}
  /\ SegCap \in Nat \ {0} /\ Batch \in Nat \ {0}
  /\ MaxCommands \in Nat /\ MaxId \in Nat /\ MaxCrashes \in Nat
  /\ InOrder \in BOOLEAN /\ Torn \in BOOLEAN /\ DeleteNewest \in BOOLEAN

VARIABLES
  db,         \* db[m]: the rows of m's commands table
  exportHwm,  \* exportHwm[m]: sync_state.export_local_id
  importHwm,  \* importHwm[n][m]: import_state.last_seq of m, in n's database
  log,        \* log[m]: the segments in m's own log directory
  meta,       \* meta[m]: last_seq in m's meta.json
  view,       \* view[n][m]: whole segments of m's log present at n
  partial,    \* partial[n][m]: names of half-delivered segments at n
  metaSeen,   \* metaSeen[n]: the machines whose meta.json has reached n
  exp,        \* exp[p]: the local variables of exporter p
  imp,        \* imp[p]: the local variables of importer p
  clock,      \* how many commands have been recorded; a command's identity
  crashes,    \* how many processes have died
  journal,    \* history: journal[m], what m ever recorded, as <seq, command>
  imported    \* history: imported[n][m], what n ever inserted of m's journal

dbVars   == <<db, exportHwm, importHwm>>
fileVars == <<log, meta>>
netVars  == <<view, partial, metaSeen>>
history  == <<clock, journal, imported>>
vars == <<dbVars, fileVars, netVars, exp, imp, crashes, history>>

Command == 1..MaxCommands
Record  == [seq : Nat, body : Command \cup {0}]
Origin  == Machines \cup {Local, Hist}
Row     == [id : Nat, by : Origin, seq : Nat, body : Command \cup {0},
            ignored : BOOLEAN]
Name    == [first : Nat, last : Nat]
Segment == [name : Name, recs : SUBSET Record]

ExpState == [pc : {"idle", "scan", "tail", "state", "meta"},
             hwm : Nat, last : Nat, pending : SUBSET Record, todo : SUBSET Row]
ImpState == [pc : {"idle", "dirs", "segs", "recs"}, dirs : SUBSET Machines,
             from : Machines, hwm : Nat, mark : Nat, segs : SUBSET Name,
             last : Nat, recs : SUBSET Record]

IdleExp == [pc |-> "idle", hwm |-> 0, last |-> 0, pending |-> {}, todo |-> {}]
IdleImp(n) == [pc |-> "idle", dirs |-> {}, from |-> n, hwm |-> 0, mark |-> 0,
               segs |-> {}, last |-> 0, recs |-> {}]

TypeOK ==
  /\ db \in [Machines -> SUBSET Row]
  /\ exportHwm \in [Machines -> Nat]
  /\ importHwm \in [Machines -> [Machines -> Nat]]
  /\ log \in [Machines -> SUBSET Segment]
  /\ meta \in [Machines -> Nat]
  /\ view \in [Machines -> [Machines -> SUBSET Segment]]
  /\ partial \in [Machines -> [Machines -> SUBSET Name]]
  /\ metaSeen \in [Machines -> SUBSET Machines]
  /\ exp \in [Exporters -> ExpState]
  /\ imp \in [Importers -> ImpState]
  /\ clock \in 0..MaxCommands
  /\ crashes \in Nat
  /\ journal \in [Machines -> SUBSET Record]
  /\ imported \in [Machines -> [Machines -> SUBSET Record]]

\* Every machine has run `sync init`: its log directory and meta.json exist,
\* its database is new.
Init ==
  /\ db = [m \in Machines |-> {}]
  /\ exportHwm = [m \in Machines |-> 0]
  /\ importHwm = [n \in Machines |-> [m \in Machines |-> 0]]
  /\ log = [m \in Machines |-> {}]
  /\ meta = [m \in Machines |-> 0]
  /\ view = [n \in Machines |-> [m \in Machines |-> {}]]
  /\ partial = [n \in Machines |-> [m \in Machines |-> {}]]
  /\ metaSeen = [n \in Machines |-> {}]
  /\ exp = [p \in Exporters |-> IdleExp]
  /\ imp = [p \in Importers |-> IdleImp(Home[p])]
  /\ clock = 0
  /\ crashes = 0
  /\ journal = [m \in Machines |-> {}]
  /\ imported = [n \in Machines |-> [m \in Machines |-> {}]]
-----------------------------------------------------------------------------
(***************************************************************************)
(* The commands table.                                                     *)
(***************************************************************************)

\* The rowid SQLite gives a new row: `id INTEGER PRIMARY KEY` without
\* AUTOINCREMENT takes one more than the highest id in the table now.
IsNextId(rows, id) ==
  /\ id = 1 \/ \E r \in rows : id = r.id + 1
  /\ \A r \in rows : r.id < id

NextIds(rows) == {id \in 1..MaxId : IsNextId(rows, id)}

\* AddCommand: a recorder stores a command; the ignore file may or may not
\* (it can be edited later) match it when the time comes to export.
AddCommand(m) ==
  /\ m \in Recorders /\ clock < MaxCommands
  /\ clock' = clock + 1
  /\ \E id \in NextIds(db[m]), ign \in BOOLEAN :
       /\ db' = [db EXCEPT ![m] = @ \cup {[id |-> id, by |-> Local, seq |-> 0,
                                           body |-> clock', ignored |-> ign]}]
       /\ journal' = [journal EXCEPT ![m] = @ \cup
                        {[seq |-> id, body |-> clock']}]
  /\ UNCHANGED <<exportHwm, importHwm, fileVars, netVars, exp, imp, crashes,
                 imported>>

\* AddHistory (`backscroll import`), one entry of a shell-history file.
AddHistory(m, s) ==
  /\ \A r \in db[m] : ~(r.by = Hist /\ r.seq = s)      \* INSERT OR IGNORE
  /\ \E id \in NextIds(db[m]) :
       db' = [db EXCEPT ![m] = @ \cup {[id |-> id, by |-> Hist, seq |-> s,
                                        body |-> 0, ignored |-> FALSE]}]
  /\ UNCHANGED <<exportHwm, importHwm, fileVars, netVars, exp, imp, crashes,
                 history>>

\* Which rows a deletion may take: any, or any that leave the highest id.
MayDelete(rows, gone) ==
  \/ DeleteNewest
  \/ \A x \in gone : \E y \in rows \ gone : x.id < y.id

\* Delete (`backscroll delete <id>`).
Delete(m) ==
  /\ \E r \in db[m] : /\ MayDelete(db[m], {r})
                      /\ db' = [db EXCEPT ![m] = @ \ {r}]
  /\ UNCHANGED <<exportHwm, importHwm, fileVars, netVars, exp, imp, crashes,
                 history>>

\* Prune (`backscroll prune --older`): everything that started before the
\* cutoff; a command's number tells when it ran, history entries are oldest.
Prune(m, cutoff) ==
  /\ LET gone == {r \in db[m] : r.body < cutoff}
     IN  /\ gone # {}
         /\ MayDelete(db[m], gone)
         /\ db' = [db EXCEPT ![m] = @ \ gone]
  /\ UNCHANGED <<exportHwm, importHwm, fileVars, netVars, exp, imp, crashes,
                 history>>
-----------------------------------------------------------------------------
(***************************************************************************)
(* Export.                                                                 *)
(***************************************************************************)

\* A bug: the query forgets `machine IS NULL`.
LocalRowsAll(m, after) == {r \in db[m] : r.id > after}

LocalRows(m, after) == {r \in db[m] : r.by = Local /\ r.id > after}

\* LocalAfter: the first rows past a mark, in id order, at most `limit`.
LocalAfter(m, after, limit) ==
  {r \in LocalRows(m, after) :
     Cardinality({x \in LocalRows(m, after) : x.id < r.id}) < limit}

\* A bug: records are numbered by the id after theirs.
AsRecordNext(r) == [seq |-> r.id + 1, body |-> r.body]

AsRecord(r) == [seq |-> r.id, body |-> r.body]

\* The file a run of pending records is sealed into.
SegmentsOf(recs) ==
  LET seqs == {r.seq : r \in recs}
  IN  {seg \in [name : [first : seqs, last : seqs], recs : {recs}] :
         \A q \in seqs : seg.name.first <= q /\ q <= seg.name.last}

\* atomicWrite: the new file takes the place of one of the same name.
WriteSegment(m, seg) ==
  log' = [log EXCEPT ![m] = {s \in @ : s.name # seg.name} \cup {seg}]

\* A bug: the scan starts before the mark, so as to see the row it names again.
StartExportBefore(p) ==
  /\ exp[p].pc = "idle"
  /\ LET hwm == exportHwm[Home[p]]
     IN  exp' = [exp EXCEPT ![p] = [IdleExp EXCEPT !.pc = "scan", !.hwm = hwm,
                                                   !.last = hwm - 1]]
  /\ UNCHANGED <<dbVars, fileVars, netVars, imp, crashes, history>>

StartExport(p) ==
  /\ exp[p].pc = "idle"
  /\ LET hwm == exportHwm[Home[p]]
     IN  exp' = [exp EXCEPT ![p] = [IdleExp EXCEPT !.pc = "scan", !.hwm = hwm,
                                                   !.last = hwm]]
  /\ UNCHANGED <<dbVars, fileVars, netVars, imp, crashes, history>>

\* A bug: the mark is saved when the loop ends, before the last flush.
FetchBatchSaving(p) ==
  /\ exp[p].pc = "scan" /\ exp[p].todo = {}
  /\ LET rows == LocalAfter(Home[p], exp[p].last, Batch)
     IN  /\ exp' = [exp EXCEPT ![p].todo = rows,
                               ![p].pc = IF rows = {} THEN "tail" ELSE "scan"]
         /\ exportHwm' = IF rows = {}
                           THEN [exportHwm EXCEPT ![Home[p]] = exp[p].last]
                           ELSE exportHwm
  /\ UNCHANGED <<db, importHwm, fileVars, netVars, imp, crashes, history>>

\* One query of the export loop; an empty answer ends the loop.
FetchBatch(p) ==
  /\ exp[p].pc = "scan" /\ exp[p].todo = {}
  /\ LET rows == LocalAfter(Home[p], exp[p].last, Batch)
     IN  exp' = [exp EXCEPT ![p].todo = rows,
                            ![p].pc = IF rows = {} THEN "tail" ELSE "scan"]
  /\ UNCHANGED <<dbVars, fileVars, netVars, imp, crashes, history>>

FirstTodo(p, r) ==
  /\ exp[p].pc = "scan"
  /\ r \in exp[p].todo
  /\ \A x \in exp[p].todo : r.id <= x.id

SkipIgnored(p) ==
  /\ \E r \in exp[p].todo :
       /\ FirstTodo(p, r) /\ r.ignored
       /\ exp' = [exp EXCEPT ![p].todo = @ \ {r}, ![p].last = r.id]
  /\ UNCHANGED <<dbVars, fileVars, netVars, imp, crashes, history>>

\* A row joins the pending records, which are flushed when they fill a segment.
AppendRow(p) ==
  /\ \E r \in exp[p].todo :
       /\ FirstTodo(p, r) /\ ~r.ignored
       /\ LET pend == exp[p].pending \cup {AsRecord(r)}
              full == Cardinality(pend) >= SegCap
          IN  /\ exp' = [exp EXCEPT ![p].todo = @ \ {r}, ![p].last = r.id,
                                    ![p].pending = IF full THEN {} ELSE pend]
              /\ IF full THEN \E seg \in SegmentsOf(pend) :
                                WriteSegment(Home[p], seg)
                         ELSE log' = log
  /\ UNCHANGED <<dbVars, meta, netVars, imp, crashes, history>>

\* The flush after the loop; with nothing past the mark, Export is done.
FlushTail(p) ==
  /\ exp[p].pc = "tail"
  /\ IF exp[p].pending = {}
       THEN log' = log
       ELSE \E seg \in SegmentsOf(exp[p].pending) : WriteSegment(Home[p], seg)
  /\ exp' = [exp EXCEPT ![p] = IF exp[p].last > exp[p].hwm
                                 THEN [@ EXCEPT !.pc = "state", !.pending = {}]
                                 ELSE IdleExp]
  /\ UNCHANGED <<dbVars, meta, netVars, imp, crashes, history>>

\* SetSyncState overwrites the mark with the last id this export has seen.
SaveState(p) ==
  /\ exp[p].pc = "state"
  /\ exportHwm' = [exportHwm EXCEPT ![Home[p]] = exp[p].last]
  /\ exp' = [exp EXCEPT ![p].pc = "meta"]
  /\ UNCHANGED <<db, importHwm, fileVars, netVars, imp, crashes, history>>

\* writeMeta(keepSeq): meta.json's last_seq never goes down.
SaveMeta(p) ==
  /\ exp[p].pc = "meta"
  /\ meta' = [meta EXCEPT ![Home[p]] = IF exp[p].last > @ THEN exp[p].last ELSE @]
  /\ exp' = [exp EXCEPT ![p] = IdleExp]
  /\ UNCHANGED <<dbVars, log, netVars, imp, crashes, history>>
-----------------------------------------------------------------------------
(***************************************************************************)
(* The file synchroniser (Syncthing, Dropbox, rsync...): not part of the   *)
(* program.  It copies each log's files to every machine, one at a time.   *)
(***************************************************************************)

DeliverMeta(n, m) ==
  /\ n # m /\ m \notin metaSeen[n]
  /\ metaSeen' = [metaSeen EXCEPT ![n] = @ \cup {m}]
  /\ UNCHANGED <<dbVars, fileVars, view, partial, exp, imp, crashes, history>>

\* Whether the synchroniser may show n this file of m's log by now: in
\* order, once those that end before it are there, be it in part.
Deliverable(n, m, seg) ==
  /\ n # m
  /\ seg \in log[m] \ view[n][m]
  /\ InOrder => \A s \in log[m] : s.name.last < seg.name.last =>
                  s \in view[n][m] \/ s.name \in partial[n][m]

\* A file arrives whole and replaces what was there under its name.
Deliver(n, m, seg) ==
  /\ Deliverable(n, m, seg)
  /\ view' = [view EXCEPT ![n][m] =
                {s \in @ : s.name # seg.name} \cup {seg}]
  /\ partial' = [partial EXCEPT ![n][m] = @ \ {seg.name}]
  /\ UNCHANGED <<dbVars, fileVars, metaSeen, exp, imp, crashes, history>>

\* A file is there under its name, but not all of its bytes are.
DeliverPartly(n, m, seg) ==
  /\ Torn
  /\ Deliverable(n, m, seg) /\ seg.name \notin partial[n][m]
  /\ view' = [view EXCEPT ![n][m] = {s \in @ : s.name # seg.name}]
  /\ partial' = [partial EXCEPT ![n][m] = @ \cup {seg.name}]
  /\ UNCHANGED <<dbVars, fileVars, metaSeen, exp, imp, crashes, history>>
-----------------------------------------------------------------------------
(***************************************************************************)
(* Import.                                                                 *)
(***************************************************************************)

StartImport(p) ==
  /\ imp[p].pc = "idle"
  /\ imp' = [imp EXCEPT ![p].pc = "dirs", ![p].dirs = Machines \ {Home[p]}]
  /\ UNCHANGED <<dbVars, fileVars, netVars, exp, crashes, history>>

\* The next machine of the directory listing, which is in name order.
FirstDir(p, m) ==
  /\ imp[p].pc = "dirs"
  /\ m \in imp[p].dirs
  /\ \A x \in imp[p].dirs : m <= x

SkipDir(p) ==     \* no readable meta.json: not a machine's log yet
  /\ \E m \in imp[p].dirs :
       /\ FirstDir(p, m) /\ m \notin metaSeen[Home[p]] \cup {Home[p]}
       /\ imp' = [imp EXCEPT ![p].dirs = @ \ {m}]
  /\ UNCHANGED <<dbVars, fileVars, netVars, exp, crashes, history>>

\* What n finds in m's directory of the tree; its own is its log itself.
Files(n, m) == IF n = m THEN log[m] ELSE view[n][m]

Names(n, m) == {s.name : s \in Files(n, m)} \cup partial[n][m]

\* Read the high-water mark for the machine and list its segments.
OpenDir(p) ==
  /\ \E m \in imp[p].dirs :
       /\ FirstDir(p, m) /\ m \in metaSeen[Home[p]] \cup {Home[p]}
       /\ LET n == Home[p]
          IN  imp' = [imp EXCEPT ![p] =
                        [IdleImp(n) EXCEPT !.pc = "segs",
                                           !.dirs = imp[p].dirs \ {m},
                                           !.from = m,
                                           !.hwm = importHwm[n][m],
                                           !.mark = importHwm[n][m],
                                           !.segs = Names(n, m)]]
  /\ UNCHANGED <<dbVars, fileVars, netVars, exp, crashes, history>>

\* A bug: newest segment first.
NewestSegment(p, name) ==
  /\ imp[p].pc = "segs"
  /\ name \in imp[p].segs
  /\ \A x \in imp[p].segs : x.first <= name.first

FirstSegment(p, name) ==
  /\ imp[p].pc = "segs"
  /\ name \in imp[p].segs
  /\ \A x \in imp[p].segs : name.first <= x.first

\* A segment that ends at or below the mark is skipped unread.
SkipSegment(p) ==
  /\ \E name \in imp[p].segs :
       /\ FirstSegment(p, name) /\ name.last <= imp[p].hwm
       /\ imp' = [imp EXCEPT ![p].segs = @ \ {name}]
  /\ UNCHANGED <<dbVars, fileVars, netVars, exp, crashes, history>>

\* A bug: the mark is saved before the segment's records are in.
ReadSegmentSaving(p) ==
  /\ \E seg \in Files(Home[p], imp[p].from) :
       /\ FirstSegment(p, seg.name) /\ seg.name.last > imp[p].hwm
       /\ imp' = [imp EXCEPT ![p].pc = "recs", ![p].segs = @ \ {seg.name},
                             ![p].last = seg.name.last,
                             ![p].recs = {r \in seg.recs : r.seq > imp[p].hwm}]
       /\ importHwm' = [importHwm EXCEPT ![Home[p]][imp[p].from] = seg.name.last]
  /\ UNCHANGED <<db, exportHwm, fileVars, netVars, exp, crashes, history>>

\* Read and decrypt a segment; its records up to the mark are passed over.
ReadSegment(p) ==
  /\ \E seg \in Files(Home[p], imp[p].from) :
       /\ FirstSegment(p, seg.name) /\ seg.name.last > imp[p].hwm
       /\ imp' = [imp EXCEPT ![p].pc = "recs", ![p].segs = @ \ {seg.name},
                             ![p].last = seg.name.last,
                             ![p].recs = {r \in seg.recs : r.seq > imp[p].hwm}]
  /\ UNCHANGED <<dbVars, fileVars, netVars, exp, crashes, history>>

\* A bug: a segment that does not decrypt is passed over.
ReadTornSkipping(p) ==
  /\ \E name \in partial[Home[p]][imp[p].from] :
       /\ FirstSegment(p, name) /\ name.last > imp[p].hwm
       /\ imp' = [imp EXCEPT ![p].segs = @ \ {name}]
  /\ UNCHANGED <<dbVars, fileVars, netVars, exp, crashes, history>>

\* A segment that does not decrypt ends the whole import with an error.
ReadTorn(p) ==
  /\ \E name \in partial[Home[p]][imp[p].from] :
       FirstSegment(p, name) /\ name.last > imp[p].hwm
  /\ imp' = [imp EXCEPT ![p] = IdleImp(Home[p])]
  /\ UNCHANGED <<dbVars, fileVars, netVars, exp, crashes, history>>

\* AddImported for the segment's next record: INSERT OR IGNORE on
\* (machine, origin_seq).
InsertRecord(p) ==
  /\ imp[p].pc = "recs"
  /\ \E r \in imp[p].recs :
       LET n == Home[p]
           m == imp[p].from
       IN  /\ \A x \in imp[p].recs : r.seq <= x.seq
           /\ IF \E row \in db[n] : row.by = m /\ row.seq = r.seq
                THEN UNCHANGED <<db, imported>>
                ELSE /\ \E id \in NextIds(db[n]) :
                          db' = [db EXCEPT ![n] = @ \cup
                                   {[id |-> id, by |-> m, seq |-> r.seq,
                                     body |-> r.body, ignored |-> FALSE]}]
                     /\ imported' = [imported EXCEPT ![n][m] = @ \cup {r}]
           /\ imp' = [imp EXCEPT ![p].recs = @ \ {r},
                                 ![p].mark = IF r.seq > @ THEN r.seq ELSE @]
  /\ UNCHANGED <<exportHwm, importHwm, fileVars, netVars, exp, crashes, clock,
                 journal>>

\* The segment is done: advance the mark and save it (SetImportedSeq).
CommitSegment(p) ==
  /\ imp[p].pc = "recs" /\ imp[p].recs = {}
  /\ LET last == imp[p].last
         mark == IF last > imp[p].mark THEN last ELSE imp[p].mark
     IN  /\ imp' = [imp EXCEPT ![p].pc = "segs", ![p].hwm = last,
                               ![p].mark = mark]
         /\ importHwm' = [importHwm EXCEPT ![Home[p]][imp[p].from] = mark]
  /\ UNCHANGED <<db, exportHwm, fileVars, netVars, exp, crashes, history>>

CloseDir(p) ==
  /\ imp[p].pc = "segs" /\ imp[p].segs = {}
  /\ imp' = [imp EXCEPT ![p] = [IdleImp(Home[p]) EXCEPT !.pc = "dirs",
                                                        !.dirs = imp[p].dirs]]
  /\ UNCHANGED <<dbVars, fileVars, netVars, exp, crashes, history>>

EndImport(p) ==
  /\ imp[p].pc = "dirs" /\ imp[p].dirs = {}
  /\ imp' = [imp EXCEPT ![p] = IdleImp(Home[p])]
  /\ UNCHANGED <<dbVars, fileVars, netVars, exp, crashes, history>>
-----------------------------------------------------------------------------
(***************************************************************************)
(* A process is killed, or an operation of its fails: it is gone, and what *)
(* it has written stays.                                                   *)
(***************************************************************************)

CrashExport(p) ==
  /\ exp[p].pc # "idle" /\ crashes < MaxCrashes
  /\ exp' = [exp EXCEPT ![p] = IdleExp]
  /\ crashes' = crashes + 1
  /\ UNCHANGED <<dbVars, fileVars, netVars, imp, history>>

CrashImport(p) ==
  /\ imp[p].pc # "idle" /\ crashes < MaxCrashes
  /\ imp' = [imp EXCEPT ![p] = IdleImp(Home[p])]
  /\ crashes' = crashes + 1
  /\ UNCHANGED <<dbVars, fileVars, netVars, exp, history>>

Export(p) == \/ StartExport(p) \/ FetchBatch(p) \/ SkipIgnored(p)
             \/ AppendRow(p) \/ FlushTail(p) \/ SaveState(p) \/ SaveMeta(p)

Import(p) == \/ StartImport(p) \/ SkipDir(p) \/ OpenDir(p) \/ SkipSegment(p)
             \/ ReadSegment(p) \/ ReadTorn(p) \/ InsertRecord(p)
             \/ CommitSegment(p) \/ CloseDir(p) \/ EndImport(p)

User(m) == \/ AddCommand(m) \/ Delete(m)
           \/ \E s \in HistSeqs : AddHistory(m, s)
           \/ \E cutoff \in Command : Prune(m, cutoff + 1)

Synchroniser(n, m) ==
  \/ DeliverMeta(n, m)
  \/ \E seg \in log[m] : Deliver(n, m, seg) \/ DeliverPartly(n, m, seg)

Next ==
  \/ \E m \in Machines : User(m)
  \/ \E p \in Exporters : Export(p) \/ CrashExport(p)
  \/ \E p \in Importers : Import(p) \/ CrashImport(p)
  \/ \E n, m \in Machines : Synchroniser(n, m)

Spec == Init /\ [][Next]_vars
-----------------------------------------------------------------------------
(***************************************************************************)
(* Properties.                                                             *)
(***************************************************************************)

RowRecord(r) == [seq |-> r.seq, body |-> r.body]

LogFaithful == \A m \in Machines : \A s \in log[m] : s.recs \subseteq journal[m]
RowsFaithful ==
  \A n, m \in Machines : \A r \in db[n] :
    r.by = m => RowRecord(r) \in journal[m] /\ m # n

\* What a log holds is what its owner recorded itself, and what a machine
\* holds of another one is what that one recorded, under the same number: no
\* record is relayed, renumbered or taken from the wrong log, whatever
\* exports and imports crash or overlap (LocalAfter, Import).
Faithful == LogFaithful /\ RowsFaithful

\* Every local command that export and meta.json claim to be past is in a
\* segment of the log, unless an ignore pattern kept it out or it has been
\* deleted: a crash between the segment, the mark and meta.json, or another
\* export at work on the same log, loses nothing (Export).
ExportComplete ==
  \A m \in Machines : \A r \in db[m] :
    r.by = Local /\ ~r.ignored /\ (r.id <= exportHwm[m] \/ r.id <= meta[m])
      => \E s \in log[m] : AsRecord(r) \in s.recs

\* Every command still in its owner's database that an importer's mark has
\* passed has been imported: neither crashes of either side, nor overlapping
\* segments after a re-run, nor half-delivered files make an import skip a
\* record (Import).
NoGap ==
  \A n, m \in Machines : \A r \in db[m] :
    r.by = Local /\ ~r.ignored /\ r.id <= importHwm[n][m]
      => AsRecord(r) \in imported[n][m]

\* The promise of ReplicatedHistory: journals grow by ever higher numbers,
\* replicas only by records of the journal, once per number.
Promise == INSTANCE ReplicatedHistory
             WITH Seqs <- 1..MaxId, Bodies <- Command, replica <- imported

ImplementsPromise == Promise!Spec

\* A segment file, once written, is never changed or replaced by another of
\* its name (docs/sync-design.md: "Segments are immutable once written").
SegmentsImmutable == [][\A m \in Machines : log[m] \subseteq log'[m]]_vars

\* The number a machine gives a command is above all it has given before
\* (docs/sync-design.md: "per-machine, strictly increasing").
SeqIncreases ==
  [][\A m \in Machines : \A r \in journal'[m] \ journal[m] :
       \A x \in journal[m] : x.seq < r.seq]_vars

\* A record is inserted into a database only once: a foreign command the user
\* has deleted does not come back by importing again (Import: "Re-importing
\* is a no-op").
NoResurrection ==
  [][\A n, m \in Machines : \A r \in imported[n][m] :
       /\ ~\E row \in db[n] : row.by = m /\ RowRecord(row) = r
       => ~\E row \in db'[n] : row.by = m /\ RowRecord(row) = r]_vars

\* Sync is run again and again on every machine, and the synchroniser goes on
\* delivering; processes die only so often.
Fairness ==
  /\ \A p \in Exporters : WF_vars(Export(p))
  /\ \A p \in Importers : WF_vars(Import(p))
  /\ \A n, m \in Machines :
       /\ WF_vars(DeliverMeta(n, m))
       /\ WF_vars(\E seg \in log[m] : Deliver(n, m, seg))

FairSpec == Spec /\ Fairness

Held(m, b) == \E r \in db[m] : r.by = Local /\ r.body = b /\ ~r.ignored
Reached(n, m, b) == \E r \in imported[n][m] : r.body = b

\* A command recorded on a machine that exports reaches every machine that
\* imports, or is deleted on its own before it could be exported.
EventuallyShared ==
  \A p \in Exporters, q \in Importers : \A b \in Command :
    Home[p] # Home[q] =>
      (Held(Home[p], b) ~> (Reached(Home[q], Home[p], b) \/ ~Held(Home[p], b)))
=============================================================================
