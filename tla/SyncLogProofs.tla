--------------------------- MODULE SyncLogProofs ---------------------------
(***************************************************************************)
(* Proofs about SyncLog, for all values of its constants: TypeOK; Faithful,*)
(* from the invariant Provenance; and that SyncLog implements              *)
(* ReplicatedHistory as long as the newest row is never deleted, from the  *)
(* invariant Numbering; ExportComplete and NoGap, from the invariants      *)
(* Marks and Imports.  Each invariant is shown to be inductive group by    *)
(* group of Next's actions: users, exporters, importers, synchroniser.     *)
(***************************************************************************)
EXTENDS SyncLog, FiniteSetTheorems, TLAPS

\* Every sync process runs on one of the machines.
LEMMA HomeMachine == \A p \in Exporters \cup Importers : Home[p] \in Machines
BY SyncAssumption DEF SyncAssumption

\* The segment a run of records is sealed into holds exactly these records.
LEMMA SegmentsTyped ==
  ASSUME NEW recs \in SUBSET Record, NEW seg \in SegmentsOf(recs)
  PROVE  seg \in Segment /\ seg.recs = recs
BY DEF SegmentsOf, Segment, Record, Name

\* Replacing or adding a segment file leaves a log a set of segments.
LEMMA WriteTyped ==
  ASSUME NEW m \in Machines, log \in [Machines -> SUBSET Segment],
         NEW recs \in SUBSET Record,
         \E seg \in SegmentsOf(recs) : WriteSegment(m, seg)
  PROVE  log' \in [Machines -> SUBSET Segment]
<1>1. PICK seg \in SegmentsOf(recs) : WriteSegment(m, seg)
  OBVIOUS
<1>2. seg \in Segment
  BY SegmentsTyped
<1>3. QED BY <1>1, <1>2 DEF WriteSegment

\* The initial state is typed.
LEMMA TypeInit == Init => TypeOK
BY SyncAssumption, HomeMachine
   DEF SyncAssumption, Init, TypeOK, IdleExp, IdleImp, ExpState, ImpState

\* Recording, importing shell history, deleting and pruning keep the types.
LEMMA TypeUser ==
  ASSUME TypeOK, NEW m \in Machines, User(m)
  PROVE  TypeOK'
<1> USE DEF dbVars, fileVars, netVars, history
<1>1. CASE AddCommand(m)
  <2>1. clock' = clock + 1 /\ clock' \in 1..MaxCommands
    BY <1>1, SyncAssumption DEF AddCommand, TypeOK, SyncAssumption
  <2>2. PICK id \in NextIds(db[m]), ign \in BOOLEAN :
          /\ db' = [db EXCEPT ![m] = @ \cup {[id |-> id, by |-> Local, seq |-> 0,
                                           body |-> clock', ignored |-> ign]}]
          /\ journal' = [journal EXCEPT ![m] = @ \cup
                        {[seq |-> id, body |-> clock']}]
    BY <1>1 DEF AddCommand
  <2>3. id \in Nat
    BY SyncAssumption DEF NextIds, SyncAssumption
  <2>4. [id |-> id, by |-> Local, seq |-> 0, body |-> clock', ignored |-> ign] \in Row
    BY <2>1, <2>3 DEF Row, Origin, Command
  <2>5. [seq |-> id, body |-> clock'] \in Record
    BY <2>1, <2>3 DEF Record, Command
  <2>6. db' \in [Machines -> SUBSET Row]
    BY <2>2, <2>4 DEF TypeOK
  <2>7. journal' \in [Machines -> SUBSET Record]
    BY <2>2, <2>5 DEF TypeOK
  <2>8. clock' \in 0..MaxCommands
    BY <2>1
  <2>9. QED BY <1>1, <2>6, <2>7, <2>8 DEF AddCommand, TypeOK
<1>2. CASE Delete(m)
  BY <1>2 DEF Delete, TypeOK
<1>3. ASSUME NEW s \in HistSeqs, AddHistory(m, s) PROVE TypeOK'
  <2>1. PICK id \in NextIds(db[m]) :
          db' = [db EXCEPT ![m] = @ \cup {[id |-> id, by |-> Hist, seq |-> s,
                                        body |-> 0, ignored |-> FALSE]}]
    BY <1>3 DEF AddHistory
  <2>2. id \in Nat /\ s \in Nat
    BY SyncAssumption DEF NextIds, SyncAssumption
  <2>3. [id |-> id, by |-> Hist, seq |-> s, body |-> 0, ignored |-> FALSE] \in Row
    BY <2>2 DEF Row, Origin
  <2>4. db' \in [Machines -> SUBSET Row]
    BY <2>1, <2>3 DEF TypeOK
  <2>5. QED BY <1>3, <2>4 DEF AddHistory, TypeOK
<1>4. ASSUME NEW c \in Command, Prune(m, c + 1) PROVE TypeOK'
  BY <1>4 DEF Prune, TypeOK
<1>5. QED BY <1>1, <1>2, <1>3, <1>4 DEF User

\* Every step of an export, and its death, keep the types.
LEMMA TypeExport ==
  ASSUME TypeOK, NEW p \in Exporters, Export(p) \/ CrashExport(p)
  PROVE  TypeOK'
<1> USE DEF dbVars, fileVars, netVars, history
<1>0. Home[p] \in Machines /\ exp[p] \in ExpState
  BY HomeMachine DEF TypeOK
<1>1. CASE StartExport(p)
  <2>1. exportHwm[Home[p]] \in Nat
    BY <1>0 DEF TypeOK
  <2>2. exp' \in [Exporters -> ExpState]
    BY <1>1, <2>1 DEF StartExport, TypeOK, ExpState, IdleExp
  <2>3. QED BY <1>1, <2>2 DEF StartExport, TypeOK
<1>2. CASE FetchBatch(p)
  <2>1. LocalAfter(Home[p], exp[p].last, Batch) \in SUBSET Row
    BY <1>0 DEF LocalAfter, LocalRows, TypeOK
  <2>2. exp' \in [Exporters -> ExpState]
    BY <1>0, <1>2, <2>1 DEF FetchBatch, TypeOK, ExpState
  <2>3. QED BY <1>2, <2>2 DEF FetchBatch, TypeOK
<1>3. CASE SkipIgnored(p)
  <2>1. PICK r \in exp[p].todo :
           exp' = [exp EXCEPT ![p].todo = @ \ {r}, ![p].last = r.id]
    BY <1>3 DEF SkipIgnored
  <2>2. r.id \in Nat
    BY <1>0 DEF ExpState, Row
  <2>3. exp' \in [Exporters -> ExpState]
    BY <1>0, <2>1, <2>2 DEF TypeOK, ExpState
  <2>4. QED BY <1>3, <2>3 DEF SkipIgnored, TypeOK
<1>4. CASE AppendRow(p)
  <2>1. PICK r \in exp[p].todo :
           LET pend == exp[p].pending \cup {AsRecord(r)}
               full == Cardinality(pend) >= SegCap
           IN  /\ exp' = [exp EXCEPT ![p].todo = @ \ {r}, ![p].last = r.id,
                                     ![p].pending = IF full THEN {} ELSE pend]
               /\ IF full THEN \E seg \in SegmentsOf(pend) :
                                WriteSegment(Home[p], seg)
                          ELSE log' = log
    BY <1>4 DEF AppendRow
  <2>2. r \in Row /\ r.id \in Nat
    BY <1>0 DEF ExpState, Row
  <2>3. exp[p].pending \cup {AsRecord(r)} \in SUBSET Record
    BY <1>0, <2>2 DEF AsRecord, Record, Row, ExpState
  <2>4. exp' \in [Exporters -> ExpState]
    BY <1>0, <2>1, <2>2, <2>3 DEF TypeOK, ExpState
  <2>5. log' \in [Machines -> SUBSET Segment]
    <3>1. CASE log' = log
      BY <3>1 DEF TypeOK
    <3>2. CASE \E seg \in SegmentsOf(exp[p].pending \cup {AsRecord(r)}) :
                 WriteSegment(Home[p], seg)
      BY <1>0, <2>3, <3>2, WriteTyped DEF TypeOK
    <3>3. QED BY <2>1, <3>1, <3>2
  <2>6. QED BY <1>4, <2>4, <2>5 DEF AppendRow, TypeOK
<1>5. CASE FlushTail(p)
  <2>1. exp' \in [Exporters -> ExpState]
    BY <1>0, <1>5 DEF FlushTail, TypeOK, ExpState, IdleExp
  <2>2. log' \in [Machines -> SUBSET Segment]
    <3>1. CASE log' = log
      BY <3>1 DEF TypeOK
    <3>2. CASE \E seg \in SegmentsOf(exp[p].pending) : WriteSegment(Home[p], seg)
      BY <1>0, <3>2, WriteTyped DEF TypeOK, ExpState
    <3>3. QED BY <1>5, <3>1, <3>2 DEF FlushTail
  <2>3. QED BY <1>5, <2>1, <2>2 DEF FlushTail, TypeOK
<1>6. CASE SaveState(p)
  <2>1. exp' \in [Exporters -> ExpState] /\ exp[p].last \in Nat
    BY <1>0, <1>6 DEF SaveState, TypeOK, ExpState
  <2>2. QED BY <1>0, <1>6, <2>1 DEF SaveState, TypeOK
<1>7. CASE SaveMeta(p)
  <2>1. exp' \in [Exporters -> ExpState] /\ exp[p].last \in Nat
    BY <1>0, <1>7 DEF SaveMeta, TypeOK, ExpState, IdleExp
  <2>2. QED BY <1>0, <1>7, <2>1 DEF SaveMeta, TypeOK
<1>8. CASE CrashExport(p)
  BY <1>0, <1>8 DEF CrashExport, TypeOK, ExpState, IdleExp
<1>9. QED BY <1>1, <1>2, <1>3, <1>4, <1>5, <1>6, <1>7, <1>8 DEF Export

\* Updating one entry of a two-level table keeps the table's type.
LEMMA NestedUpdate ==
  ASSUME NEW S, NEW f \in [Machines -> [Machines -> S]],
         NEW n \in Machines, NEW m \in Machines, NEW x \in S
  PROVE  [f EXCEPT ![n][m] = x] \in [Machines -> [Machines -> S]]
<1>1. [f[n] EXCEPT ![m] = x] \in [Machines -> S]
  OBVIOUS
<1>2. QED BY <1>1

\* Delivering files keeps the types.
LEMMA TypeSynchroniser ==
  ASSUME TypeOK, NEW n \in Machines, NEW m \in Machines, Synchroniser(n, m)
  PROVE  TypeOK'
<1> USE DEF dbVars, fileVars, netVars, history
<1>1. CASE DeliverMeta(n, m)
  BY <1>1 DEF DeliverMeta, TypeOK
<1>2. ASSUME NEW seg \in log[m], Deliver(n, m, seg) \/ DeliverPartly(n, m, seg)
      PROVE  TypeOK'
  <2>1. seg \in Segment /\ seg.name \in Name
    BY DEF TypeOK, Segment
  <2>2. CASE Deliver(n, m, seg)
    <3>1. view' \in [Machines -> [Machines -> SUBSET Segment]]
      BY <2>1, <2>2, NestedUpdate,
         {s \in view[n][m] : s.name # seg.name} \cup {seg} \in SUBSET Segment
         DEF Deliver, TypeOK
    <3>2. partial' \in [Machines -> [Machines -> SUBSET Name]]
      BY <2>1, <2>2 DEF Deliver, TypeOK
    <3>3. QED BY <2>2, <3>1, <3>2 DEF Deliver, TypeOK
  <2>3. CASE DeliverPartly(n, m, seg)
    <3>1. view' \in [Machines -> [Machines -> SUBSET Segment]]
      BY <2>1, <2>3 DEF DeliverPartly, TypeOK
    <3>2. partial' \in [Machines -> [Machines -> SUBSET Name]]
      BY <2>1, <2>3 DEF DeliverPartly, TypeOK
    <3>3. QED BY <2>3, <3>1, <3>2 DEF DeliverPartly, TypeOK
  <2>4. QED BY <1>2, <2>2, <2>3
<1>3. QED BY <1>1, <1>2 DEF Synchroniser

\* What an importer lists and finds in a directory are names and segments.
LEMMA NamesTyped ==
  ASSUME TypeOK, NEW n \in Machines, NEW m \in Machines
  PROVE  Names(n, m) \in SUBSET Name /\ Files(n, m) \in SUBSET Segment
BY DEF TypeOK, Names, Files, Segment

\* Every step of an import, and its death, keep the types.
LEMMA TypeImport ==
  ASSUME TypeOK, NEW p \in Importers, Import(p) \/ CrashImport(p)
  PROVE  TypeOK'
<1> USE DEF dbVars, fileVars, netVars, history
<1>0. /\ Home[p] \in Machines /\ imp[p] \in ImpState
      /\ IdleImp(Home[p]) \in ImpState
  BY HomeMachine DEF TypeOK, IdleImp, ImpState
<1>1. CASE StartImport(p)
  <2>1. imp' \in [Importers -> ImpState]
    BY <1>0, <1>1 DEF StartImport, TypeOK, ImpState
  <2>2. QED BY <1>1, <2>1 DEF StartImport, TypeOK
<1>2. CASE SkipDir(p)
  <2>1. PICK m \in imp[p].dirs : imp' = [imp EXCEPT ![p].dirs = @ \ {m}]
    BY <1>2 DEF SkipDir
  <2>2. imp' \in [Importers -> ImpState]
    BY <1>0, <2>1 DEF TypeOK, ImpState
  <2>3. QED BY <1>2, <2>2 DEF SkipDir, TypeOK
<1>3. CASE OpenDir(p)
  <2> DEFINE opened(m) ==
        [IdleImp(Home[p]) EXCEPT !.pc = "segs", !.dirs = imp[p].dirs \ {m},
                                 !.from = m, !.hwm = importHwm[Home[p]][m],
                                 !.mark = importHwm[Home[p]][m],
                                 !.segs = Names(Home[p], m)]
  <2>1. PICK m \in imp[p].dirs : imp' = [imp EXCEPT ![p] = opened(m)]
    BY <1>3 DEF OpenDir
  <2>2. m \in Machines /\ importHwm[Home[p]][m] \in Nat
    BY <1>0 DEF ImpState, TypeOK
  <2>3. Names(Home[p], m) \in SUBSET Name
    BY <1>0, <2>2, NamesTyped
  <2>4. opened(m) \in ImpState
    BY <1>0, <2>2, <2>3 DEF ImpState, IdleImp
  <2>5. imp' \in [Importers -> ImpState]
    BY <2>1, <2>4 DEF TypeOK
  <2>6. QED BY <1>3, <2>5 DEF OpenDir, TypeOK
<1>4. CASE SkipSegment(p)
  <2>1. PICK name \in imp[p].segs : imp' = [imp EXCEPT ![p].segs = @ \ {name}]
    BY <1>4 DEF SkipSegment
  <2>2. imp' \in [Importers -> ImpState]
    BY <1>0, <2>1 DEF TypeOK, ImpState
  <2>3. QED BY <1>4, <2>2 DEF SkipSegment, TypeOK
<1>5. CASE ReadSegment(p)
  <2>1. PICK seg \in Files(Home[p], imp[p].from) :
          imp' = [imp EXCEPT ![p].pc = "recs", ![p].segs = @ \ {seg.name},
                             ![p].last = seg.name.last,
                             ![p].recs = {r \in seg.recs : r.seq > imp[p].hwm}]
    BY <1>5 DEF ReadSegment
  <2>2. seg \in Segment
    BY <1>0, NamesTyped DEF ImpState
  <2>3. seg.name.last \in Nat /\ {r \in seg.recs : r.seq > imp[p].hwm} \in SUBSET Record
    BY <2>2 DEF Segment, Name
  <2>4. imp' \in [Importers -> ImpState]
    BY <1>0, <2>1, <2>3 DEF TypeOK, ImpState
  <2>5. QED BY <1>5, <2>4 DEF ReadSegment, TypeOK
<1>6. CASE ReadTorn(p)
  <2>1. imp' \in [Importers -> ImpState]
    BY <1>0, <1>6 DEF ReadTorn, TypeOK
  <2>2. QED BY <1>6, <2>1 DEF ReadTorn, TypeOK
<1>7. CASE InsertRecord(p)
  <2> DEFINE n == Home[p]
             m == imp[p].from
  <2>1. PICK r \in imp[p].recs :
          /\ IF \E row \in db[n] : row.by = m /\ row.seq = r.seq
               THEN UNCHANGED <<db, imported>>
               ELSE /\ \E id \in NextIds(db[n]) :
                         db' = [db EXCEPT ![n] = @ \cup
                                  {[id |-> id, by |-> m, seq |-> r.seq,
                                    body |-> r.body, ignored |-> FALSE]}]
                    /\ imported' = [imported EXCEPT ![n][m] = @ \cup {r}]
          /\ imp' = [imp EXCEPT ![p].recs = @ \ {r},
                                ![p].mark = IF r.seq > @ THEN r.seq ELSE @]
    BY <1>7 DEF InsertRecord
  <2>2. m \in Machines /\ r \in Record /\ r.seq \in Nat
    BY <1>0 DEF ImpState, Record
  <2>3. imp' \in [Importers -> ImpState]
    BY <1>0, <2>1, <2>2 DEF TypeOK, ImpState
  <2>4. imported' \in [Machines -> [Machines -> SUBSET Record]]
    <3>1. imported[n] \in [Machines -> SUBSET Record]
      BY <1>0 DEF TypeOK
    <3>2. [imported EXCEPT ![n][m] = @ \cup {r}] \in [Machines -> [Machines -> SUBSET Record]]
      BY <1>0, <2>2, <3>1, imported[n][m] \cup {r} \in SUBSET Record DEF TypeOK
    <3>3. QED BY <2>1, <3>2 DEF TypeOK
  <2>5. db' \in [Machines -> SUBSET Row]
    <3>1. CASE UNCHANGED <<db, imported>>
      BY <3>1 DEF TypeOK
    <3>2. ASSUME NEW id \in NextIds(db[n]),
                 db' = [db EXCEPT ![n] = @ \cup
                          {[id |-> id, by |-> m, seq |-> r.seq,
                            body |-> r.body, ignored |-> FALSE]}]
          PROVE  db' \in [Machines -> SUBSET Row]
      <4>1. id \in Nat
        BY SyncAssumption DEF NextIds, SyncAssumption
      <4>2. [id |-> id, by |-> m, seq |-> r.seq, body |-> r.body,
             ignored |-> FALSE] \in Row
        BY <2>2, <4>1 DEF Row, Origin, Record
      <4>3. QED BY <1>0, <3>2, <4>2 DEF TypeOK
    <3>3. QED BY <2>1, <3>1, <3>2
  <2>6. QED BY <1>7, <2>3, <2>4, <2>5 DEF InsertRecord, TypeOK
<1>8. CASE CommitSegment(p)
  <2> DEFINE mark == IF imp[p].last > imp[p].mark THEN imp[p].last ELSE imp[p].mark
  <2>1. mark \in Nat /\ imp[p].last \in Nat /\ imp[p].from \in Machines
    BY <1>0 DEF ImpState
  <2>2. /\ imp' = [imp EXCEPT ![p].pc = "segs", ![p].hwm = imp[p].last,
                               ![p].mark = mark]
        /\ importHwm' = [importHwm EXCEPT ![Home[p]][imp[p].from] = mark]
    BY <1>8 DEF CommitSegment
  <2>3. imp' \in [Importers -> ImpState]
    BY <1>0, <2>1, <2>2 DEF TypeOK, ImpState
  <2>4. importHwm' \in [Machines -> [Machines -> Nat]]
    BY <1>0, <2>1, <2>2 DEF TypeOK
  <2>5. QED BY <1>8, <2>3, <2>4 DEF CommitSegment, TypeOK
<1>9. CASE CloseDir(p)
  <2>1. imp' \in [Importers -> ImpState]
    BY <1>0, <1>9 DEF CloseDir, TypeOK, IdleImp, ImpState
  <2>2. QED BY <1>9, <2>1 DEF CloseDir, TypeOK
<1>10. CASE EndImport(p)
  <2>1. imp' \in [Importers -> ImpState]
    BY <1>0, <1>10 DEF EndImport, TypeOK
  <2>2. QED BY <1>10, <2>1 DEF EndImport, TypeOK
<1>11. CASE CrashImport(p)
  <2>1. imp' \in [Importers -> ImpState]
    BY <1>0, <1>11 DEF CrashImport, TypeOK
  <2>2. QED BY <1>11, <2>1 DEF CrashImport, TypeOK
<1>12. QED
  BY <1>1, <1>2, <1>3, <1>4, <1>5, <1>6, <1>7, <1>8, <1>9, <1>10, <1>11 DEF Import

\* TypeOK is inductive.
LEMMA TypeNext == TypeOK /\ [Next]_vars => TypeOK'
<1> SUFFICES ASSUME TypeOK, [Next]_vars PROVE TypeOK'
  OBVIOUS
<1>1. CASE UNCHANGED vars
  BY <1>1 DEF vars, dbVars, fileVars, netVars, history, TypeOK
<1>2. CASE Next
  BY <1>2, TypeUser, TypeExport, TypeImport, TypeSynchroniser DEF Next
<1>3. QED BY <1>1, <1>2

\* TypeOK holds in every reachable state, for any number of machines, processes,
\* commands and crashes: no step leaves a variable outside its type.
THEOREM TypeCorrect == Spec => []TypeOK
BY TypeInit, TypeNext, PTL DEF Spec

-----------------------------------------------------------------------------
(***************************************************************************)
(* Where every copy of a record comes from.  Faithful alone is not         *)
(* inductive: a log is written from the rows an exporter has read and the  *)
(* records it has pending, and rows are written from what an importer has  *)
(* read of a view of a log.  Provenance says that each of these is in the  *)
(* journal of the machine it is said to be of.                             *)
(***************************************************************************)
LocalRowsRecorded ==
  \A m \in Machines : \A r \in db[m] : r.by = Local => AsRecord(r) \in journal[m]

ExportersHoldLocal ==
  \A p \in Exporters :
    /\ exp[p].pending \subseteq journal[Home[p]]
    /\ \A r \in exp[p].todo : AsRecord(r) \in journal[Home[p]]

ViewsFaithful ==
  \A n, m \in Machines : \A s \in view[n][m] : s.recs \subseteq journal[m]

ImportersHoldForeign ==
  \A p \in Importers :
    /\ imp[p].recs \subseteq journal[imp[p].from]
    /\ Home[p] \notin imp[p].dirs
    /\ imp[p].pc \in {"segs", "recs"} => imp[p].from # Home[p]

ImportedRecorded ==
  \A n, m \in Machines : imported[n][m] \subseteq journal[m]

Provenance == /\ LocalRowsRecorded /\ ExportersHoldLocal /\ ViewsFaithful
              /\ ImportersHoldForeign /\ ImportedRecorded

(***************************************************************************)
(* What keeps sequence numbers unique: as long as no deletion takes the    *)
(* row with the highest id, that id is at least every number ever given.   *)
(***************************************************************************)
JournalNumbered ==
  \A m \in Machines : journal[m] \subseteq [seq : 1..MaxId, body : Command]

NewestKept ==
  \A m \in Machines : \A x \in journal[m] : \E r \in db[m] : x.seq <= r.id

NumbersUnique ==
  \A m \in Machines : \A x, y \in journal[m] : x.seq = y.seq => x = y

Numbering == JournalNumbered /\ (DeleteNewest \/ (NewestKept /\ NumbersUnique))

Sound == Provenance /\ Faithful

\* At the start there is nothing to be unsound.
LEMMA SoundInit == Init => Sound
BY HomeMachine DEF Init, Sound, Provenance, LocalRowsRecorded, ExportersHoldLocal,
   ViewsFaithful, ImportersHoldForeign, ImportedRecorded, Faithful, LogFaithful,
   RowsFaithful, IdleExp, IdleImp

\* No step takes a record out of a journal.
LEMMA JournalGrows ==
  ASSUME TypeOK, Next
  PROVE  \A m \in Machines : journal[m] \subseteq journal'[m]
<1> USE DEF dbVars, fileVars, netVars, history
<1>1. ASSUME NEW m \in Machines, AddCommand(m)
      PROVE  \A n \in Machines : journal[n] \subseteq journal'[n]
  BY <1>1 DEF AddCommand, TypeOK
<1>2. ASSUME UNCHANGED journal
      PROVE  \A n \in Machines : journal[n] \subseteq journal'[n]
  BY <1>2
<1>3. CASE \E m \in Machines : User(m)
  BY <1>1, <1>2, <1>3 DEF User, Delete, AddHistory, Prune
<1>4. CASE \E p \in Exporters : Export(p) \/ CrashExport(p)
  BY <1>2, <1>4 DEF Export, CrashExport, StartExport, FetchBatch, SkipIgnored,
     AppendRow, FlushTail, SaveState, SaveMeta
<1>5. CASE \E p \in Importers : Import(p) \/ CrashImport(p)
  BY <1>2, <1>5 DEF Import, CrashImport, StartImport, SkipDir, OpenDir, SkipSegment,
     ReadSegment, ReadTorn, InsertRecord, CommitSegment, CloseDir, EndImport
<1>6. CASE \E n, m \in Machines : Synchroniser(n, m)
  BY <1>2, <1>6 DEF Synchroniser, DeliverMeta, Deliver, DeliverPartly
<1>7. QED BY <1>3, <1>4, <1>5, <1>6 DEF Next

\* What users do to their tables keeps provenance: a recorded command enters
\* table and journal together, and the other operations bring in no record.
LEMMA SoundUser ==
  ASSUME TypeOK, Sound, NEW m \in Machines, User(m)
  PROVE  Sound'
<1> USE DEF dbVars, fileVars, netVars, history, Sound, Provenance, Faithful
<1>0. \A n \in Machines : journal[n] \subseteq journal'[n]
  BY JournalGrows DEF Next
<1>1. UNCHANGED <<log, view, exp, imp, imported>>
  BY DEF User, AddCommand, AddHistory, Delete, Prune
<1>2. ExportersHoldLocal' /\ ViewsFaithful' /\ ImportedRecorded' /\ LogFaithful'
  BY <1>0, <1>1, HomeMachine
     DEF ExportersHoldLocal, ViewsFaithful, ImportedRecorded, LogFaithful, AsRecord
<1>3. ImportersHoldForeign'
  BY <1>0, <1>1 DEF ImportersHoldForeign, TypeOK, ImpState
<1>4. LocalRowsRecorded' /\ RowsFaithful'
  <2>1. CASE AddCommand(m)
    <3>1. PICK id \in NextIds(db[m]), ign \in BOOLEAN :
            /\ db' = [db EXCEPT ![m] = @ \cup {[id |-> id, by |-> Local, seq |-> 0,
                                             body |-> clock', ignored |-> ign]}]
            /\ journal' = [journal EXCEPT ![m] = @ \cup
                          {[seq |-> id, body |-> clock']}]
      BY <2>1 DEF AddCommand
    <3>2. LocalRowsRecorded'
      BY <1>0, <3>1 DEF TypeOK, LocalRowsRecorded, AsRecord
    <3>3. RowsFaithful'
      BY <1>0, <3>1, SyncAssumption
         DEF TypeOK, RowsFaithful, RowRecord, SyncAssumption
    <3>4. QED BY <3>2, <3>3
  <2>2. ASSUME NEW s \in HistSeqs, AddHistory(m, s)
        PROVE  LocalRowsRecorded' /\ RowsFaithful'
    <3>1. LocalRowsRecorded'
      BY <2>2, SyncAssumption
         DEF AddHistory, TypeOK, LocalRowsRecorded, AsRecord, SyncAssumption
    <3>2. RowsFaithful'
      BY <2>2, SyncAssumption
         DEF AddHistory, TypeOK, RowsFaithful, RowRecord, SyncAssumption
    <3>3. QED BY <3>1, <3>2
  <2>3. ASSUME \A n \in Machines : db'[n] \subseteq db[n], UNCHANGED journal
        PROVE  LocalRowsRecorded' /\ RowsFaithful'
    BY <2>3 DEF LocalRowsRecorded, RowsFaithful, AsRecord, RowRecord
  <2>4. CASE Delete(m)
    BY <2>3, <2>4 DEF Delete, TypeOK
  <2>5. ASSUME NEW c \in Command, Prune(m, c + 1)
        PROVE  LocalRowsRecorded' /\ RowsFaithful'
    BY <2>3, <2>5 DEF Prune, TypeOK
  <2>6. QED BY <2>1, <2>2, <2>4, <2>5 DEF User
<1>5. QED BY <1>2, <1>3, <1>4

\* An export reads local rows, keeps them as records and seals these in its own log.
LEMMA SoundExport ==
  ASSUME TypeOK, Sound, NEW p \in Exporters, Export(p) \/ CrashExport(p)
  PROVE  Sound'
<1> USE DEF dbVars, fileVars, netVars, history, Sound, Provenance, Faithful
<1>0. Home[p] \in Machines /\ exp[p] \in ExpState
  BY HomeMachine DEF TypeOK
<1>1. UNCHANGED <<db, view, imp, journal, imported>>
  BY DEF Export, CrashExport, StartExport, FetchBatch, SkipIgnored,
     AppendRow, FlushTail, SaveState, SaveMeta
<1>2. /\ LocalRowsRecorded' /\ ViewsFaithful' /\ ImportersHoldForeign'
      /\ ImportedRecorded' /\ RowsFaithful'
  BY <1>1
     DEF LocalRowsRecorded, ViewsFaithful, ImportersHoldForeign, ImportedRecorded,
     RowsFaithful, RowRecord, AsRecord
<1> DEFINE Own(e) == /\ e.pending \subseteq journal[Home[p]]
                     /\ \A r \in e.todo : AsRecord(r) \in journal[Home[p]]
<1>3. Own(exp[p])
  BY DEF ExportersHoldLocal
<1>4. ASSUME NEW e, exp' = [exp EXCEPT ![p] = e], Own(e)
      PROVE  ExportersHoldLocal'
  BY <1>1, <1>4 DEF ExportersHoldLocal, TypeOK, AsRecord
<1>5. ASSUME NEW recs \in SUBSET journal[Home[p]],
             \E seg \in SegmentsOf(recs) : WriteSegment(Home[p], seg)
      PROVE  LogFaithful'
  <2>1. PICK seg \in SegmentsOf(recs) : WriteSegment(Home[p], seg)
    BY <1>5
  <2>2. seg.recs = recs
    BY DEF SegmentsOf
  <2>3. QED BY <1>0, <1>1, <2>1, <2>2 DEF LogFaithful, WriteSegment, TypeOK
<1>6. ASSUME UNCHANGED log PROVE LogFaithful'
  BY <1>1, <1>6 DEF LogFaithful
<1>7. CASE FetchBatch(p)
  <2>1. \A r \in LocalAfter(Home[p], exp[p].last, Batch) : AsRecord(r) \in journal[Home[p]]
    BY <1>0 DEF LocalAfter, LocalRows, LocalRowsRecorded
  <2>2. ExportersHoldLocal'
    BY <1>0, <1>1, <1>7, <2>1
       DEF FetchBatch, ExportersHoldLocal, TypeOK, ExpState, AsRecord
  <2>3. QED BY <1>2, <1>6, <1>7, <2>2 DEF FetchBatch
<1>8. CASE SkipIgnored(p)
  <2>1. ExportersHoldLocal'
    BY <1>0, <1>1, <1>8
       DEF SkipIgnored, ExportersHoldLocal, TypeOK, ExpState, AsRecord
  <2>2. QED BY <1>2, <1>6, <1>8, <2>1 DEF SkipIgnored
<1>9. CASE AppendRow(p)
  <2>1. PICK r \in exp[p].todo :
           LET pend == exp[p].pending \cup {AsRecord(r)}
               full == Cardinality(pend) >= SegCap
           IN  /\ exp' = [exp EXCEPT ![p].todo = @ \ {r}, ![p].last = r.id,
                                     ![p].pending = IF full THEN {} ELSE pend]
               /\ IF full THEN \E seg \in SegmentsOf(pend) :
                                WriteSegment(Home[p], seg)
                          ELSE log' = log
    BY <1>9 DEF AppendRow
  <2> DEFINE pend == exp[p].pending \cup {AsRecord(r)}
  <2>2. pend \in SUBSET journal[Home[p]]
    BY <1>3
  <2>3. LogFaithful'
    BY <1>5, <1>6, <2>1, <2>2
  <2>4. ExportersHoldLocal'
    <3>1. PICK s \in {{}, pend} :
            exp' = [exp EXCEPT ![p].todo = @ \ {r}, ![p].last = r.id, ![p].pending = s]
      BY <2>1
    <3>2. QED BY <1>0, <1>1, <1>3, <2>2, <3>1 DEF ExportersHoldLocal, TypeOK, ExpState, AsRecord
  <2>5. QED BY <1>2, <2>3, <2>4
<1>10. CASE FlushTail(p)
  <2>1. LogFaithful'
    BY <1>3, <1>5, <1>6, <1>10 DEF FlushTail
  <2>2. ExportersHoldLocal'
    BY <1>0, <1>1, <1>3, <1>10
       DEF FlushTail, ExportersHoldLocal, TypeOK, ExpState, AsRecord, IdleExp
  <2>3. QED BY <1>2, <2>1, <2>2
<1>11. CASE SaveState(p)
  <2>1. ExportersHoldLocal'
    BY <1>0, <1>1, <1>11
       DEF SaveState, ExportersHoldLocal, TypeOK, ExpState, AsRecord
  <2>2. QED BY <1>2, <1>6, <1>11, <2>1 DEF SaveState
<1>12. CASE StartExport(p)
  <2> DEFINE hwm == exportHwm[Home[p]]
             started == [IdleExp EXCEPT !.pc = "scan", !.hwm = hwm, !.last = hwm]
  <2>1. exp' = [exp EXCEPT ![p] = started] /\ Own(started)
    BY <1>12 DEF StartExport, IdleExp
  <2>2. ExportersHoldLocal'
    BY <1>4, <2>1
  <2>3. QED BY <1>2, <1>6, <1>12, <2>2 DEF StartExport
<1>13. CASE SaveMeta(p) \/ CrashExport(p)
  <2>1. exp' = [exp EXCEPT ![p] = IdleExp] /\ Own(IdleExp)
    BY <1>13 DEF SaveMeta, CrashExport, IdleExp
  <2>2. ExportersHoldLocal'
    BY <1>4, <2>1
  <2>3. QED BY <1>2, <1>6, <1>13, <2>2 DEF SaveMeta, CrashExport
<1>14. QED BY <1>7, <1>8, <1>9, <1>10, <1>11, <1>12, <1>13 DEF Export

\* The synchroniser copies segments, it makes none.
LEMMA SoundSynchroniser ==
  ASSUME TypeOK, Sound, NEW n \in Machines, NEW m \in Machines, Synchroniser(n, m)
  PROVE  Sound'
<1> USE DEF dbVars, fileVars, netVars, history, Sound, Provenance, Faithful
<1>1. UNCHANGED <<db, log, exp, imp, journal, imported>>
  BY DEF Synchroniser, DeliverMeta, Deliver, DeliverPartly
<1>2. /\ LocalRowsRecorded' /\ ExportersHoldLocal' /\ ImportersHoldForeign'
      /\ ImportedRecorded' /\ LogFaithful' /\ RowsFaithful'
  BY <1>1 DEF LocalRowsRecorded, ExportersHoldLocal, ImportersHoldForeign,
     ImportedRecorded, LogFaithful, RowsFaithful, RowRecord, AsRecord
<1>3. ViewsFaithful'
  <2>1. CASE DeliverMeta(n, m)
    BY <1>1, <2>1 DEF DeliverMeta, ViewsFaithful
  <2>2. ASSUME NEW seg \in log[m], Deliver(n, m, seg) PROVE ViewsFaithful'
    <3>1. seg.recs \subseteq journal[m]
      BY DEF LogFaithful
    <3>2. view' = [view EXCEPT ![n][m] = {s \in @ : s.name # seg.name} \cup {seg}]
      BY <2>2 DEF Deliver
    <3>3. QED BY <1>1, <3>1, <3>2 DEF ViewsFaithful, TypeOK
  <2>3. ASSUME NEW seg \in log[m], DeliverPartly(n, m, seg) PROVE ViewsFaithful'
    BY <1>1, <2>3 DEF DeliverPartly, ViewsFaithful, TypeOK
  <2>4. QED BY <2>1, <2>2, <2>3 DEF Synchroniser
<1>4. QED BY <1>2, <1>3

\* An import reads another machine's log and inserts what it has read.
LEMMA SoundImport ==
  ASSUME TypeOK, Sound, NEW p \in Importers, Import(p) \/ CrashImport(p)
  PROVE  Sound'
<1> USE DEF dbVars, fileVars, netVars, history, Sound, Provenance, Faithful
<1>0. Home[p] \in Machines /\ imp[p] \in ImpState
  BY HomeMachine DEF TypeOK
<1>1. UNCHANGED <<log, view, exp, journal>>
  BY DEF Import, CrashImport, StartImport, SkipDir, OpenDir, SkipSegment,
     ReadSegment, ReadTorn, InsertRecord, CommitSegment, CloseDir, EndImport
<1>2. ExportersHoldLocal' /\ ViewsFaithful' /\ LogFaithful'
  BY <1>1 DEF ExportersHoldLocal, ViewsFaithful, LogFaithful, AsRecord
<1> DEFINE Foreign(i) == /\ i.recs \subseteq journal[i.from]
                         /\ Home[p] \notin i.dirs
                         /\ i.pc \in {"segs", "recs"} => i.from # Home[p]
<1>3. Foreign(imp[p])
  BY DEF ImportersHoldForeign
<1>4. Foreign(IdleImp(Home[p]))
  BY DEF IdleImp
<1>5. ASSUME NEW i, imp' = [imp EXCEPT ![p] = i], Foreign(i)
      PROVE  ImportersHoldForeign'
  BY <1>1, <1>5 DEF ImportersHoldForeign, TypeOK
<1>6. ASSUME UNCHANGED <<db, imported>>
      PROVE  LocalRowsRecorded' /\ ImportedRecorded' /\ RowsFaithful'
  BY <1>1, <1>6
     DEF LocalRowsRecorded, ImportedRecorded, RowsFaithful, RowRecord, AsRecord
<1>7. CASE StartImport(p)
  <2>1. ImportersHoldForeign'
    BY <1>0, <1>1, <1>3, <1>7
       DEF StartImport, ImportersHoldForeign, TypeOK, ImpState
  <2>2. QED BY <1>2, <1>6, <1>7, <2>1 DEF StartImport
<1>8. CASE SkipDir(p)
  <2>1. PICK m \in imp[p].dirs : imp' = [imp EXCEPT ![p].dirs = @ \ {m}]
    BY <1>8 DEF SkipDir
  <2>2. ImportersHoldForeign'
    BY <1>0, <1>1, <1>3, <2>1 DEF ImportersHoldForeign, TypeOK, ImpState
  <2>3. QED BY <1>2, <1>6, <1>8, <2>2 DEF SkipDir
<1>9. CASE OpenDir(p)
  <2>1. PICK m \in imp[p].dirs :
          imp' = [imp EXCEPT ![p] =
                    [IdleImp(Home[p]) EXCEPT !.pc = "segs", !.dirs = imp[p].dirs \ {m},
                                             !.from = m,
                                             !.hwm = importHwm[Home[p]][m],
                                             !.mark = importHwm[Home[p]][m],
                                             !.segs = Names(Home[p], m)]]
    BY <1>9 DEF OpenDir
  <2>2. ImportersHoldForeign'
    BY <1>3, <1>5, <2>1 DEF IdleImp
  <2>3. QED BY <1>2, <1>6, <1>9, <2>2 DEF OpenDir
<1>10. CASE SkipSegment(p)
  <2>1. PICK name \in imp[p].segs : imp' = [imp EXCEPT ![p].segs = @ \ {name}]
    BY <1>10 DEF SkipSegment
  <2>2. ImportersHoldForeign'
    BY <1>0, <1>1, <1>3, <2>1 DEF ImportersHoldForeign, TypeOK, ImpState
  <2>3. QED BY <1>2, <1>6, <1>10, <2>2 DEF SkipSegment
<1>11. CASE ReadSegment(p)
  <2>1. PICK seg \in Files(Home[p], imp[p].from) :
          /\ imp[p].pc = "segs"
          /\ imp' = [imp EXCEPT ![p].pc = "recs", ![p].segs = @ \ {seg.name},
                                ![p].last = seg.name.last,
                                ![p].recs = {r \in seg.recs : r.seq > imp[p].hwm}]
    BY <1>11 DEF ReadSegment, FirstSegment
  <2>2. seg.recs \subseteq journal[imp[p].from]
    BY <1>0 DEF Files, LogFaithful, ViewsFaithful, ImpState
  <2>3. ImportersHoldForeign'
    BY <1>0, <1>1, <1>3, <2>1, <2>2 DEF ImportersHoldForeign, TypeOK, ImpState
  <2>4. QED BY <1>2, <1>6, <1>11, <2>3 DEF ReadSegment
<1>12. CASE InsertRecord(p)
  <2> DEFINE n == Home[p]
             m == imp[p].from
  <2>1. PICK r \in imp[p].recs :
          /\ imp[p].pc = "recs"
          /\ IF \E row \in db[n] : row.by = m /\ row.seq = r.seq
               THEN UNCHANGED <<db, imported>>
               ELSE /\ \E id \in NextIds(db[n]) :
                         db' = [db EXCEPT ![n] = @ \cup
                                  {[id |-> id, by |-> m, seq |-> r.seq,
                                    body |-> r.body, ignored |-> FALSE]}]
                    /\ imported' = [imported EXCEPT ![n][m] = @ \cup {r}]
          /\ imp' = [imp EXCEPT ![p].recs = @ \ {r},
                                ![p].mark = IF r.seq > @ THEN r.seq ELSE @]
    BY <1>12 DEF InsertRecord
  <2>2. /\ m \in Machines /\ m # n /\ m # Local
        /\ r \in journal[m] /\ r = [seq |-> r.seq, body |-> r.body]
    BY <1>0, <1>3, <2>1, SyncAssumption DEF ImpState, Record, SyncAssumption
  <2>3. ImportersHoldForeign'
    BY <1>0, <1>1, <1>3, <2>1 DEF ImportersHoldForeign, TypeOK, ImpState
  <2>4. CASE UNCHANGED <<db, imported>>
    BY <1>2, <1>6, <2>3, <2>4
  <2>5. ASSUME NEW id,
               db' = [db EXCEPT ![n] = @ \cup
                        {[id |-> id, by |-> m, seq |-> r.seq,
                          body |-> r.body, ignored |-> FALSE]}],
               imported' = [imported EXCEPT ![n][m] = @ \cup {r}]
        PROVE  Sound'
    <3>1. LocalRowsRecorded'
      BY <1>0, <1>1, <2>2, <2>5 DEF LocalRowsRecorded, AsRecord, TypeOK
    <3>2. RowsFaithful'
      BY <1>0, <1>1, <2>2, <2>5 DEF RowsFaithful, RowRecord, TypeOK
    <3>3. ImportedRecorded'
      BY <1>0, <1>1, <2>2, <2>5 DEF ImportedRecorded, TypeOK
    <3>4. QED BY <1>2, <2>3, <3>1, <3>2, <3>3
  <2>6. QED BY <2>1, <2>4, <2>5
<1>13. CASE CommitSegment(p)
  <2>1. PICK h, mark : imp' = [imp EXCEPT ![p].pc = "segs", ![p].hwm = h,
                                          ![p].mark = mark]
    BY <1>13 DEF CommitSegment
  <2>2. imp[p].pc = "recs"
    BY <1>13 DEF CommitSegment
  <2>3. ImportersHoldForeign'
    BY <1>0, <1>1, <1>3, <2>1, <2>2 DEF ImportersHoldForeign, TypeOK, ImpState
  <2>4. QED BY <1>2, <1>6, <1>13, <2>3 DEF CommitSegment
<1>14. CASE CloseDir(p)
  <2>1. ImportersHoldForeign'
    BY <1>3, <1>5, <1>14 DEF CloseDir, IdleImp
  <2>2. QED BY <1>2, <1>6, <1>14, <2>1 DEF CloseDir
<1>15. CASE ReadTorn(p) \/ EndImport(p) \/ CrashImport(p)
  <2>1. ImportersHoldForeign'
    BY <1>4, <1>5, <1>15 DEF ReadTorn, EndImport, CrashImport
  <2>2. QED BY <1>2, <1>6, <1>15, <2>1 DEF ReadTorn, EndImport, CrashImport
<1>16. QED
  BY <1>7, <1>8, <1>9, <1>10, <1>11, <1>12, <1>13, <1>14, <1>15 DEF Import

\* Provenance and Faithful together are inductive.
LEMMA SoundNext == TypeOK /\ Sound /\ [Next]_vars => Sound'
<1> SUFFICES ASSUME TypeOK, Sound, [Next]_vars PROVE Sound'
  OBVIOUS
<1>1. CASE UNCHANGED vars
  BY <1>1 DEF vars, dbVars, fileVars, netVars, history, Sound, Provenance,
     LocalRowsRecorded, ExportersHoldLocal, ViewsFaithful, ImportersHoldForeign,
     ImportedRecorded, Faithful, LogFaithful, RowsFaithful, AsRecord, RowRecord
<1>2. CASE Next
  BY <1>2, SoundUser, SoundExport, SoundImport, SoundSynchroniser DEF Next
<1>3. QED BY <1>1, <1>2

\* They hold in every reachable state.
LEMMA SoundAlways == Spec => []Sound
BY SoundInit, SoundNext, TypeCorrect, PTL DEF Spec

\* What a log holds is what its owner recorded, and what a machine holds of
\* another is what that one recorded, however many machines, exporters and
\* importers there are, whatever they delete, whenever they die, and in whatever
\* order and shape files are delivered (LocalAfter, Export, Import).
THEOREM FaithfulCorrect == Spec => []Faithful
BY SoundAlways, PTL DEF Sound
-----------------------------------------------------------------------------
\* At the start no number has been given.
LEMMA NumberingInit == Init => Numbering
BY DEF Init, Numbering, JournalNumbered, NewestKept, NumbersUnique

\* A recorded command gets a number above all before it.
LEMMA NumberingAdd ==
  ASSUME TypeOK, Numbering, NEW m \in Machines, AddCommand(m)
  PROVE  Numbering'
<1>1. PICK id \in NextIds(db[m]), ign \in BOOLEAN :
        /\ db' = [db EXCEPT ![m] = @ \cup {[id |-> id, by |-> Local, seq |-> 0,
                                         body |-> clock', ignored |-> ign]}]
        /\ journal' = [journal EXCEPT ![m] = @ \cup
                      {[seq |-> id, body |-> clock']}]
  BY DEF AddCommand
<1>2. /\ id \in 1..MaxId /\ clock' \in Command
      /\ \A r \in db[m] : r.id < id
  BY SyncAssumption
     DEF AddCommand, NextIds, IsNextId, Command, TypeOK, SyncAssumption
<1>3. JournalNumbered'
  BY <1>1, <1>2 DEF Numbering, JournalNumbered, TypeOK
<1>4. ASSUME NewestKept, NumbersUnique PROVE NewestKept' /\ NumbersUnique'
  <2>1. \A x \in journal[m] : x.seq < id
    BY <1>2, <1>4 DEF NewestKept, TypeOK, Record, Row
  <2> DEFINE rec == [seq |-> id, body |-> clock']
             row == [id |-> id, by |-> Local, seq |-> 0, body |-> clock', ignored |-> ign]
  <2>2. /\ \A n \in Machines : db[n] \subseteq db'[n]
        /\ row \in db'[m]
        /\ \A n \in Machines : \A x \in journal'[n] : x \in journal[n] \/ (n = m /\ x = rec)
    BY <1>1 DEF TypeOK
  <2>3. NewestKept'
    <3> SUFFICES ASSUME NEW n \in Machines, NEW x \in journal'[n]
                 PROVE  \E r \in db'[n] : x.seq <= r.id
      BY DEF NewestKept
    <3>1. CASE x \in journal[n]
      BY <1>4, <2>2, <3>1 DEF NewestKept
    <3>2. CASE n = m /\ x = rec
      <4>1. x.seq <= row.id
        BY <1>2, <3>2
      <4>2. QED BY <2>2, <3>2, <4>1
    <3>3. QED BY <2>2, <3>1, <3>2
  <2>4. NumbersUnique'
    <3>1. rec.seq = id
      OBVIOUS
    <3>2. \A n \in Machines : \A x, y \in journal[n] : x.seq = y.seq => x = y
      BY <1>4 DEF NumbersUnique
    <3>3. \A x \in journal[m] : x.seq # id
      BY <1>2, <2>1 DEF TypeOK, Record
    <3> SUFFICES ASSUME NEW n \in Machines, NEW x \in journal'[n], NEW y \in journal'[n],
                        x.seq = y.seq
                 PROVE  x = y
      BY DEF NumbersUnique
    <3>4. x \in journal[n] \/ (n = m /\ x = rec)
      BY <2>2
    <3>5. y \in journal[n] \/ (n = m /\ y = rec)
      BY <2>2
    <3>6. QED BY <3>1, <3>2, <3>3, <3>4, <3>5
  <2>5. QED BY <2>3, <2>4
<1>5. QED BY <1>3, <1>4 DEF Numbering

\* A deletion that spares the newest row keeps the highest id.
LEMMA NumberingRemove ==
  ASSUME TypeOK, Numbering, NEW m \in Machines, NEW gone \in SUBSET db[m],
         MayDelete(db[m], gone), db' = [db EXCEPT ![m] = @ \ gone],
         UNCHANGED journal
  PROVE  Numbering'
<1>1. JournalNumbered' /\ (NumbersUnique => NumbersUnique')
  BY DEF Numbering, JournalNumbered, NumbersUnique
<1>2. ASSUME NewestKept, ~DeleteNewest PROVE NewestKept'
  <2> SUFFICES ASSUME NEW n \in Machines, NEW x \in journal[n]
               PROVE  \E r \in db'[n] : x.seq <= r.id
    BY DEF NewestKept
  <2>1. PICK r \in db[n] : x.seq <= r.id
    BY <1>2 DEF NewestKept
  <2>2. x.seq \in Nat /\ r.id \in Nat
    BY DEF TypeOK, Record, Row
  <2>3. CASE n = m /\ r \in gone
    <3>1. PICK y \in db[m] \ gone : r.id < y.id
      BY <1>2, <2>3 DEF MayDelete
    <3>2. y.id \in Nat /\ y \in db'[m]
      BY <3>1 DEF TypeOK, Row
    <3>3. QED BY <2>1, <2>2, <2>3, <3>1, <3>2
  <2>4. CASE ~(n = m /\ r \in gone)
    BY <2>1, <2>4 DEF TypeOK
  <2>5. QED BY <2>3, <2>4
<1>3. QED BY <1>1, <1>2 DEF Numbering

\* Inserting rows alone disturbs nothing.
LEMMA NumberingGrow ==
  ASSUME Numbering, \A m \in Machines : db[m] \subseteq db'[m], UNCHANGED journal
  PROVE  Numbering'
BY DEF Numbering, JournalNumbered, NewestKept, NumbersUnique

\* Numbering is inductive.
LEMMA NumberingNext == TypeOK /\ Numbering /\ [Next]_vars => Numbering'
<1> SUFFICES ASSUME TypeOK, Numbering, [Next]_vars PROVE Numbering'
  OBVIOUS
<1> USE DEF dbVars, fileVars, netVars, history
<1>1. ASSUME NEW m \in Machines, User(m) PROVE Numbering'
  <2>1. CASE AddCommand(m)
    BY <2>1, NumberingAdd
  <2>2. CASE Delete(m)
    <3>1. PICK r \in db[m] : MayDelete(db[m], {r}) /\ db' = [db EXCEPT ![m] = @ \ {r}]
      BY <2>2 DEF Delete
    <3>2. UNCHANGED journal
      BY <2>2 DEF Delete
    <3>3. QED BY <3>1, <3>2, NumberingRemove
  <2>3. ASSUME NEW s \in HistSeqs, AddHistory(m, s) PROVE Numbering'
    BY <2>3, NumberingGrow DEF AddHistory, TypeOK
  <2>4. ASSUME NEW c \in Command, Prune(m, c + 1) PROVE Numbering'
    <3> DEFINE gone == {r \in db[m] : r.body < c + 1}
    <3>1. MayDelete(db[m], gone) /\ db' = [db EXCEPT ![m] = @ \ gone] /\ UNCHANGED journal
      BY <2>4 DEF Prune
    <3>2. gone \in SUBSET db[m]
      OBVIOUS
    <3>3. QED BY <3>1, <3>2, NumberingRemove
  <2>5. QED BY <1>1, <2>1, <2>2, <2>3, <2>4 DEF User
<1>2. ASSUME NEW p \in Exporters, Export(p) \/ CrashExport(p) PROVE Numbering'
  <2>1. UNCHANGED <<db, journal>>
    BY <1>2 DEF Export, CrashExport, StartExport, FetchBatch, SkipIgnored,
       AppendRow, FlushTail, SaveState, SaveMeta
  <2>2. QED BY <2>1, NumberingGrow
<1>3. ASSUME NEW p \in Importers, Import(p) \/ CrashImport(p) PROVE Numbering'
  <2>1. CASE InsertRecord(p)
    <3>1. PICK row : db' = db \/ db' = [db EXCEPT ![Home[p]] = @ \cup {row}]
      BY <2>1 DEF InsertRecord
    <3>2. \A m \in Machines : db[m] \subseteq db'[m]
      BY <3>1 DEF TypeOK
    <3>3. UNCHANGED journal
      BY <2>1 DEF InsertRecord
    <3>4. QED BY <3>2, <3>3, NumberingGrow
  <2>2. CASE UNCHANGED <<db, journal>>
    BY <2>2, NumberingGrow
  <2>3. QED BY <1>3, <2>1, <2>2 DEF Import, CrashImport, StartImport, SkipDir, OpenDir,
        SkipSegment, ReadSegment, ReadTorn, CommitSegment, CloseDir, EndImport
<1>4. ASSUME NEW n \in Machines, NEW m \in Machines, Synchroniser(n, m) PROVE Numbering'
  <2>1. UNCHANGED <<db, journal>>
    BY <1>4 DEF Synchroniser, DeliverMeta, Deliver, DeliverPartly
  <2>2. QED BY <2>1, NumberingGrow
<1>5. CASE UNCHANGED vars
  BY <1>5, NumberingGrow DEF vars
<1>6. QED BY <1>1, <1>2, <1>3, <1>4, <1>5 DEF Next

\* It holds in every reachable state.
LEMMA NumberingAlways == Spec => []Numbering
BY NumberingInit, NumberingNext, TypeCorrect, PTL DEF Spec
-----------------------------------------------------------------------------
\* Recording a command is an Append of the promise.
LEMMA RefineAdd ==
  ASSUME TypeOK, Numbering, ~DeleteNewest, NEW m \in Machines, AddCommand(m)
  PROVE  Promise!Next
<1>1. PICK id \in NextIds(db[m]) :
        journal' = [journal EXCEPT ![m] = @ \cup {[seq |-> id, body |-> clock']}]
  BY DEF AddCommand
<1>2. /\ id \in 1..MaxId /\ clock' \in Command
      /\ \A r \in db[m] : r.id < id
  BY SyncAssumption
     DEF AddCommand, NextIds, IsNextId, Command, TypeOK, SyncAssumption
<1> DEFINE rec == [seq |-> id, body |-> clock']
<1>3. rec \in Promise!Record
  BY <1>2 DEF Promise!Record
<1>4. \A x \in journal[m] : x.seq < rec.seq
  BY <1>2 DEF Numbering, NewestKept, TypeOK, Record, Row
<1>5. Promise!Append(m, rec)
  BY <1>1, <1>4 DEF Promise!Append, AddCommand
<1>6. QED BY <1>3, <1>5 DEF Promise!Next

\* Importing a record is a Take of the promise, or nothing if the record has
\* been taken before and its row deleted since.
LEMMA RefineInsert ==
  ASSUME TypeOK, Sound, Numbering, ~DeleteNewest, NEW p \in Importers, InsertRecord(p)
  PROVE  Promise!Next \/ UNCHANGED Promise!vars
<1> DEFINE n == Home[p]
           m == imp[p].from
<1>0. n \in Machines /\ m \in Machines /\ m # n
  BY HomeMachine
     DEF InsertRecord, TypeOK, ImpState, Sound, Provenance, ImportersHoldForeign
<1>1. UNCHANGED journal
  BY DEF InsertRecord
<1>2. PICK r \in imp[p].recs :
        imported' = imported \/ imported' = [imported EXCEPT ![n][m] = @ \cup {r}]
  BY DEF InsertRecord
<1>3. r \in journal[m] /\ imported[n][m] \subseteq journal[m]
  BY <1>0 DEF Sound, Provenance, ImportersHoldForeign, ImportedRecorded
<1>4. CASE imported' = imported
  BY <1>1, <1>4 DEF Promise!vars
<1>5. CASE imported' # imported
  <2>1. imported' = [imported EXCEPT ![n][m] = @ \cup {r}]
    BY <1>2, <1>5
  <2>2. r \notin imported[n][m]
    <3> SUFFICES ASSUME r \in imported[n][m] PROVE FALSE
      OBVIOUS
    <3>1. imported[n][m] \cup {r} = imported[n][m]
      OBVIOUS
    <3>2. QED BY <1>0, <1>5, <2>1, <3>1 DEF TypeOK
  <2>3. \A x \in imported[n][m] : x.seq # r.seq
    BY <1>0, <1>3, <2>2 DEF Numbering, NumbersUnique
  <2>4. Promise!Take(n, m, r)
    BY <1>0, <1>1, <1>3, <2>1, <2>3 DEF Promise!Take
  <2>5. QED BY <1>0, <1>3, <2>4 DEF Promise!Next
<1>6. QED BY <1>4, <1>5

\* Every other step is a stutter.
LEMMA RefineStep ==
  ASSUME TypeOK, Sound, Numbering, ~DeleteNewest, [Next]_vars
  PROVE  [Promise!Next]_(Promise!vars)
<1> USE DEF dbVars, fileVars, netVars, history
<1>1. ASSUME UNCHANGED <<journal, imported>> PROVE UNCHANGED Promise!vars
  BY <1>1 DEF Promise!vars
<1>2. CASE \E m \in Machines : User(m)
  BY <1>1, <1>2, RefineAdd DEF User, Delete, AddHistory, Prune
<1>3. CASE \E p \in Exporters : Export(p) \/ CrashExport(p)
  BY <1>1, <1>3 DEF Export, CrashExport, StartExport, FetchBatch, SkipIgnored,
     AppendRow, FlushTail, SaveState, SaveMeta
<1>4. CASE \E p \in Importers : Import(p) \/ CrashImport(p)
  BY <1>1, <1>4, RefineInsert
     DEF Import, CrashImport, StartImport, SkipDir, OpenDir,
     SkipSegment, ReadSegment, ReadTorn, CommitSegment, CloseDir, EndImport
<1>5. CASE \E n, m \in Machines : Synchroniser(n, m)
  BY <1>1, <1>5 DEF Synchroniser, DeliverMeta, Deliver, DeliverPartly
<1>6. CASE UNCHANGED vars
  BY <1>1, <1>6 DEF vars
<1>7. QED BY <1>2, <1>3, <1>4, <1>5, <1>6 DEF Next

\* As long as the newest row of a database is never deleted, sync as it is
\* implemented -- marks, segments, batches, crashes, overlapping processes,
\* late and torn files -- does what ReplicatedHistory promises: replicas take
\* only what journals hold, once per number.
THEOREM Refinement == ~DeleteNewest => (Spec => ImplementsPromise)
<1> SUFFICES ASSUME ~DeleteNewest PROVE Spec => ImplementsPromise
  OBVIOUS
<1>1. Init => Promise!Init
  BY DEF Init, Promise!Init
<1>2. TypeOK /\ Sound /\ Numbering /\ [Next]_vars => [Promise!Next]_(Promise!vars)
  BY RefineStep
<1>3. QED
  BY <1>1, <1>2, TypeCorrect, SoundAlways, NumberingAlways, PTL
     DEF Spec, ImplementsPromise, Promise!Spec

-----------------------------------------------------------------------------
(***************************************************************************)
(* The marks: what export and meta.json claim to be past is in the log     *)
(* (ExportComplete), and what an importer's mark has passed has been       *)
(* imported (NoGap).  Both hold as long as the newest row of a database is *)
(* never deleted; the second, if segments are delivered in their order.    *)
(***************************************************************************)

\* The commands of m that are to reach the others.
Due(m) == {r \in db[m] : r.by = Local /\ ~r.ignored}

\* A number that no row of m will be given any more.
Given(m, k) == k = 0 \/ \E r \in db[m] : k <= r.id

\* The table numbers its rows, finitely many, from 1 on.
TableNumbered ==
  \A m \in Machines :
    /\ IsFiniteSet(db[m])
    /\ \A r \in db[m] : r.id > 0
    /\ \A r, s \in db[m] : r.id = s.id => r = s

Spans(name, k) == name.first <= k /\ k <= name.last

\* A segment has the records of the rows it spans, and no others.
Full(m, s) ==
  /\ \A x \in s.recs : Spans(s.name, x.seq)
  /\ \A y \in Due(m) : Spans(s.name, y.id) => AsRecord(y) \in s.recs

\* The due rows up to k are in segments of the log that end there.
LoggedUpTo(m, k) ==
  \A y \in Due(m) : y.id <= k =>
    \E s \in log[m] : AsRecord(y) \in s.recs /\ s.name.last <= k

\* A mark is safe: no new row gets a number below it, the rows up to it are in
\* the log.
MarksLogged ==
  \A m \in Machines : \A k \in {exportHwm[m], meta[m]} : Given(m, k) /\ LoggedUpTo(m, k)

\* Before each segment of a log nothing is missing.
Whole(m, s) ==
  /\ s.name.first <= s.name.last /\ Given(m, s.name.last)
  /\ Full(m, s)
  /\ \E k \in Nat : /\ k < s.name.first /\ Given(m, k) /\ LoggedUpTo(m, k)
                    /\ \A y \in Due(m) : y.id < s.name.first => y.id <= k

LogWhole == \A m \in Machines : \A s \in log[m] : Whole(m, s)

\* What an exporter has in hand: there is a number up to which the rows are in
\* the log, and those from there to the last one it saw are pending; those it
\* is about to see follow without a gap.
InHand(m, e) ==
  /\ Given(m, e.last)
  /\ \E k \in Nat :
       /\ k <= e.last /\ Given(m, k) /\ LoggedUpTo(m, k)
       /\ \A a \in e.pending : k < a.seq /\ a.seq <= e.last
       /\ \A y \in Due(m) : k < y.id /\ y.id <= e.last => AsRecord(y) \in e.pending
  /\ \A x \in e.todo :
       /\ Given(m, x.id) /\ e.last < x.id
       /\ \A y \in Due(m) : e.last < y.id /\ y.id <= x.id => y \in e.todo
       /\ \A z \in e.todo : z.id = x.id => z = x
  /\ e.pc # "scan" => e.todo = {}
  /\ e.pc \in {"state", "meta"} => e.pending = {}

ExportersInStep == \A p \in Exporters : InHand(Home[p], exp[p])

\* What every step does to a table, and to a log.
TableStep ==
  \A m \in Machines :
    /\ \A k \in Nat : Given(m, k) => Given(m, k)'
    /\ \A y \in Due(m)' : \/ y \in Due(m)
                          \/ y.id \in Nat /\ \A k \in Nat : Given(m, k) => k < y.id

LogStep ==
  \A m \in Machines : \A s \in log[m], y \in Due(m) :
    AsRecord(y) \in s.recs =>
      \E u \in log'[m] : u.name = s.name /\ AsRecord(y) \in u.recs

Marks == TableNumbered /\ MarksLogged /\ LogWhole /\ ExportersInStep
-----------------------------------------------------------------------------
Has(n, m, y) == AsRecord(y) \in imported[n][m]

\* What has been delivered, in whole or in part, has no gaps.
DeliveredInOrder ==
  \A n, m \in Machines : n # m =>
    /\ \A s \in view[n][m] : Full(m, s)
    /\ \A a \in Names(n, m) :
         /\ Given(m, a.last)
         /\ \A y \in Due(m) : y.id <= a.last => \E b \in Names(n, m) : Spans(b, y.id)

MarksImported ==
  \A n, m \in Machines :
    /\ Given(m, importHwm[n][m])
    /\ \A y \in Due(m) : y.id <= importHwm[n][m] => Has(n, m, y)

\* What an importer at n has in hand of m's log: the rows up to its mark are
\* in, those of the segment it has read are in or in hand, and those before any
\* segment it will read are in, in hand, or in another one of these.
Underway(n, m, i) ==
  /\ Given(m, i.hwm)
  /\ \A y \in Due(m) : y.id <= i.hwm => Has(n, m, y)
  /\ \A a \in i.segs :
       /\ Given(m, a.last)
       /\ \A y \in Due(m) : y.id <= a.last =>
            \/ Has(n, m, y) \/ AsRecord(y) \in i.recs
            \/ \E b \in i.segs : Spans(b, y.id)
  /\ i.pc = "segs" => i.mark <= i.hwm /\ i.recs = {}
  /\ i.pc = "recs" =>
       /\ Given(m, i.last) /\ i.mark <= i.last
       /\ \A x \in i.recs : x.seq <= i.last
       /\ \A y \in Due(m) : y.id <= i.last => Has(n, m, y) \/ AsRecord(y) \in i.recs

ImportersInStep ==
  \A p \in Importers :
    imp[p].pc \in {"segs", "recs"} => Underway(Home[p], imp[p].from, imp[p])

RowsImported ==
  \A n, m \in Machines : \A r \in db[n] : r.by = m => RowRecord(r) \in imported[n][m]

Imports == DeliveredInOrder /\ MarksImported /\ ImportersInStep /\ RowsImported
-----------------------------------------------------------------------------
\* A new row gets a number that no row has had: those given stay given.
LEMMA TableGrow ==
  ASSUME TypeOK, TableNumbered, NEW m \in Machines, NEW row \in Row,
         row.id \in NextIds(db[m]), db' = [db EXCEPT ![m] = @ \cup {row}]
  PROVE  TableNumbered' /\ TableStep
<1>1. /\ row.id \in Nat /\ row.id > 0 /\ \A r \in db[m] : r.id < row.id
  BY SyncAssumption DEF SyncAssumption, NextIds, IsNextId
<1>2. \A n \in Machines : db'[n] = IF n = m THEN db[m] \cup {row} ELSE db[n]
  BY DEF TypeOK
<1>3. \A n \in Machines : \A r \in db[n] : r.id \in Nat
  BY DEF TypeOK, Row
<1>4. IsFiniteSet(db[m] \cup {row})
  BY FS_AddElement DEF TableNumbered
<1>5. TableNumbered'
  BY <1>1, <1>2, <1>3, <1>4 DEF TableNumbered
<1>6. ASSUME NEW n \in Machines, NEW k \in Nat, Given(n, k)
      PROVE  Given(n, k)' /\ (n = m => k < row.id)
  BY <1>1, <1>2, <1>3, <1>6 DEF Given
<1>7. \A n \in Machines : \A y \in Due(n)' : y \in Due(n) \/ (n = m /\ y = row)
  BY <1>2 DEF Due
<1>8. QED BY <1>1, <1>5, <1>6, <1>7 DEF TableStep

\* A deletion that spares the newest row takes no number back.
LEMMA TableShrink ==
  ASSUME TypeOK, TableNumbered, ~DeleteNewest, NEW m \in Machines,
         NEW gone \in SUBSET db[m], MayDelete(db[m], gone),
         db' = [db EXCEPT ![m] = @ \ gone]
  PROVE  TableNumbered' /\ TableStep
<1>1. \A n \in Machines : db'[n] = IF n = m THEN db[m] \ gone ELSE db[n]
  BY DEF TypeOK
<1>2. \A n \in Machines : \A r \in db[n] : r.id \in Nat
  BY DEF TypeOK, Row
<1>3. IsFiniteSet(db[m] \ gone)
  BY FS_Difference DEF TableNumbered
<1>4. TableNumbered'
  BY <1>1, <1>3 DEF TableNumbered
<1>5. ASSUME NEW n \in Machines, NEW k \in Nat, Given(n, k)
      PROVE  Given(n, k)'
  <2>1. CASE k = 0 \/ n # m
    BY <1>1, <1>5, <2>1 DEF Given
  <2>2. CASE k # 0 /\ n = m
    <3>1. PICK r \in db[m] : k <= r.id
      BY <1>5, <2>2 DEF Given
    <3>2. \E y \in db[m] \ gone : r.id <= y.id
      BY <1>2, <3>1 DEF MayDelete
    <3>3. QED BY <1>1, <1>2, <2>2, <3>1, <3>2 DEF Given
  <2>3. QED BY <2>1, <2>2
<1>6. \A n \in Machines : Due(n)' \subseteq Due(n)
  BY <1>1 DEF Due
<1>7. QED BY <1>4, <1>5, <1>6 DEF TableStep

\* Where no row comes or goes, nothing changes.
LEMMA TableSame ==
  ASSUME TableNumbered, UNCHANGED db
  PROVE  TableNumbered' /\ TableStep
BY DEF TableNumbered, TableStep, Given, Due

\* What may happen to the tables in a step.
LEMMA TableNext ==
  ASSUME TypeOK, TableNumbered, ~DeleteNewest, [Next]_vars
  PROVE  TableNumbered' /\ TableStep
<1> USE DEF dbVars, fileVars, netVars, history
<1>1. ASSUME NEW m \in Machines, User(m) PROVE TableNumbered' /\ TableStep
  <2>1. CASE AddCommand(m)
    <3>1. PICK id \in NextIds(db[m]), ign \in BOOLEAN :
            db' = [db EXCEPT ![m] = @ \cup {[id |-> id, by |-> Local, seq |-> 0,
                                           body |-> clock', ignored |-> ign]}]
      BY <2>1 DEF AddCommand
    <3> DEFINE row == [id |-> id, by |-> Local, seq |-> 0, body |-> clock', ignored |-> ign]
    <3>2. clock' \in Command /\ id \in Nat
      BY <2>1, SyncAssumption DEF AddCommand, TypeOK, Command, NextIds, SyncAssumption
    <3>3. row \in Row /\ row.id \in NextIds(db[m])
      BY <3>2 DEF Row, Origin
    <3>4. QED BY <3>1, <3>3, TableGrow
  <2>2. ASSUME NEW s \in HistSeqs, AddHistory(m, s) PROVE TableNumbered' /\ TableStep
    <3>1. PICK id \in NextIds(db[m]) :
            db' = [db EXCEPT ![m] = @ \cup {[id |-> id, by |-> Hist, seq |-> s,
                                          body |-> 0, ignored |-> FALSE]}]
      BY <2>2 DEF AddHistory
    <3> DEFINE row == [id |-> id, by |-> Hist, seq |-> s, body |-> 0, ignored |-> FALSE]
    <3>2. id \in Nat /\ s \in Nat
      BY SyncAssumption DEF NextIds, SyncAssumption
    <3>3. row \in Row /\ row.id \in NextIds(db[m])
      BY <3>2 DEF Row, Origin
    <3>4. QED BY <3>1, <3>3, TableGrow
  <2>3. CASE Delete(m)
    <3>1. PICK r \in db[m] : MayDelete(db[m], {r}) /\ db' = [db EXCEPT ![m] = @ \ {r}]
      BY <2>3 DEF Delete
    <3>2. QED BY <3>1, TableShrink
  <2>4. ASSUME NEW c \in Command, Prune(m, c + 1) PROVE TableNumbered' /\ TableStep
    <3> DEFINE gone == {r \in db[m] : r.body < c + 1}
    <3>1. MayDelete(db[m], gone) /\ db' = [db EXCEPT ![m] = @ \ gone]
      BY <2>4 DEF Prune
    <3>2. gone \in SUBSET db[m]
      OBVIOUS
    <3>3. QED BY <3>1, <3>2, TableShrink
  <2>5. QED BY <1>1, <2>1, <2>2, <2>3, <2>4 DEF User
<1>2. ASSUME NEW p \in Importers, InsertRecord(p) PROVE TableNumbered' /\ TableStep
  <2>1. PICK r \in imp[p].recs :
          \/ UNCHANGED db
          \/ \E id \in NextIds(db[Home[p]]) :
               db' = [db EXCEPT ![Home[p]] = @ \cup
                        {[id |-> id, by |-> imp[p].from, seq |-> r.seq,
                          body |-> r.body, ignored |-> FALSE]}]
    BY <1>2 DEF InsertRecord
  <2>2. /\ Home[p] \in Machines /\ imp[p].from \in Machines
        /\ r.seq \in Nat /\ r.body \in Command \cup {0}
    BY HomeMachine DEF TypeOK, ImpState, Record
  <2>3. ASSUME NEW id \in NextIds(db[Home[p]]),
               db' = [db EXCEPT ![Home[p]] = @ \cup
                        {[id |-> id, by |-> imp[p].from, seq |-> r.seq,
                          body |-> r.body, ignored |-> FALSE]}]
        PROVE  TableNumbered' /\ TableStep
    <3> DEFINE row == [id |-> id, by |-> imp[p].from, seq |-> r.seq,
                       body |-> r.body, ignored |-> FALSE]
    <3>1. id \in Nat
      BY SyncAssumption DEF NextIds, SyncAssumption
    <3>2. row \in Row /\ row.id \in NextIds(db[Home[p]])
      BY <2>2, <3>1 DEF Row, Origin
    <3>3. QED BY <2>2, <2>3, <3>2, TableGrow
  <2>4. QED BY <2>1, <2>3, TableSame
<1>3. CASE UNCHANGED db
  BY <1>3, TableSame
<1>4. ASSUME NEW p \in Importers, Import(p) \/ CrashImport(p)
      PROVE  InsertRecord(p) \/ UNCHANGED db
  BY <1>4 DEF Import, CrashImport, StartImport, SkipDir, OpenDir,
     SkipSegment, ReadSegment, ReadTorn, CommitSegment, CloseDir, EndImport
<1>5. ASSUME NEW p \in Exporters, Export(p) \/ CrashExport(p) PROVE UNCHANGED db
  BY <1>5 DEF Export, CrashExport, StartExport, FetchBatch, SkipIgnored,
     AppendRow, FlushTail, SaveState, SaveMeta
<1>6. ASSUME NEW n \in Machines, NEW m \in Machines, Synchroniser(n, m) PROVE UNCHANGED db
  BY <1>6 DEF Synchroniser, DeliverMeta, Deliver, DeliverPartly
<1>7. CASE UNCHANGED vars
  BY <1>3, <1>7 DEF vars
<1>8. QED BY <1>1, <1>2, <1>3, <1>4, <1>5, <1>6, <1>7 DEF Next
-----------------------------------------------------------------------------
\* Numbers are typed; what is below a given number is given.
LEMMA Numbers ==
  ASSUME TypeOK
  PROVE  /\ \A m \in Machines : \A r \in db[m] : r.id \in Nat
         /\ \A m \in Machines : \A y \in Due(m) : y.id \in Nat
         /\ \A m \in Machines : \A s \in log[m] :
              /\ s.name.first \in Nat /\ s.name.last \in Nat
              /\ \A x \in s.recs : x.seq \in Nat
         /\ \A m \in Machines : exportHwm[m] \in Nat /\ meta[m] \in Nat
         /\ \A m \in Machines, k, l \in Nat : k <= l /\ Given(m, l) => Given(m, k)
<1>1. \A m \in Machines : db[m] \subseteq Row /\ log[m] \subseteq Segment
  BY DEF TypeOK
<1>2. \A r \in Row : r.id \in Nat
  BY DEF Row
<1>3. \A s \in Segment : /\ s.name.first \in Nat /\ s.name.last \in Nat
                        /\ \A x \in s.recs : x.seq \in Nat
  BY DEF Segment, Name, Record
<1>4. \A m \in Machines, k, l \in Nat : k <= l /\ Given(m, l) => Given(m, k)
  BY <1>1, <1>2 DEF Given
<1>5. QED BY <1>1, <1>2, <1>3, <1>4 DEF Due, TypeOK

\* What is in the log up to a given number stays there: of the rows up to it
\* none is new, and a segment is only replaced by one that has the same rows.
LEMMA LoggedKept ==
  ASSUME TypeOK, TableStep, LogStep, NEW m \in Machines, NEW k \in Nat,
         Given(m, k), LoggedUpTo(m, k)
  PROVE  LoggedUpTo(m, k)'
<1> SUFFICES ASSUME NEW y \in Due(m)', y.id <= k
             PROVE  \E s \in log'[m] : AsRecord(y) \in s.recs /\ s.name.last <= k
  BY DEF LoggedUpTo
<1>1. y \in Due(m)
  BY DEF TableStep
<1>2. PICK s \in log[m] : AsRecord(y) \in s.recs /\ s.name.last <= k
  BY <1>1 DEF LoggedUpTo
<1>3. PICK u \in log'[m] : u.name = s.name /\ AsRecord(y) \in u.recs
  BY <1>1, <1>2 DEF LogStep
<1>4. QED BY <1>2, <1>3

\* What an exporter has in hand is as good after any step of another process.
LEMMA InHandKept ==
  ASSUME TypeOK, TableStep, LogStep, NEW m \in Machines, NEW e \in ExpState, InHand(m, e)
  PROVE  InHand(m, e)'
<1>1. /\ e.last \in Nat
      /\ \A x \in e.todo : x.id \in Nat
  BY DEF ExpState, Row
<1>2. ASSUME NEW k \in Nat, Given(m, k)
      PROVE  Given(m, k)' /\ \A y \in Due(m)' : y \in Due(m) \/ ~(y.id <= k)
  BY <1>2 DEF TableStep
<1>3. Given(m, e.last)'
  BY <1>1, <1>2 DEF InHand
<1>4. PICK k \in Nat :
        /\ k <= e.last /\ Given(m, k) /\ LoggedUpTo(m, k)
        /\ \A a \in e.pending : k < a.seq /\ a.seq <= e.last
        /\ \A y \in Due(m) : k < y.id /\ y.id <= e.last => AsRecord(y) \in e.pending
  BY DEF InHand
<1>5. Given(m, k)' /\ LoggedUpTo(m, k)'
  BY <1>2, <1>4, LoggedKept
<1>6. \A y \in Due(m)' : k < y.id /\ y.id <= e.last => AsRecord(y) \in e.pending
  BY <1>1, <1>2, <1>4 DEF InHand, AsRecord
<1>7. ASSUME NEW x \in e.todo
      PROVE  /\ Given(m, x.id)'
             /\ \A y \in Due(m)' : e.last < y.id /\ y.id <= x.id => y \in e.todo
  BY <1>1, <1>2 DEF InHand
<1>8. QED BY <1>3, <1>4, <1>5, <1>6, <1>7 DEF InHand

\* So is a segment: no row it spans is new.
LEMMA FullKept ==
  ASSUME TypeOK, TableStep, NEW m \in Machines, NEW s \in Segment,
         Given(m, s.name.last), Full(m, s)
  PROVE  Given(m, s.name.last)' /\ Full(m, s)'
<1>1. s.name.first \in Nat /\ s.name.last \in Nat
  BY DEF Segment, Name
<1>2. /\ Given(m, s.name.last)'
      /\ \A y \in Due(m)' : y \in Due(m) \/ ~(y.id <= s.name.last)
  BY <1>1 DEF TableStep
<1>3. QED BY <1>2 DEF Full, Spans, AsRecord

\* And what is before a segment: it had no gap, and no new row is below it.
LEMMA WholeKept ==
  ASSUME TypeOK, TableStep, LogStep, NEW m \in Machines, NEW s \in Segment, Whole(m, s)
  PROVE  Whole(m, s)'
<1>1. s.name.first \in Nat /\ s.name.last \in Nat
  BY DEF Segment, Name
<1>2. Given(m, s.name.last)' /\ Full(m, s)'
  BY FullKept DEF Whole
<1>3. PICK k \in Nat : /\ k < s.name.first /\ Given(m, k) /\ LoggedUpTo(m, k)
                       /\ \A y \in Due(m) : y.id < s.name.first => y.id <= k
  BY DEF Whole
<1>4. Given(m, k)' /\ LoggedUpTo(m, k)'
  BY <1>3, LoggedKept DEF TableStep
<1>5. \A y \in Due(m)' : y.id < s.name.first => y.id <= k
  <2> SUFFICES ASSUME NEW y \in Due(m)', y.id < s.name.first PROVE y.id <= k
    OBVIOUS
  <2>1. CASE y \in Due(m)
    BY <1>3, <2>1
  <2>2. CASE y.id \in Nat /\ \A l \in Nat : Given(m, l) => l < y.id
    <3>1. s.name.last < y.id
      BY <1>1, <2>2 DEF Whole
    <3>2. QED BY <1>1, <2>2, <3>1 DEF Whole
  <2>3. QED BY <2>1, <2>2 DEF TableStep
<1>6. QED BY <1>2, <1>3, <1>4, <1>5 DEF Whole
-----------------------------------------------------------------------------
\* A new segment: it holds the rows between a number up to which they are in the
\* log and the last one the exporter saw.  The segment it replaces, if there is
\* one of the same name, had no others.
LEMMA WriteWhole ==
  ASSUME TypeOK, LogWhole, UNCHANGED db, NEW m \in Machines,
         NEW recs \in SUBSET Record, NEW seg \in SegmentsOf(recs), WriteSegment(m, seg),
         NEW k \in Nat, NEW last \in Nat, k <= last,
         Given(m, k), Given(m, last), LoggedUpTo(m, k),
         \A a \in recs : k < a.seq /\ a.seq <= last,
         \A y \in Due(m) : k < y.id /\ y.id <= last => AsRecord(y) \in recs
  PROVE  LogStep /\ LogWhole' /\ LoggedUpTo(m, last)'
<1> DEFINE first == seg.name.first
           end   == seg.name.last
<1>1. /\ seg \in Segment /\ seg.recs = recs
      /\ first \in Nat /\ end \in Nat /\ \A x \in recs : x.seq \in Nat
  BY SegmentsTyped DEF Segment, Name, Record
<1>2. /\ \A x \in recs : Spans(seg.name, x.seq)
      /\ \E a \in recs : a.seq = first
      /\ \E b \in recs : b.seq = end
  BY DEF SegmentsOf, Spans
<1>3. k < first /\ first <= end /\ end <= last
  BY <1>1, <1>2 DEF Spans
<1>4. \A n \in Machines : log'[n] = IF n = m THEN {s \in log[m] : s.name # seg.name} \cup {seg}
                                    ELSE log[n]
  BY DEF WriteSegment, TypeOK
<1>5. \A n \in Machines : /\ Due(n)' = Due(n)
                          /\ \A l : Given(n, l)' <=> Given(n, l)
  BY DEF Due, Given
<1>6. TableStep
  BY <1>5 DEF TableStep
<1>7. \A y \in Due(m) : y.id \in Nat
  BY Numbers
<1>8. \A y \in Due(m) : Spans(seg.name, y.id) => AsRecord(y) \in seg.recs
  BY <1>1, <1>3, <1>7 DEF Spans
<1>9. LogStep
  <2> SUFFICES ASSUME NEW n \in Machines, NEW s \in log[n], NEW y \in Due(n),
                      AsRecord(y) \in s.recs
               PROVE  \E u \in log'[n] : u.name = s.name /\ AsRecord(y) \in u.recs
    BY DEF LogStep
  <2>1. CASE n # m \/ s.name # seg.name
    BY <1>4, <2>1
  <2>2. CASE n = m /\ s.name = seg.name
    <3>1. Spans(s.name, y.id)
      BY DEF LogWhole, Whole, Full, AsRecord
    <3>2. AsRecord(y) \in seg.recs
      BY <1>8, <2>2, <3>1
    <3>3. QED BY <1>4, <2>2, <3>2
  <2>3. QED BY <2>1, <2>2
<1>10. LoggedUpTo(m, k)'
  BY <1>6, <1>9, LoggedKept
<1>11. LoggedUpTo(m, last)'
  <2> SUFFICES ASSUME NEW y \in Due(m), y.id <= last
               PROVE  \E s \in log'[m] : AsRecord(y) \in s.recs /\ s.name.last <= last
    BY <1>5 DEF LoggedUpTo
  <2>1. CASE y.id <= k
    <3>1. PICK s \in log'[m] : AsRecord(y) \in s.recs /\ s.name.last <= k
      BY <1>5, <1>10, <2>1 DEF LoggedUpTo
    <3>2. s.name.last \in Nat
      BY <1>1, <1>4, Numbers
    <3>3. QED BY <3>1, <3>2
  <2>2. CASE k < y.id
    BY <1>1, <1>3, <1>4, <2>2
  <2>3. QED BY <1>7, <2>1, <2>2
<1>12. Whole(m, seg)'
  <2>1. Given(m, end)' /\ Given(m, k)'
    BY <1>1, <1>3, <1>5, Numbers
  <2>2. Full(m, seg)'
    BY <1>1, <1>2, <1>5, <1>8 DEF Full, AsRecord
  <2>3. \A y \in Due(m)' : y.id < first => y.id <= k
    <3> SUFFICES ASSUME NEW y \in Due(m), y.id < first, ~(y.id <= k) PROVE FALSE
      BY <1>5
    <3>1. AsRecord(y) \in recs
      BY <1>1, <1>3, <1>7
    <3>2. QED BY <1>1, <1>2, <1>7, <3>1 DEF Spans, AsRecord
  <2>4. QED BY <1>3, <1>10, <2>1, <2>2, <2>3 DEF Whole
<1>13. LogWhole'
  <2> SUFFICES ASSUME NEW n \in Machines, NEW s \in log'[n] PROVE Whole(n, s)'
    BY DEF LogWhole
  <2>1. CASE n = m /\ s = seg
    BY <1>12, <2>1
  <2>2. CASE s \in log[n]
    <3>1. s \in Segment
      BY <2>2 DEF TypeOK
    <3>2. QED BY <1>6, <1>9, <2>2, <3>1, WholeKept DEF LogWhole
  <2>3. QED BY <1>4, <2>1, <2>2
<1>14. QED BY <1>9, <1>11, <1>13
-----------------------------------------------------------------------------
\* A step that leaves logs, marks and exporters alone keeps Marks.
LEMMA MarksTables ==
  ASSUME TypeOK, Marks, TableNumbered', TableStep, UNCHANGED <<log, exp, exportHwm, meta>>
  PROVE  Marks'
<1>1. LogStep
  BY DEF LogStep
<1>2. MarksLogged'
  <2> SUFFICES ASSUME NEW m \in Machines, NEW k \in {exportHwm[m], meta[m]}
               PROVE  Given(m, k)' /\ LoggedUpTo(m, k)'
    BY DEF MarksLogged
  <2>1. k \in Nat /\ Given(m, k) /\ LoggedUpTo(m, k)
    BY Numbers DEF Marks, MarksLogged
  <2>2. QED BY <1>1, <2>1, LoggedKept DEF TableStep
<1>3. LogWhole'
  <2> SUFFICES ASSUME NEW m \in Machines, NEW s \in log[m] PROVE Whole(m, s)'
    BY DEF LogWhole
  <2>1. s \in Segment /\ Whole(m, s)
    BY DEF TypeOK, Marks, LogWhole
  <2>2. QED BY <1>1, <2>1, WholeKept
<1>4. ExportersInStep'
  <2> SUFFICES ASSUME NEW p \in Exporters PROVE InHand(Home[p], exp[p])'
    BY DEF ExportersInStep
  <2>1. PICK e \in ExpState : e = exp[p]
    BY DEF TypeOK
  <2>2. InHand(Home[p], e) /\ Home[p] \in Machines
    BY <2>1, HomeMachine DEF Marks, ExportersInStep
  <2>3. InHand(Home[p], e)'
    BY <1>1, <2>2, InHandKept
  <2>4. QED BY <2>1, <2>3
<1>5. QED BY <1>2, <1>3, <1>4 DEF Marks

\* A step of one exporter, and the logs and marks it writes, keep Marks if what
\* it has in hand afterwards is right.
LEMMA MarksExporter ==
  ASSUME TypeOK, Marks, NEW p \in Exporters, NEW e \in ExpState,
         UNCHANGED db, LogStep, LogWhole', MarksLogged',
         exp' = [exp EXCEPT ![p] = e], InHand(Home[p], e)'
  PROVE  Marks'
<1>1. TableNumbered' /\ TableStep
  BY TableSame DEF Marks
<1>2. ASSUME NEW q \in Exporters PROVE InHand(Home[q], exp[q])'
  <2>1. CASE q = p
    <3>1. exp'[q] = e
      BY <2>1 DEF TypeOK
    <3>2. QED BY <2>1, <3>1
  <2>2. CASE q # p
    <3>1. PICK f \in ExpState : f = exp[q]
      BY DEF TypeOK
    <3>2. InHand(Home[q], f) /\ Home[q] \in Machines
      BY <3>1, HomeMachine DEF Marks, ExportersInStep
    <3>3. InHand(Home[q], f)'
      BY <1>1, <3>2, InHandKept
    <3>4. exp'[q] = f
      BY <2>2, <3>1 DEF TypeOK
    <3>5. QED BY <3>3, <3>4
  <2>3. QED BY <2>1, <2>2
<1>3. QED BY <1>1, <1>2 DEF Marks, ExportersInStep
-----------------------------------------------------------------------------
\* Without a new row or segment all that is said of both still holds.
LEMMA FilesSame ==
  ASSUME UNCHANGED <<db, log>>
  PROVE  /\ LogStep
         /\ LogWhole => LogWhole'
         /\ \A m, k : Given(m, k)' <=> Given(m, k)
         /\ \A m, k : LoggedUpTo(m, k)' <=> LoggedUpTo(m, k)
         /\ \A m, e : InHand(m, e)' <=> InHand(m, e)
<1>1. \A m, k : Given(m, k)' <=> Given(m, k)
  BY DEF Given
<1>2. \A m : Due(m)' = Due(m)
  BY DEF Due
<1>3. \A m, k : LoggedUpTo(m, k)' <=> LoggedUpTo(m, k)
  BY <1>2 DEF LoggedUpTo
<1>4. \A m, s : Full(m, s)' <=> Full(m, s)
  BY <1>2 DEF Full
<1>5. \A m, s : Whole(m, s)' <=> Whole(m, s)
  BY <1>1, <1>2, <1>3, <1>4 DEF Whole
<1>6. \A m, e : InHand(m, e)' <=> InHand(m, e)
  BY <1>1, <1>2, <1>3 DEF InHand
<1>7. LogWhole => LogWhole'
  BY <1>5 DEF LogWhole
<1>8. LogStep
  BY DEF LogStep
<1>9. QED BY <1>1, <1>3, <1>6, <1>7, <1>8

\* LocalAfter leaves no row out before one that it returns.
LEMMA BatchContiguous ==
  ASSUME TypeOK, TableNumbered, NEW m \in Machines, NEW after \in Nat,
         NEW x \in LocalAfter(m, after, Batch), NEW y \in LocalRows(m, after), y.id <= x.id
  PROVE  y \in LocalAfter(m, after, Batch)
<1> DEFINE below(r) == {z \in LocalRows(m, after) : z.id < r.id}
<1>1. \A r \in LocalRows(m, after) : r.id \in Nat
  BY Numbers DEF LocalRows
<1>2. x \in LocalRows(m, after) /\ Cardinality(below(x)) < Batch
  BY DEF LocalAfter
<1>3. below(y) \subseteq below(x) /\ below(x) \subseteq db[m]
  BY <1>1, <1>2 DEF LocalRows
<1>4. IsFiniteSet(below(x))
  BY <1>3, FS_Subset DEF TableNumbered
<1>5. IsFiniteSet(below(y)) /\ Cardinality(below(y)) <= Cardinality(below(x))
  BY <1>3, <1>4, FS_Subset
<1>6. Cardinality(below(y)) \in Nat /\ Cardinality(below(x)) \in Nat
  BY <1>4, <1>5, FS_CardinalityType
<1>7. Cardinality(below(y)) < Batch
  BY <1>2, <1>5, <1>6, SyncAssumption DEF SyncAssumption
<1>8. QED BY <1>7 DEF LocalAfter

\* An exporter that takes the first row it has to do passes no other due row.
LEMMA Advance ==
  ASSUME TypeOK, Marks, NEW p \in Exporters, NEW r \in exp[p].todo, FirstTodo(p, r)
  PROVE  LET m == Home[p]
         IN  /\ Given(m, r.id) /\ exp[p].last < r.id
             /\ \A y \in Due(m) : exp[p].last < y.id /\ y.id <= r.id => y = r
             /\ \A x \in exp[p].todo \ {r} :
                  /\ Given(m, x.id) /\ r.id < x.id
                  /\ \A y \in Due(m) : r.id < y.id /\ y.id <= x.id => y \in exp[p].todo \ {r}
                  /\ \A z \in exp[p].todo \ {r} : z.id = x.id => z = x
<1> DEFINE m == Home[p]
<1>1. /\ m \in Machines /\ exp[p] \in ExpState /\ InHand(m, exp[p])
  BY HomeMachine DEF TypeOK, Marks, ExportersInStep
<1>2. exp[p].last \in Nat /\ \A x \in exp[p].todo : x.id \in Nat
  BY <1>1 DEF ExpState, Row
<1>3. \A x \in exp[p].todo :
        /\ Given(m, x.id) /\ exp[p].last < x.id
        /\ \A y \in Due(m) : exp[p].last < y.id /\ y.id <= x.id => y \in exp[p].todo
        /\ \A z \in exp[p].todo : z.id = x.id => z = x
  BY <1>1 DEF InHand
<1>4. \A x \in exp[p].todo : r.id <= x.id
  BY DEF FirstTodo
<1>5. \A y \in Due(m) : y.id \in Nat
  BY <1>1, Numbers
<1>6. \A y \in Due(m) : exp[p].last < y.id /\ y.id <= r.id => y = r
  BY <1>2, <1>3, <1>4
<1>7. ASSUME NEW x \in exp[p].todo \ {r}
      PROVE  /\ r.id < x.id
             /\ \A y \in Due(m) : r.id < y.id /\ y.id <= x.id => y \in exp[p].todo \ {r}
  <2>1. r.id < x.id
    BY <1>2, <1>3, <1>4
  <2>2. ASSUME NEW y \in Due(m), r.id < y.id, y.id <= x.id
        PROVE  y \in exp[p].todo \ {r}
    BY <1>2, <1>3, <1>5, <2>2
  <2>3. QED BY <2>1, <2>2
<1>8. QED BY <1>3, <1>6, <1>7
\* A step of the log alone leaves the marks safe.
LEMMA MarksSame ==
  ASSUME TypeOK, MarksLogged, LogStep, UNCHANGED <<db, exportHwm, meta>>
  PROVE  MarksLogged'
<1>1. \A m \in Machines : \A k : Given(m, k)' <=> Given(m, k)
  BY DEF Given
<1>2. TableStep
  BY <1>1 DEF TableStep, Due
<1>3. ASSUME NEW m \in Machines, NEW k \in {exportHwm[m], meta[m]}
      PROVE  Given(m, k)' /\ LoggedUpTo(m, k)'
  <2>1. k \in Nat /\ Given(m, k) /\ LoggedUpTo(m, k)
    BY Numbers DEF MarksLogged
  <2>2. QED BY <1>1, <1>2, <2>1, LoggedKept
<1>4. QED BY <1>3 DEF MarksLogged

\* An exporter that has nothing in hand but a number up to which all is in the
\* log is in step.
LEMMA InHandAtMark ==
  ASSUME TypeOK, NEW m \in Machines, NEW e \in ExpState, e.pending = {}, e.todo = {},
         Given(m, e.last), LoggedUpTo(m, e.last)
  PROVE  InHand(m, e)
<1>1. e.last \in Nat
  BY DEF ExpState
<1>2. \A y \in Due(m) : ~(e.last < y.id /\ y.id <= e.last)
  BY <1>1, Numbers
<1>3. QED BY <1>1, <1>2 DEF InHand

\* The same, once the log has been written.
LEMMA InHandFlushed ==
  ASSUME TypeOK, UNCHANGED db, NEW m \in Machines, NEW e \in ExpState, e.pending = {},
         e.todo = {}, Given(m, e.last), LoggedUpTo(m, e.last)'
  PROVE  InHand(m, e)'
<1>1. e.last \in Nat /\ Given(m, e.last)'
  BY DEF ExpState, Given
<1>2. \A y \in Due(m)' : ~(e.last < y.id /\ y.id <= e.last)
  BY <1>1, Numbers DEF Due
<1>3. QED BY <1>1, <1>2 DEF InHand

\* Before row 1 there is nothing to log.
LEMMA InHandIdle ==
  ASSUME TypeOK, TableNumbered, NEW m \in Machines
  PROVE  InHand(m, IdleExp) /\ Given(m, 0) /\ LoggedUpTo(m, 0)
<1>1. IdleExp \in ExpState
  BY DEF IdleExp, ExpState
<1>2. \A y \in Due(m) : y.id \in Nat /\ y.id > 0
  BY Numbers DEF TableNumbered, Due
<1>3. Given(m, 0) /\ LoggedUpTo(m, 0)
  BY <1>2 DEF Given, LoggedUpTo
<1>4. QED BY <1>1, <1>3, InHandAtMark DEF IdleExp

\* Every step of an export, and its death, keep Marks.
LEMMA MarksExport ==
  ASSUME TypeOK, Marks, NEW p \in Exporters, Export(p) \/ CrashExport(p)
  PROVE  Marks'
<1> USE DEF dbVars, fileVars, netVars, history
<1> DEFINE m == Home[p]
<1>0. PICK f \in ExpState : f = exp[p]
  BY DEF TypeOK
<1>1. /\ m \in Machines /\ InHand(m, f) /\ TableNumbered /\ LogWhole /\ MarksLogged
      /\ f.last \in Nat
  BY <1>0, HomeMachine DEF Marks, ExportersInStep, ExpState
<1>2. ASSUME UNCHANGED <<db, log, exportHwm, meta>>, NEW e \in ExpState, InHand(m, e),
             exp' = [exp EXCEPT ![p] = e]
      PROVE  Marks'
  <2>1. LogStep /\ LogWhole' /\ MarksLogged' /\ InHand(m, e)'
    BY <1>1, <1>2, FilesSame DEF MarksLogged
  <2>2. QED BY <1>2, <2>1, MarksExporter
<1>3. CASE StartExport(p)
  <2> DEFINE e == [IdleExp EXCEPT !.pc = "scan", !.hwm = exportHwm[m], !.last = exportHwm[m]]
  <2>1. exportHwm[m] \in Nat /\ Given(m, exportHwm[m]) /\ LoggedUpTo(m, exportHwm[m])
    BY <1>1, Numbers DEF MarksLogged
  <2>2. e \in ExpState /\ e.pending = {} /\ e.todo = {} /\ e.last = exportHwm[m]
    BY <2>1 DEF IdleExp, ExpState
  <2>3. InHand(m, e)
    BY <1>1, <2>1, <2>2, InHandAtMark
  <2>4. exp' = [exp EXCEPT ![p] = e]
    BY <1>3 DEF StartExport
  <2>5. QED BY <1>2, <1>3, <2>2, <2>3, <2>4 DEF StartExport
<1>4. CASE FetchBatch(p)
  <2> DEFINE rows == LocalAfter(m, f.last, Batch)
             e == [f EXCEPT !.todo = rows, !.pc = IF rows = {} THEN "tail" ELSE "scan"]
  <2>1. rows \subseteq db[m] /\ rows \subseteq LocalRows(m, f.last) /\ db[m] \subseteq Row
    BY <1>1 DEF LocalAfter, LocalRows, TypeOK
  <2>2. e \in ExpState /\ e.last = f.last /\ e.pending = f.pending /\ e.todo = rows
    BY <2>1 DEF ExpState
  <2>3. exp' = [exp EXCEPT ![p] = e]
    BY <1>0, <1>4 DEF FetchBatch, TypeOK
  <2>4. ASSUME NEW x \in rows
        PROVE  /\ Given(m, x.id) /\ f.last < x.id
               /\ \A y \in Due(m) : f.last < y.id /\ y.id <= x.id => y \in rows
               /\ \A z \in rows : z.id = x.id => z = x
    <3>1. x \in db[m] /\ x.id \in Nat /\ f.last < x.id
      BY <1>1, <2>1, Numbers DEF LocalRows
    <3>2. Given(m, x.id)
      BY <3>1 DEF Given
    <3>3. ASSUME NEW y \in Due(m), f.last < y.id, y.id <= x.id PROVE y \in rows
      <4>1. y \in LocalRows(m, f.last)
        BY <1>1, <3>3, Numbers DEF Due, LocalRows
      <4>2. QED BY <1>1, <3>3, <4>1, BatchContiguous
    <3>4. QED BY <1>1, <2>1, <3>1, <3>2, <3>3 DEF TableNumbered
  <2>5. e.pc \notin {"state", "meta"} /\ (e.pc # "scan" => e.todo = {})
    BY <1>0, <2>2 DEF ExpState
  <2>6. InHand(m, e)
    BY <1>1, <2>2, <2>4, <2>5 DEF InHand
  <2>7. QED BY <1>2, <1>4, <2>2, <2>3, <2>6 DEF FetchBatch
<1>5. CASE SkipIgnored(p)
  <2>1. PICK r \in f.todo : /\ FirstTodo(p, r) /\ r.ignored
                            /\ exp' = [exp EXCEPT ![p].todo = @ \ {r}, ![p].last = r.id]
    BY <1>0, <1>5 DEF SkipIgnored
  <2> DEFINE e == [f EXCEPT !.todo = @ \ {r}, !.last = r.id]
  <2>2. /\ r.id \in Nat /\ e \in ExpState /\ e.last = r.id /\ e.pending = f.pending
        /\ e.todo = f.todo \ {r} /\ e.pc = "scan" /\ f.pending \subseteq Record
    BY <1>0, <2>1 DEF ExpState, Row, FirstTodo
  <2>3. exp' = [exp EXCEPT ![p] = e]
    BY <1>0, <2>1 DEF TypeOK
  <2>4. /\ Given(m, r.id) /\ f.last < r.id
        /\ \A y \in Due(m) : f.last < y.id /\ y.id <= r.id => y = r
        /\ \A x \in f.todo \ {r} :
             /\ Given(m, x.id) /\ r.id < x.id
             /\ \A y \in Due(m) : r.id < y.id /\ y.id <= x.id => y \in f.todo \ {r}
             /\ \A z \in f.todo \ {r} : z.id = x.id => z = x
    BY <1>0, <2>1, Advance
  <2>5. PICK k \in Nat :
          /\ k <= f.last /\ Given(m, k) /\ LoggedUpTo(m, k)
          /\ \A a \in f.pending : k < a.seq /\ a.seq <= f.last
          /\ \A y \in Due(m) : k < y.id /\ y.id <= f.last => AsRecord(y) \in f.pending
    BY <1>1 DEF InHand
  <2>6. \A a \in f.pending : k < a.seq /\ a.seq <= r.id
    BY <1>1, <2>2, <2>4, <2>5 DEF Record
  <2>7. \A y \in Due(m) : k < y.id /\ y.id <= r.id => AsRecord(y) \in f.pending
    <3>1. r \notin Due(m)
      BY <2>1 DEF Due
    <3>2. \A y \in Due(m) : y.id \in Nat
      BY <1>1, Numbers
    <3>3. QED BY <1>1, <2>2, <2>4, <2>5, <3>1, <3>2
  <2>8. k <= r.id
    BY <1>1, <2>2, <2>4, <2>5
  <2>9. InHand(m, e)
    BY <2>2, <2>4, <2>5, <2>6, <2>7, <2>8 DEF InHand
  <2>10. QED BY <1>2, <1>5, <2>2, <2>3, <2>9 DEF SkipIgnored
<1>6. CASE AppendRow(p)
  <2>1. PICK r \in f.todo :
          LET pend == f.pending \cup {AsRecord(r)}
              full == Cardinality(pend) >= SegCap
          IN  /\ FirstTodo(p, r)
              /\ exp' = [exp EXCEPT ![p].todo = @ \ {r}, ![p].last = r.id,
                                    ![p].pending = IF full THEN {} ELSE pend]
              /\ IF full THEN \E seg \in SegmentsOf(pend) : WriteSegment(m, seg)
                         ELSE log' = log
    BY <1>0, <1>6 DEF AppendRow
  <2> DEFINE pend == f.pending \cup {AsRecord(r)}
             full == Cardinality(pend) >= SegCap
             e == [f EXCEPT !.todo = @ \ {r}, !.last = r.id,
                            !.pending = IF full THEN {} ELSE pend]
  <2>2. r \in Row /\ r.id \in Nat /\ f.pending \subseteq Record /\ pend \in SUBSET Record
    BY DEF ExpState, Row, AsRecord, Record
  <2>3. /\ e \in ExpState /\ e.last = r.id /\ e.pending = (IF full THEN {} ELSE pend)
        /\ e.todo = f.todo \ {r} /\ e.pc = "scan"
    BY <1>0, <2>1, <2>2 DEF ExpState, FirstTodo
  <2>4. exp' = [exp EXCEPT ![p] = e]
    BY <1>0, <2>1 DEF TypeOK
  <2>5. /\ Given(m, r.id) /\ f.last < r.id
        /\ \A y \in Due(m) : f.last < y.id /\ y.id <= r.id => y = r
        /\ \A x \in f.todo \ {r} :
             /\ Given(m, x.id) /\ r.id < x.id
             /\ \A y \in Due(m) : r.id < y.id /\ y.id <= x.id => y \in f.todo \ {r}
             /\ \A z \in f.todo \ {r} : z.id = x.id => z = x
    BY <1>0, <2>1, Advance
  <2>6. PICK k \in Nat :
          /\ k <= f.last /\ Given(m, k) /\ LoggedUpTo(m, k)
          /\ \A a \in f.pending : k < a.seq /\ a.seq <= f.last
          /\ \A y \in Due(m) : k < y.id /\ y.id <= f.last => AsRecord(y) \in f.pending
    BY <1>1 DEF InHand
  <2>7. \A a \in pend : k < a.seq /\ a.seq <= r.id
    BY <1>1, <2>2, <2>5, <2>6 DEF Record, AsRecord
  <2>8. \A y \in Due(m) : k < y.id /\ y.id <= r.id => AsRecord(y) \in pend
    <3>1. \A y \in Due(m) : y.id \in Nat
      BY <1>1, Numbers
    <3>2. QED BY <1>1, <2>2, <2>5, <2>6, <3>1
  <2>9. k <= r.id
    BY <1>1, <2>2, <2>5, <2>6
  <2>10. UNCHANGED <<db, exportHwm, meta>>
    BY <1>6 DEF AppendRow
  <2>11. CASE ~full
    <3>1. InHand(m, e)
      BY <2>2, <2>3, <2>5, <2>6, <2>7, <2>8, <2>9, <2>11 DEF InHand
    <3>2. UNCHANGED <<db, log, exportHwm, meta>>
      BY <2>1, <2>10, <2>11
    <3>3. QED BY <1>2, <2>3, <2>4, <3>1, <3>2
  <2>12. CASE full
    <3>1. PICK seg \in SegmentsOf(pend) : WriteSegment(m, seg)
      BY <2>1, <2>12
    <3>2. LogStep /\ LogWhole' /\ LoggedUpTo(m, r.id)'
      BY <1>1, <2>2, <2>5, <2>6, <2>7, <2>8, <2>9, <2>10, <3>1, WriteWhole
    <3>3. MarksLogged'
      BY <1>1, <2>10, <3>2, MarksSame
    <3>4. \A j : Given(m, j)' <=> Given(m, j)
      BY <2>10 DEF Given
    <3>5. InHand(m, e)'
      <4>1. e.pending = {}
        BY <2>3, <2>12
      <4>2. \A x \in e.todo :
              /\ Given(m, x.id)' /\ r.id < x.id
              /\ \A y \in Due(m)' : r.id < y.id /\ y.id <= x.id => y \in e.todo
              /\ \A z \in e.todo : z.id = x.id => z = x
        BY <2>3, <2>5, <2>10, <3>4 DEF Due
      <4>3. \A y \in Due(m)' : ~(r.id < y.id /\ y.id <= r.id)
        BY <1>1, <2>2, <2>10, Numbers DEF Due
      <4>4. Given(m, r.id)' /\ LoggedUpTo(m, r.id)' /\ r.id <= r.id
        BY <2>2, <2>5, <3>2, <3>4
      <4>5. QED BY <2>2, <2>3, <4>1, <4>2, <4>3, <4>4 DEF InHand
    <3>6. QED BY <2>3, <2>4, <2>10, <3>2, <3>3, <3>5, MarksExporter
  <2>13. QED BY <2>11, <2>12
<1>7. CASE FlushTail(p)
  <2> DEFINE e == IF f.last > f.hwm THEN [f EXCEPT !.pc = "state", !.pending = {}]
                                    ELSE IdleExp
  <2>1. e \in ExpState /\ exp' = [exp EXCEPT ![p] = e]
    BY <1>0, <1>7 DEF FlushTail, TypeOK, ExpState, IdleExp
  <2>2. UNCHANGED <<db, exportHwm, meta>> /\ f.pending \in SUBSET Record
    BY <1>7 DEF FlushTail, ExpState
  <2>3. PICK k \in Nat :
          /\ k <= f.last /\ Given(m, k) /\ LoggedUpTo(m, k)
          /\ \A a \in f.pending : k < a.seq /\ a.seq <= f.last
          /\ \A y \in Due(m) : k < y.id /\ y.id <= f.last => AsRecord(y) \in f.pending
    BY <1>1 DEF InHand
  <2>4. LogStep /\ LogWhole' /\ LoggedUpTo(m, f.last)'
    <3>1. CASE f.pending = {}
      <4>1. log' = log
        BY <1>0, <1>7, <3>1 DEF FlushTail
      <4>2. LoggedUpTo(m, f.last)
        <5>1. \A y \in Due(m) : y.id <= f.last => y.id <= k
          BY <1>1, <2>3, <3>1, Numbers
        <5>2. \A s \in log[m] : s.name.last \in Nat
          BY <1>1, Numbers
        <5>3. QED BY <1>1, <2>3, <5>1, <5>2 DEF LoggedUpTo
      <4>3. QED BY <1>1, <2>2, <4>1, <4>2, FilesSame
    <3>2. CASE f.pending # {}
      <4>1. PICK seg \in SegmentsOf(f.pending) : WriteSegment(m, seg)
        BY <1>0, <1>7, <3>2 DEF FlushTail
      <4>2. Given(m, f.last)
        BY <1>1 DEF InHand
      <4>3. QED BY <1>1, <2>2, <2>3, <4>1, <4>2, WriteWhole
    <3>3. QED BY <3>1, <3>2
  <2>5. MarksLogged'
    BY <1>1, <2>2, <2>4, MarksSame
  <2>6. InHand(m, e)'
    <3>1. f.todo = {} /\ Given(m, f.last) /\ Given(m, 0) /\ LoggedUpTo(m, 0)'
      <4>1. f.todo = {} /\ Given(m, 0) /\ LoggedUpTo(m, 0) /\ Given(m, f.last)
        BY <1>0, <1>1, <1>7, InHandIdle DEF InHand, FlushTail
      <4>2. TableStep
        BY <1>1, <2>2, TableSame
      <4>3. QED BY <1>1, <2>4, <4>1, <4>2, LoggedKept
    <3>2. /\ e.pending = {} /\ e.todo = {} /\ e.last \in {0, f.last}
      BY <3>1 DEF IdleExp, ExpState
    <3>3. Given(m, e.last) /\ LoggedUpTo(m, e.last)'
      BY <2>4, <3>1, <3>2
    <3>4. QED BY <1>1, <2>1, <2>2, <3>2, <3>3, InHandFlushed
  <2>7. QED BY <2>1, <2>2, <2>4, <2>5, <2>6, MarksExporter
<1>8. ASSUME exp[p].pc \in {"state", "meta"} PROVE LoggedUpTo(m, f.last)
  <2>1. f.pending = {}
    BY <1>0, <1>1, <1>8 DEF InHand
  <2>2. PICK k \in Nat :
          /\ k <= f.last /\ LoggedUpTo(m, k)
          /\ \A y \in Due(m) : ~(k < y.id /\ y.id <= f.last)
    BY <1>1, <2>1 DEF InHand
  <2>3. \A y \in Due(m) : y.id <= f.last => y.id <= k
    BY <1>1, <2>2, Numbers
  <2>4. \A s \in log[m] : s.name.last \in Nat
    BY <1>1, Numbers
  <2>5. QED BY <1>1, <2>2, <2>3, <2>4 DEF LoggedUpTo
<1>9. CASE SaveState(p)
  <2> DEFINE e == [f EXCEPT !.pc = "meta"]
  <2>1. e \in ExpState /\ exp' = [exp EXCEPT ![p] = e] /\ UNCHANGED <<db, log, meta>>
    BY <1>0, <1>9 DEF SaveState, TypeOK, ExpState
  <2>2. /\ e.last = f.last /\ e.todo = f.todo /\ e.pending = f.pending
        /\ f.todo = {} /\ f.pending = {}
    BY <1>0, <1>1, <1>9 DEF SaveState, InHand, ExpState
  <2>3. Given(m, f.last) /\ LoggedUpTo(m, f.last)
    BY <1>1, <1>8, <1>9 DEF InHand, SaveState
  <2>4. InHand(m, e)
    BY <1>1, <2>1, <2>2, <2>3, InHandAtMark
  <2>5. \A n \in Machines : exportHwm'[n] \in {exportHwm[n]} \cup (IF n = m THEN {f.last} ELSE {})
    BY <1>0, <1>9 DEF SaveState, TypeOK
  <2>6. MarksLogged'
    BY <1>1, <2>1, <2>3, <2>5, FilesSame DEF MarksLogged
  <2>7. LogStep /\ LogWhole' /\ InHand(m, e)'
    BY <1>1, <2>1, <2>4, FilesSame
  <2>8. QED BY <2>1, <2>6, <2>7, MarksExporter
<1>10. CASE SaveMeta(p)
  <2>1. IdleExp \in ExpState /\ exp' = [exp EXCEPT ![p] = IdleExp] /\ UNCHANGED <<db, log, exportHwm>>
    BY <1>10 DEF SaveMeta, ExpState, IdleExp
  <2>2. Given(m, f.last) /\ LoggedUpTo(m, f.last)
    BY <1>1, <1>8, <1>10 DEF InHand, SaveMeta
  <2>3. \A n \in Machines : meta'[n] \in {meta[n]} \cup (IF n = m THEN {f.last} ELSE {})
    BY <1>0, <1>10 DEF SaveMeta, TypeOK
  <2>4. MarksLogged'
    BY <1>1, <2>1, <2>2, <2>3, FilesSame DEF MarksLogged
  <2>5. LogStep /\ LogWhole' /\ InHand(m, IdleExp)'
    BY <1>1, <2>1, FilesSame, InHandIdle
  <2>6. QED BY <2>1, <2>4, <2>5, MarksExporter
<1>11. CASE CrashExport(p)
  <2>1. IdleExp \in ExpState /\ InHand(m, IdleExp)
    BY <1>1, InHandIdle DEF ExpState, IdleExp
  <2>2. QED BY <1>2, <1>11, <2>1 DEF CrashExport
<1>12. QED BY <1>3, <1>4, <1>5, <1>6, <1>7, <1>9, <1>10, <1>11 DEF Export

\* Initially there is nothing.
LEMMA MarksInit == Init => Marks
<1> SUFFICES ASSUME Init PROVE Marks
  OBVIOUS
<1>1. TypeOK
  BY TypeInit
<1>2. TableNumbered
  BY FS_EmptySet DEF Init, TableNumbered
<1>3. MarksLogged /\ LogWhole
  BY <1>1, <1>2, InHandIdle DEF Init, MarksLogged, LogWhole
<1>4. ExportersInStep
  BY <1>1, <1>2, InHandIdle, HomeMachine DEF Init, ExportersInStep
<1>5. QED BY <1>2, <1>3, <1>4 DEF Marks

\* Every step keeps Marks.
LEMMA MarksNext == ~DeleteNewest /\ TypeOK /\ Marks /\ [Next]_vars => Marks'
<1> SUFFICES ASSUME ~DeleteNewest, TypeOK, Marks, [Next]_vars PROVE Marks'
  OBVIOUS
<1>1. TableNumbered' /\ TableStep
  BY TableNext DEF Marks
<1>2. CASE UNCHANGED <<log, exp, exportHwm, meta>>
  BY <1>1, <1>2, MarksTables
<1>3. ASSUME NEW p \in Exporters, Export(p) \/ CrashExport(p) PROVE Marks'
  BY <1>3, MarksExport
<1>4. ASSUME ~(\E p \in Exporters : Export(p) \/ CrashExport(p))
      PROVE  UNCHANGED <<log, exp, exportHwm, meta>>
  <2> USE DEF dbVars, fileVars, netVars, history
  <2>1. ASSUME NEW m \in Machines, User(m) PROVE UNCHANGED <<log, exp, exportHwm, meta>>
    BY <2>1 DEF User, AddCommand, AddHistory, Delete, Prune
  <2>2. ASSUME NEW p \in Importers, Import(p) \/ CrashImport(p)
        PROVE  UNCHANGED <<log, exp, exportHwm, meta>>
    BY <2>2 DEF Import, CrashImport, StartImport, SkipDir, OpenDir, SkipSegment,
       ReadSegment, ReadTorn, InsertRecord, CommitSegment, CloseDir, EndImport
  <2>3. ASSUME NEW n \in Machines, NEW m \in Machines, Synchroniser(n, m)
        PROVE  UNCHANGED <<log, exp, exportHwm, meta>>
    BY <2>3 DEF Synchroniser, DeliverMeta, Deliver, DeliverPartly
  <2>4. QED BY <1>4, <2>1, <2>2, <2>3 DEF Next, vars
<1>5. QED BY <1>2, <1>3, <1>4

\* Marks holds in every reachable state.
LEMMA MarksAlways == ~DeleteNewest => (Spec => []Marks)
<1> SUFFICES ASSUME ~DeleteNewest PROVE Spec => []Marks
  OBVIOUS
<1>1. QED BY MarksInit, MarksNext, TypeCorrect, PTL DEF Spec

\* ExportComplete holds as long as the newest row is never deleted: whatever
\* exports overlap or die, each local command that the database's mark or
\* meta.json is past is in a segment of the log.
THEOREM ExportCompleteHolds == ~DeleteNewest => (Spec => []ExportComplete)
<1> SUFFICES ASSUME ~DeleteNewest PROVE Spec => []ExportComplete
  OBVIOUS
<1>1. Marks => ExportComplete
  BY DEF Marks, MarksLogged, LoggedUpTo, Due, ExportComplete
<1>2. QED BY <1>1, MarksAlways, PTL
-----------------------------------------------------------------------------
(***************************************************************************)
(* The importing side.  An importer skips what ends at or below its mark,  *)
(* so the mark may only pass what it has inserted: the directory it lists  *)
(* must show a prefix of the log, in whole or in part, and what it has in  *)
(* hand must account for every row up to where it is.                      *)
(***************************************************************************)

\* Marks, names and what is imported are typed.
LEMMA ImportNumbers ==
  ASSUME TypeOK
  PROVE  /\ \A n, m \in Machines : importHwm[n][m] \in Nat
         /\ \A n, m \in Machines : view[n][m] \subseteq Segment
         /\ \A n, m \in Machines : \A a \in Names(n, m) : a.first \in Nat /\ a.last \in Nat
<1>1. \A n, m \in Machines : Names(n, m) \subseteq Name
  BY NamesTyped
<1>2. QED BY <1>1 DEF TypeOK, Name

\* Imports only adds to what is imported.
ImportedGrows == \A n, m \in Machines : imported[n][m] \subseteq imported'[n][m]

\* What has been delivered stays in order whatever happens to tables and logs.
LEMMA DeliveredKept ==
  ASSUME TypeOK, DeliveredInOrder, TableStep, UNCHANGED <<view, partial>>
  PROVE  DeliveredInOrder'
<1> SUFFICES ASSUME NEW n \in Machines, NEW m \in Machines, n # m
             PROVE  /\ \A s \in view[n][m] : Full(m, s)'
                    /\ \A a \in Names(n, m)' :
                         /\ Given(m, a.last)'
                         /\ \A y \in Due(m)' : y.id <= a.last =>
                              \E b \in Names(n, m)' : Spans(b, y.id)
  BY DEF DeliveredInOrder
<1>1. Names(n, m)' = Names(n, m)
  BY DEF Names, Files
<1>2. ASSUME NEW s \in view[n][m] PROVE Full(m, s)'
  <2>1. s \in Segment /\ s.name \in Names(n, m) /\ Full(m, s)
    BY ImportNumbers DEF Names, Files, DeliveredInOrder
  <2>2. Given(m, s.name.last)
    BY <2>1 DEF DeliveredInOrder
  <2>3. QED BY <2>1, <2>2, FullKept
<1>3. ASSUME NEW a \in Names(n, m)
      PROVE  /\ Given(m, a.last)'
             /\ \A y \in Due(m)' : y.id <= a.last => \E b \in Names(n, m) : Spans(b, y.id)
  <2>1. a.last \in Nat /\ Given(m, a.last)
    BY ImportNumbers DEF DeliveredInOrder
  <2>2. \A y \in Due(m)' : y.id <= a.last => y \in Due(m)
    BY <2>1 DEF TableStep
  <2>3. QED BY <2>1, <2>2 DEF DeliveredInOrder, TableStep
<1>4. QED BY <1>1, <1>2, <1>3

\* So do the saved marks,
LEMMA MarksImportedKept ==
  ASSUME TypeOK, MarksImported, TableStep, ImportedGrows, UNCHANGED importHwm
  PROVE  MarksImported'
<1> SUFFICES ASSUME NEW n \in Machines, NEW m \in Machines
             PROVE  /\ Given(m, importHwm[n][m])'
                    /\ \A y \in Due(m)' : y.id <= importHwm[n][m] => Has(n, m, y)'
  BY DEF MarksImported
<1>1. importHwm[n][m] \in Nat /\ Given(m, importHwm[n][m])
  BY ImportNumbers DEF MarksImported
<1>2. \A y \in Due(m)' : y.id <= importHwm[n][m] => y \in Due(m)
  BY <1>1 DEF TableStep
<1>3. QED BY <1>1, <1>2 DEF MarksImported, TableStep, Has, AsRecord, ImportedGrows

\* and what an importer has in hand.
LEMMA UnderwayKept ==
  ASSUME TypeOK, TableStep, ImportedGrows, NEW n \in Machines, NEW m \in Machines,
         NEW i \in ImpState, Underway(n, m, i)
  PROVE  Underway(n, m, i)'
<1>1. /\ i.hwm \in Nat /\ i.last \in Nat
      /\ \A a \in i.segs : a.first \in Nat /\ a.last \in Nat
  BY DEF ImpState, Name
<1>2. ASSUME NEW k \in Nat, Given(m, k)
      PROVE  Given(m, k)' /\ \A y \in Due(m)' : y.id <= k => y \in Due(m)
  BY <1>2 DEF TableStep
<1>3. \A y \in Due(m) : Has(n, m, y) => Has(n, m, y)'
  BY DEF Has, ImportedGrows, AsRecord
<1>4. Given(m, i.hwm)' /\ \A y \in Due(m)' : y.id <= i.hwm => Has(n, m, y)'
  BY <1>1, <1>2, <1>3 DEF Underway
<1>5. ASSUME NEW a \in i.segs
      PROVE  /\ Given(m, a.last)'
             /\ \A y \in Due(m)' : y.id <= a.last =>
                  \/ Has(n, m, y)' \/ AsRecord(y) \in i.recs
                  \/ \E b \in i.segs : Spans(b, y.id)
  BY <1>1, <1>2, <1>3 DEF Underway
<1>6. ASSUME i.pc = "recs"
      PROVE  /\ Given(m, i.last)'
             /\ \A y \in Due(m)' : y.id <= i.last => Has(n, m, y)' \/ AsRecord(y) \in i.recs
  BY <1>1, <1>2, <1>3, <1>6 DEF Underway
<1>7. i.pc = "segs" => i.mark <= i.hwm /\ i.recs = {}
  BY DEF Underway
<1>8. i.pc = "recs" => i.mark <= i.last /\ \A x \in i.recs : x.seq <= i.last
  BY DEF Underway
<1>9. QED BY <1>4, <1>5, <1>6, <1>7, <1>8 DEF Underway, AsRecord

\* No step outside imports and deliveries touches them.
LEMMA ImportsElsewhere ==
  ASSUME TypeOK, Imports, TableStep, UNCHANGED <<view, partial, importHwm, imp, imported>>,
         \A n \in Machines : \A r \in db'[n] : r \in db[n] \/ r.by \notin Machines
  PROVE  Imports'
<1>1. ImportedGrows
  BY DEF ImportedGrows
<1>2. DeliveredInOrder' /\ MarksImported'
  BY <1>1, DeliveredKept, MarksImportedKept DEF Imports
<1>3. ImportersInStep'
  <2> SUFFICES ASSUME NEW p \in Importers, imp[p].pc \in {"segs", "recs"}
               PROVE  Underway(Home[p], imp[p].from, imp[p])'
    BY DEF ImportersInStep
  <2>1. PICK i \in ImpState : i = imp[p]
    BY DEF TypeOK
  <2>2. i.from \in Machines /\ Home[p] \in Machines /\ Underway(Home[p], i.from, i)
    BY <2>1, HomeMachine DEF Imports, ImportersInStep, ImpState
  <2>3. Underway(Home[p], i.from, i)'
    BY <1>1, <2>2, UnderwayKept
  <2>4. QED BY <2>1, <2>3
<1>4. RowsImported'
  BY DEF Imports, RowsImported, RowRecord
<1>5. QED BY <1>2, <1>3, <1>4 DEF Imports

\* A step of one importer keeps them if what it has in hand afterwards, what it
\* has inserted and the mark it has saved are right.
LEMMA ImportsImporter ==
  ASSUME TypeOK, Imports, NEW p \in Importers, NEW i \in ImpState, TableStep,
         ImportedGrows, UNCHANGED <<view, partial>>, imp' = [imp EXCEPT ![p] = i],
         i.pc \in {"segs", "recs"} => Underway(Home[p], i.from, i)',
         MarksImported', RowsImported'
  PROVE  Imports'
<1>1. DeliveredInOrder'
  BY DeliveredKept DEF Imports
<1>2. ASSUME NEW q \in Importers, imp'[q].pc \in {"segs", "recs"}
      PROVE  Underway(Home[q], imp[q].from, imp[q])'
  <2>1. CASE q = p
    <3>1. imp'[q] = i
      BY <2>1 DEF TypeOK
    <3>2. QED BY <1>2, <2>1, <3>1
  <2>2. CASE q # p
    <3>1. PICK j \in ImpState : j = imp[q]
      BY DEF TypeOK
    <3>2. imp'[q] = j
      BY <2>2, <3>1 DEF TypeOK
    <3>3. j.from \in Machines /\ Home[q] \in Machines /\ Underway(Home[q], j.from, j)
      BY <1>2, <3>1, <3>2, HomeMachine DEF Imports, ImportersInStep, ImpState
    <3>4. Underway(Home[q], j.from, j)'
      BY <3>3, UnderwayKept
    <3>5. QED BY <3>2, <3>4
  <2>3. QED BY <2>1, <2>2
<1>3. QED BY <1>1, <1>2 DEF Imports, ImportersInStep

\* Without a change of table or imports all of it still holds.
LEMMA UnderwaySame ==
  ASSUME UNCHANGED <<db, imported>>
  PROVE  /\ TableStep /\ ImportedGrows
         /\ RowsImported => RowsImported'
         /\ \A n, m, i : Underway(n, m, i)' <=> Underway(n, m, i)
<1>1. /\ \A m, k : Given(m, k)' <=> Given(m, k)
      /\ \A m : Due(m)' = Due(m)
      /\ \A n, m, y : Has(n, m, y)' <=> Has(n, m, y)
  BY DEF Given, Due, Has, AsRecord
<1>2. \A n, m, i : Underway(n, m, i)' <=> Underway(n, m, i)
  BY <1>1 DEF Underway, AsRecord
<1>3. TableStep /\ ImportedGrows
  BY <1>1 DEF TableStep, ImportedGrows
<1>4. RowsImported => RowsImported'
  BY DEF RowsImported, RowRecord
<1>5. QED BY <1>2, <1>3, <1>4

\* A segment that may be delivered extends the prefix the machine has.
LEMMA ImportsSynchroniser ==
  ASSUME InOrder, TypeOK, Marks, Imports, NEW n \in Machines, NEW m \in Machines,
         Synchroniser(n, m)
  PROVE  Imports'
<1> USE DEF dbVars, fileVars, netVars, history
<1>1. CASE DeliverMeta(n, m)
  <2>1. UNCHANGED <<db, imported, view, partial, importHwm, imp>>
    BY <1>1 DEF DeliverMeta
  <2>2. QED BY <2>1, UnderwaySame, ImportsElsewhere
<1>2. ASSUME NEW seg \in log[m], Deliver(n, m, seg) \/ DeliverPartly(n, m, seg)
      PROVE  Imports'
  <2>1. UNCHANGED <<db, imported, importHwm, imp, log>> /\ Deliverable(n, m, seg)
    BY <1>2 DEF Deliver, DeliverPartly
  <2>2. TableStep /\ ImportedGrows /\ RowsImported'
    BY <2>1, UnderwaySame DEF Imports
  <2>3. MarksImported'
    BY <2>1, <2>2, MarksImportedKept DEF Imports
  <2>4. ImportersInStep'
    BY <2>1, UnderwaySame DEF Imports, ImportersInStep
  <2>5. Whole(m, seg) /\ seg \in Segment /\ n # m
    BY <2>1 DEF Marks, LogWhole, TypeOK, Deliverable
  <2>6. \A o, q \in Machines :
          IF o = n /\ q = m
            THEN /\ view'[o][q] \subseteq view[o][q] \cup {seg}
                 /\ {s.name : s \in view'[o][q]} \cup partial'[o][q]
                      = {s.name : s \in view[o][q]} \cup partial[o][q] \cup {seg.name}
            ELSE view'[o][q] = view[o][q] /\ partial'[o][q] = partial[o][q]
    <3>1. CASE Deliver(n, m, seg)
      <4>1. \A o, q \in Machines :
              IF o = n /\ q = m
                THEN /\ view'[o][q] = {s \in view[o][q] : s.name # seg.name} \cup {seg}
                     /\ partial'[o][q] = partial[o][q] \ {seg.name}
                ELSE view'[o][q] = view[o][q] /\ partial'[o][q] = partial[o][q]
        BY <3>1 DEF Deliver, TypeOK
      <4>2. QED BY <4>1
    <3>2. CASE DeliverPartly(n, m, seg)
      <4>1. \A o, q \in Machines :
              IF o = n /\ q = m
                THEN /\ view'[o][q] = {s \in view[o][q] : s.name # seg.name}
                     /\ partial'[o][q] = partial[o][q] \cup {seg.name}
                ELSE view'[o][q] = view[o][q] /\ partial'[o][q] = partial[o][q]
        BY <3>2 DEF DeliverPartly, TypeOK
      <4>2. QED BY <4>1
    <3>3. QED BY <1>2, <3>1, <3>2
  <2>7. \A y \in Due(m) : y.id <= seg.name.last =>
          Spans(seg.name, y.id) \/ \E b \in Names(n, m) : Spans(b, y.id)
    <3> SUFFICES ASSUME NEW y \in Due(m), y.id <= seg.name.last, ~Spans(seg.name, y.id)
                 PROVE  \E b \in Names(n, m) : Spans(b, y.id)
      OBVIOUS
    <3>1. y.id \in Nat /\ seg.name.first \in Nat /\ seg.name.last \in Nat
      BY <2>5, Numbers
    <3>2. PICK k \in Nat : k < seg.name.first /\ LoggedUpTo(m, k) /\ y.id <= k
      BY <2>5, <3>1 DEF Whole, Spans
    <3>3. PICK s \in log[m] : AsRecord(y) \in s.recs /\ s.name.last <= k
      BY <3>2 DEF LoggedUpTo
    <3>4. s.name.last \in Nat /\ seg.name.first <= seg.name.last
      BY <2>5, Numbers DEF Whole
    <3>5. s.name.last < seg.name.last
      BY <3>1, <3>2, <3>3, <3>4
    <3>6. s.name \in Names(n, m)
      BY <2>1, <2>5, <3>5 DEF Deliverable, Names, Files
    <3>7. Spans(s.name, y.id)
      BY <3>3 DEF Marks, LogWhole, Whole, Full, AsRecord
    <3>8. QED BY <3>6, <3>7
  <2>8. \A o, q \in Machines : o # q =>
          Names(o, q)' = IF o = n /\ q = m THEN Names(n, m) \cup {seg.name} ELSE Names(o, q)
    BY <2>5, <2>6 DEF Names, Files
  <2>9. \A q, k : (Given(q, k)' <=> Given(q, k)) /\ Due(q)' = Due(q)
    BY <2>1 DEF Given, Due
  <2>10. \A o, q \in Machines : o # q => \A s \in view'[o][q] : Full(q, s)'
    BY <2>5, <2>6, <2>9 DEF Imports, DeliveredInOrder, Whole, Full
  <2>11. ASSUME NEW o \in Machines, NEW q \in Machines, o # q, NEW a \in Names(o, q)'
         PROVE  /\ Given(q, a.last)
                /\ \A y \in Due(q) : y.id <= a.last =>
                     \E b \in Names(o, q)' : Spans(b, y.id)
    <3>1. CASE a \in Names(o, q)
      BY <2>8, <2>11, <3>1 DEF Imports, DeliveredInOrder
    <3>2. CASE o = n /\ q = m /\ a = seg.name
      BY <2>5, <2>7, <2>8, <3>2 DEF Whole
    <3>3. QED BY <2>8, <2>11, <3>1, <3>2
  <2>12. DeliveredInOrder'
    BY <2>9, <2>10, <2>11 DEF DeliveredInOrder
  <2>13. QED BY <2>2, <2>3, <2>4, <2>12 DEF Imports
<1>3. QED BY <1>1, <1>2 DEF Synchroniser

\* Every step of an import, and its death, keep them.
LEMMA ImportsImport ==
  ASSUME ~DeleteNewest, TypeOK, Marks, Sound, Numbering, Imports, TableStep,
         NEW p \in Importers, Import(p) \/ CrashImport(p)
  PROVE  Imports'
<1> USE DEF dbVars, fileVars, netVars, history
<1> DEFINE n == Home[p]
<1>0. PICK j \in ImpState : j = imp[p]
  BY DEF TypeOK
<1> DEFINE m == j.from
<1>1. /\ n \in Machines /\ m \in Machines /\ j.hwm \in Nat /\ j.last \in Nat
      /\ j.segs \subseteq Name /\ j.recs \subseteq Record /\ j.dirs \subseteq Machines
      /\ j.mark \in Nat
  BY HomeMachine DEF ImpState
<1>2. UNCHANGED <<view, partial>>
  BY DEF Import, CrashImport, StartImport, SkipDir, OpenDir, SkipSegment,
     ReadSegment, ReadTorn, InsertRecord, CommitSegment, CloseDir, EndImport
<1>3. /\ j.recs \subseteq journal[m] /\ n \notin j.dirs
      /\ j.pc \in {"segs", "recs"} => m # n /\ Underway(n, m, j)
  BY <1>0 DEF Sound, Provenance, ImportersHoldForeign, Imports, ImportersInStep
<1>4. ASSUME UNCHANGED <<db, imported, importHwm>>, NEW i \in ImpState,
             imp' = [imp EXCEPT ![p] = i],
             i.pc \in {"segs", "recs"} => Underway(n, i.from, i)
      PROVE  Imports'
  <2>1. ImportedGrows /\ RowsImported'
    BY <1>4, UnderwaySame DEF Imports
  <2>2. MarksImported'
    BY <1>4, <2>1, MarksImportedKept DEF Imports
  <2>3. i.pc \in {"segs", "recs"} => Underway(n, i.from, i)'
    BY <1>4, UnderwaySame
  <2>4. QED BY <1>2, <1>4, <2>1, <2>2, <2>3, ImportsImporter
<1>5. CASE StartImport(p)
  <2> DEFINE i == [j EXCEPT !.pc = "dirs", !.dirs = Machines \ {n}]
  <2>1. i \in ImpState /\ i.pc = "dirs" /\ imp' = [imp EXCEPT ![p] = i]
    BY <1>0, <1>5 DEF StartImport, TypeOK, ImpState
  <2>2. QED BY <1>4, <1>5, <2>1 DEF StartImport
<1>6. CASE SkipDir(p)
  <2>1. PICK d \in j.dirs : FirstDir(p, d) /\ imp' = [imp EXCEPT ![p].dirs = @ \ {d}]
    BY <1>0, <1>6 DEF SkipDir
  <2> DEFINE i == [j EXCEPT !.dirs = @ \ {d}]
  <2>2. i \in ImpState /\ i.pc = "dirs" /\ imp' = [imp EXCEPT ![p] = i]
    BY <1>0, <2>1 DEF FirstDir, TypeOK, ImpState
  <2>3. QED BY <1>4, <1>6, <2>2 DEF SkipDir
<1>7. CASE OpenDir(p)
  <2>1. PICK d \in j.dirs :
          imp' = [imp EXCEPT ![p] =
                        [IdleImp(n) EXCEPT !.pc = "segs", !.dirs = j.dirs \ {d},
                                           !.from = d,
                                           !.hwm = importHwm[n][d],
                                           !.mark = importHwm[n][d],
                                           !.segs = Names(n, d)]]
    BY <1>0, <1>7 DEF OpenDir
  <2> DEFINE i == [IdleImp(n) EXCEPT !.pc = "segs", !.dirs = j.dirs \ {d}, !.from = d,
                                     !.hwm = importHwm[n][d], !.mark = importHwm[n][d],
                                     !.segs = Names(n, d)]
  <2>2. d \in Machines /\ d # n /\ importHwm[n][d] \in Nat /\ Names(n, d) \subseteq Name
    BY <1>1, <1>3, ImportNumbers, NamesTyped
  <2>3. /\ i \in ImpState /\ i.from = d /\ i.hwm = importHwm[n][d] /\ i.pc = "segs"
        /\ i.segs = Names(n, d) /\ i.recs = {} /\ i.mark = importHwm[n][d]
    BY <1>1, <2>2 DEF IdleImp, ImpState
  <2>4. Given(d, i.hwm) /\ \A y \in Due(d) : y.id <= i.hwm => Has(n, d, y)
    BY <1>1, <2>2, <2>3 DEF Imports, MarksImported
  <2>5. \A a \in i.segs :
          /\ Given(d, a.last)
          /\ \A y \in Due(d) : y.id <= a.last => \E b \in i.segs : Spans(b, y.id)
    BY <1>1, <2>2, <2>3 DEF Imports, DeliveredInOrder
  <2>6. i.mark <= i.hwm
    BY <2>2, <2>3
  <2>7. Underway(n, d, i)
    BY <2>3, <2>4, <2>5, <2>6 DEF Underway
  <2>8. imp' = [imp EXCEPT ![p] = i] /\ UNCHANGED <<db, imported, importHwm>>
    BY <1>7, <2>1 DEF OpenDir
  <2>9. QED BY <1>4, <2>3, <2>7, <2>8
<1>8. CASE SkipSegment(p)
  <2>1. PICK name \in j.segs : /\ FirstSegment(p, name) /\ name.last <= j.hwm
                               /\ imp' = [imp EXCEPT ![p].segs = @ \ {name}]
    BY <1>0, <1>8 DEF SkipSegment
  <2> DEFINE i == [j EXCEPT !.segs = @ \ {name}]
  <2>2. /\ i \in ImpState /\ i.from = m /\ i.hwm = j.hwm /\ i.pc = "segs" /\ j.pc = "segs"
        /\ i.segs = j.segs \ {name} /\ i.recs = j.recs /\ i.mark = j.mark
        /\ imp' = [imp EXCEPT ![p] = i]
    BY <1>0, <2>1 DEF FirstSegment, TypeOK, ImpState
  <2>3. ASSUME NEW y \in Due(m), Spans(name, y.id) PROVE Has(n, m, y)
    <3>1. name.last \in Nat /\ y.id \in Nat
      BY <1>1, Numbers DEF Name
    <3>2. y.id <= j.hwm
      BY <1>1, <2>1, <2>3, <3>1 DEF Spans
    <3>3. QED BY <1>3, <2>2, <3>2 DEF Underway
  <2>4. Underway(n, m, i)
    BY <1>3, <2>2, <2>3 DEF Underway
  <2>5. QED BY <1>4, <1>8, <2>2, <2>4 DEF SkipSegment
<1>9. CASE ReadSegment(p)
  <2>0. PICK seg \in Files(n, imp[p].from) :
          /\ FirstSegment(p, seg.name) /\ seg.name.last > imp[p].hwm
          /\ imp' = [imp EXCEPT ![p].pc = "recs", ![p].segs = @ \ {seg.name},
                                ![p].last = seg.name.last,
                                ![p].recs = {r \in seg.recs : r.seq > imp[p].hwm}]
    BY <1>9 DEF ReadSegment
  <2>1. /\ seg \in Files(n, m) /\ FirstSegment(p, seg.name) /\ seg.name.last > j.hwm
        /\ imp' = [imp EXCEPT ![p].pc = "recs", ![p].segs = @ \ {seg.name},
                              ![p].last = seg.name.last,
                              ![p].recs = {r \in seg.recs : r.seq > j.hwm}]
    BY <1>0, <2>0
  <2> DEFINE recs == {r \in seg.recs : r.seq > j.hwm}
             i == [j EXCEPT !.pc = "recs", !.segs = @ \ {seg.name},
                            !.last = seg.name.last, !.recs = recs]
  <2>2. seg \in Segment /\ j.pc = "segs" /\ seg.name \in j.segs
        /\ \A x \in j.segs : seg.name.first <= x.first
    BY <1>0, <1>1, <2>1, NamesTyped DEF FirstSegment
  <2>3. seg.name.first \in Nat /\ seg.name.last \in Nat /\ seg.recs \subseteq Record
    BY <2>2 DEF Segment, Name
  <2>4. /\ i \in ImpState /\ i.from = m /\ i.hwm = j.hwm /\ i.pc = "recs"
        /\ i.segs = j.segs \ {seg.name} /\ i.recs = recs /\ i.mark = j.mark
        /\ i.last = seg.name.last /\ imp' = [imp EXCEPT ![p] = i]
    BY <1>0, <2>1, <2>3 DEF TypeOK, ImpState
  <2>5. Underway(n, m, j) /\ j.recs = {} /\ Full(m, seg)
    BY <1>1, <1>3, <2>1, <2>2 DEF Files, Imports, DeliveredInOrder, Underway
  <2>6. ASSUME NEW y \in Due(m), Spans(seg.name, y.id)
        PROVE  Has(n, m, y) \/ AsRecord(y) \in recs
    <3>1. y.id \in Nat /\ AsRecord(y) \in seg.recs /\ AsRecord(y).seq = y.id
      BY <1>1, <2>5, <2>6, Numbers DEF Full, AsRecord
    <3>2. QED BY <1>1, <2>5, <3>1 DEF Underway
  <2>7. \A a \in j.segs :
          /\ Given(m, a.last)
          /\ \A y \in Due(m) : y.id <= a.last =>
               \/ Has(n, m, y) \/ AsRecord(y) \in recs
               \/ \E b \in j.segs \ {seg.name} : Spans(b, y.id)
    BY <2>5, <2>6 DEF Underway
  <2>8. ASSUME NEW y \in Due(m), y.id <= seg.name.last
        PROVE  Has(n, m, y) \/ AsRecord(y) \in recs
    <3>1. CASE \E b \in j.segs : Spans(b, y.id)
      <4>1. PICK b \in j.segs : Spans(b, y.id)
        BY <3>1
      <4>2. seg.name.first <= b.first /\ b.first \in Nat /\ y.id \in Nat
        BY <1>1, <2>2, Numbers DEF Name
      <4>3. Spans(seg.name, y.id)
        BY <2>3, <2>8, <4>1, <4>2 DEF Spans
      <4>4. QED BY <2>6, <4>3
    <3>2. QED BY <2>2, <2>7, <2>8, <3>1
  <2>9. /\ Given(m, i.last) /\ i.mark <= i.last
        /\ \A x \in i.recs : x.seq <= i.last
    <3>1. j.mark <= j.hwm
      BY <2>2, <2>5 DEF Underway
    <3>2. QED BY <1>1, <2>1, <2>2, <2>3, <2>4, <2>5, <2>7, <3>1 DEF Full, Spans
  <2>10. Underway(n, m, i)
    BY <2>4, <2>5, <2>7, <2>8, <2>9 DEF Underway
  <2>11. QED BY <1>4, <1>9, <2>4, <2>10 DEF ReadSegment
<1>10. CASE InsertRecord(p)
  <2>1. PICK r \in j.recs :
          /\ IF \E row \in db[n] : row.by = m /\ row.seq = r.seq
               THEN UNCHANGED <<db, imported>>
               ELSE /\ \E id \in NextIds(db[n]) :
                         db' = [db EXCEPT ![n] = @ \cup
                                  {[id |-> id, by |-> m, seq |-> r.seq,
                                    body |-> r.body, ignored |-> FALSE]}]
                    /\ imported' = [imported EXCEPT ![n][m] = @ \cup {r}]
          /\ imp' = [imp EXCEPT ![p].recs = @ \ {r},
                                ![p].mark = IF r.seq > @ THEN r.seq ELSE @]
    BY <1>0, <1>10 DEF InsertRecord
  <2> DEFINE i == [j EXCEPT !.recs = @ \ {r}, !.mark = IF r.seq > @ THEN r.seq ELSE @]
  <2>2. r \in Record /\ r \in journal[m] /\ r.seq \in Nat /\ j.pc = "recs"
    BY <1>0, <1>1, <1>3, <1>10 DEF Record, InsertRecord
  <2>3. /\ i \in ImpState /\ i.from = m /\ i.hwm = j.hwm /\ i.pc = "recs"
        /\ i.segs = j.segs /\ i.recs = j.recs \ {r} /\ i.last = j.last
        /\ i.mark = (IF r.seq > j.mark THEN r.seq ELSE j.mark)
        /\ imp' = [imp EXCEPT ![p] = i]
    BY <1>0, <2>1, <2>2 DEF TypeOK, ImpState
  <2>4. ImportedGrows /\ r \in imported'[n][m]
    <3>1. CASE \E row \in db[n] : row.by = m /\ row.seq = r.seq
      <4>1. PICK row \in db[n] : row.by = m /\ row.seq = r.seq
        BY <3>1
      <4>2. RowRecord(row) \in imported[n][m] /\ RowRecord(row) \in journal[m]
        BY <1>1, <4>1 DEF Imports, RowsImported, Sound, Faithful, RowsFaithful
      <4>3. RowRecord(row) = r
        BY <1>1, <2>2, <4>1, <4>2 DEF Numbering, NumbersUnique, RowRecord
      <4>4. QED BY <2>1, <3>1, <4>2, <4>3 DEF ImportedGrows
    <3>2. CASE ~\E row \in db[n] : row.by = m /\ row.seq = r.seq
      <4>1. imported' = [imported EXCEPT ![n][m] = @ \cup {r}]
        BY <2>1, <3>2
      <4>2. \A o, q \in Machines :
              imported'[o][q] = IF o = n /\ q = m THEN imported[n][m] \cup {r}
                                                  ELSE imported[o][q]
        BY <1>1, <4>1 DEF TypeOK
      <4>3. QED BY <1>1, <4>2 DEF ImportedGrows
    <3>3. QED BY <3>1, <3>2
  <2>5. Underway(n, m, j)'
    BY <1>1, <1>3, <2>2, <2>4, UnderwayKept
  <2>6. \A y \in Due(m)' : AsRecord(y) = r => Has(n, m, y)'
    BY <2>4 DEF Has, AsRecord
  <2>7. i.mark <= i.last /\ \A x \in i.recs : x.seq <= i.last
    BY <1>1, <1>3, <2>2, <2>3 DEF Underway
  <2>8. Underway(n, m, i)'
    BY <2>2, <2>3, <2>5, <2>6, <2>7 DEF Underway, AsRecord
  <2>9. MarksImported'
    BY <1>10, <2>4, MarksImportedKept DEF Imports, InsertRecord
  <2>10. RowsImported'
    <3> SUFFICES ASSUME NEW o \in Machines, NEW q \in Machines, NEW row \in db'[o], row.by = q
                 PROVE  RowRecord(row) \in imported'[o][q]
      BY DEF RowsImported, RowRecord
    <3>1. CASE row \in db[o]
      BY <2>4, <3>1 DEF Imports, RowsImported, ImportedGrows
    <3>2. CASE row \notin db[o]
      <4>1. o = n /\ row.by = m /\ row.seq = r.seq /\ row.body = r.body
        BY <1>1, <2>1, <3>2 DEF TypeOK
      <4>2. RowRecord(row) = r
        BY <2>2, <4>1 DEF RowRecord, Record
      <4>3. QED BY <2>4, <4>1, <4>2
    <3>3. QED BY <3>1, <3>2
  <2>11. QED BY <1>2, <2>3, <2>4, <2>8, <2>9, <2>10, ImportsImporter
<1>11. CASE CommitSegment(p)
  <2>1. /\ j.pc = "recs" /\ j.recs = {} /\ j.mark <= j.last /\ Underway(n, m, j)
    BY <1>0, <1>3, <1>11 DEF CommitSegment, Underway
  <2> DEFINE i == [j EXCEPT !.pc = "segs", !.hwm = j.last, !.mark = j.last]
  <2>2. (IF j.last > j.mark THEN j.last ELSE j.mark) = j.last
    BY <1>1, <2>1
  <2>3. /\ imp' = [imp EXCEPT ![p].pc = "segs", ![p].hwm = j.last, ![p].mark = j.last]
        /\ importHwm' = [importHwm EXCEPT ![n][m] = j.last]
        /\ UNCHANGED <<db, imported>>
    BY <1>0, <1>11, <2>2 DEF CommitSegment
  <2>4. /\ i \in ImpState /\ i.from = m /\ i.hwm = j.last /\ i.pc = "segs"
        /\ i.segs = j.segs /\ i.recs = {} /\ i.mark = j.last
        /\ imp' = [imp EXCEPT ![p] = i]
    BY <1>0, <1>1, <2>1, <2>3 DEF TypeOK, ImpState
  <2>5. Given(m, j.last) /\ \A y \in Due(m) : y.id <= j.last => Has(n, m, y)
    BY <2>1 DEF Underway
  <2>6. Underway(n, m, i)
    BY <1>1, <2>1, <2>4, <2>5 DEF Underway
  <2>7. ImportedGrows /\ RowsImported' /\ Underway(n, m, i)'
    BY <2>3, <2>6, UnderwaySame DEF Imports
  <2>8. MarksImported'
    <3>1. \A o, q \in Machines :
            importHwm'[o][q] = IF o = n /\ q = m THEN j.last ELSE importHwm[o][q]
      BY <1>1, <2>3 DEF TypeOK
    <3>2. \A q, k : (Given(q, k)' <=> Given(q, k)) /\ Due(q)' = Due(q)
      BY <2>3 DEF Given, Due
    <3>3. \A o, q, y : Has(o, q, y)' <=> Has(o, q, y)
      BY <2>3 DEF Has, AsRecord
    <3>4. QED BY <2>5, <3>1, <3>2, <3>3 DEF Imports, MarksImported
  <2>9. QED BY <1>2, <2>4, <2>7, <2>8, ImportsImporter
<1>12. CASE ReadTorn(p) \/ CloseDir(p) \/ EndImport(p) \/ CrashImport(p)
  <2> DEFINE i == IF CloseDir(p) THEN [IdleImp(n) EXCEPT !.pc = "dirs", !.dirs = j.dirs]
                                 ELSE IdleImp(n)
  <2>1. i \in ImpState /\ i.pc \in {"idle", "dirs"}
    BY <1>1 DEF IdleImp, ImpState
  <2>2. imp' = [imp EXCEPT ![p] = i]
    BY <1>0, <1>12 DEF ReadTorn, CloseDir, EndImport, CrashImport
  <2>3. UNCHANGED <<db, imported, importHwm>>
    BY <1>12 DEF ReadTorn, CloseDir, EndImport, CrashImport
  <2>4. QED BY <1>4, <2>1, <2>2, <2>3
<1>13. QED
  BY <1>5, <1>6, <1>7, <1>8, <1>9, <1>10, <1>11, <1>12 DEF Import

\* At the start nothing is delivered, imported or in hand.
LEMMA ImportsInit == Init => Imports
BY DEF Init, Imports, DeliveredInOrder, MarksImported, ImportersInStep, RowsImported,
   Names, Files, Given, Due, IdleImp

\* No step of a user brings a row of another machine.
LEMMA ImportsUser ==
  ASSUME TypeOK, Imports, TableStep, NEW u \in Machines, User(u)
  PROVE  Imports'
<1> USE DEF dbVars, fileVars, netVars, history
<1>1. CASE AddCommand(u)
  <2>1. \A n \in Machines : \A r \in db'[n] : r \in db[n] \/ r.by = Local
    BY <1>1 DEF AddCommand, TypeOK
  <2>2. QED BY <1>1, <2>1, ImportsElsewhere, SyncAssumption DEF AddCommand, SyncAssumption
<1>2. ASSUME NEW s \in HistSeqs, AddHistory(u, s) PROVE Imports'
  <2>1. \A n \in Machines : \A r \in db'[n] : r \in db[n] \/ r.by = Hist
    BY <1>2 DEF AddHistory, TypeOK
  <2>2. QED BY <1>2, <2>1, ImportsElsewhere, SyncAssumption DEF AddHistory, SyncAssumption
<1>3. CASE Delete(u)
  <2>1. \A n \in Machines : db'[n] \subseteq db[n]
    BY <1>3 DEF Delete, TypeOK
  <2>2. QED BY <1>3, <2>1, ImportsElsewhere DEF Delete
<1>4. ASSUME NEW c \in Command, Prune(u, c + 1) PROVE Imports'
  <2>1. \A n \in Machines : db'[n] \subseteq db[n]
    BY <1>4 DEF Prune, TypeOK
  <2>2. QED BY <1>4, <2>1, ImportsElsewhere DEF Prune
<1>5. QED BY <1>1, <1>2, <1>3, <1>4 DEF User

\* Every step keeps Imports.
LEMMA ImportsNext ==
  /\ InOrder /\ ~DeleteNewest /\ TypeOK /\ Marks /\ Sound /\ Numbering /\ Imports
  /\ [Next]_vars
  => Imports'
<1> SUFFICES ASSUME InOrder, ~DeleteNewest, TypeOK, Marks, Sound, Numbering, Imports,
                    [Next]_vars
             PROVE  Imports'
  OBVIOUS
<1> USE DEF dbVars, fileVars, netVars, history
<1>1. TableStep
  BY TableNext DEF Marks
<1>2. ASSUME NEW p \in Exporters, Export(p) \/ CrashExport(p) PROVE Imports'
  <2>1. UNCHANGED <<db, view, partial, importHwm, imp, imported>>
    BY <1>2 DEF Export, CrashExport, StartExport, FetchBatch, SkipIgnored,
       AppendRow, FlushTail, SaveState, SaveMeta
  <2>2. QED BY <1>1, <2>1, ImportsElsewhere
<1>3. CASE UNCHANGED vars
  BY <1>1, <1>3, ImportsElsewhere DEF vars
<1>4. QED
  BY <1>1, <1>2, <1>3, ImportsUser, ImportsImport, ImportsSynchroniser DEF Next

\* Imports holds in every reachable state, what is delivered being in order.
LEMMA ImportsAlways == InOrder /\ ~DeleteNewest => (Spec => []Imports)
<1> SUFFICES ASSUME InOrder, ~DeleteNewest PROVE Spec => []Imports
  OBVIOUS
<1>1. Spec => []Marks
  BY MarksAlways
<1>2. QED
  BY <1>1, ImportsInit, ImportsNext, TypeCorrect, SoundAlways, NumberingAlways, PTL DEF Spec

\* NoGap holds as long as the newest row is never deleted and the segments of a
\* log are delivered in their order: whatever imports and exports overlap or
\* die, and however many files are there only in part, no importer's mark passes
\* a command it has not inserted.
THEOREM NoGapHolds == InOrder /\ ~DeleteNewest => (Spec => []NoGap)
<1> SUFFICES ASSUME InOrder, ~DeleteNewest PROVE Spec => []NoGap
  OBVIOUS
<1>1. Imports => NoGap
  BY DEF Imports, MarksImported, Due, Has, NoGap
<1>2. Spec => []Imports
  BY ImportsAlways
<1>3. QED BY <1>1, <1>2, PTL
=============================================================================
