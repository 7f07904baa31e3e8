------------------------------ MODULE Timeline ------------------------------
(***************************************************************************)
(* The readers of the commands table (store.go: List, Get, Search,         *)
(* PrevSame) and what bounds its size (Prune, PruneToSize), in timeline    *)
(* order: by start, then by id. Recordings, imports and deletions by other *)
(* processes come between the steps of PruneToSize. The index is that of   *)
(* module StoreIndex, in step with the rows: a text matches or it does not.*)
(***************************************************************************)
EXTENDS Integers, Sequences, FiniteSets, FiniteSetsExt, SequencesExt

CONSTANTS
  Cmds,      \* command lines; also notes, and what is searched for
  MaxAt,     \* starts are 1..MaxAt; 0 is an unknown start
  MaxId,     \* bound: ids
  MaxSize,   \* the sizes PruneToSize may be asked for, in pages
  Rounds     \* how often PruneToSize tries: eight times

\* Times and ids are numbers, and PruneToSize tries at least once.
ASSUME TimelineAssumption ==
  MaxAt \in Nat /\ MaxId \in Nat /\ MaxSize \subseteq Nat /\ Rounds \in Nat \ {0}

VARIABLES
  rows,      \* id -> row of commands
  phase,     \* of PruneToSize: "idle", "measure", "measured", "picked"
  iter, maxBytes, size, payloadSum, last  \* its locals
pruneVars == <<phase, iter, maxBytes, size, payloadSum, last>>
vars == <<rows, pruneVars>>

NoNote == ""
Unknown == 0
Empty == 1  \* pages of a database without a row

Local == [machine |-> "local", foot |-> 2]
Imports == {[machine |-> "hist:bash", foot |-> 1], [machine |-> "far", foot |-> 1]}

Init ==
  /\ rows = <<>> /\ phase = "idle"
  /\ iter = 0 /\ maxBytes = 0 /\ size = 0 /\ payloadSum = 0 /\ last = 0

-----------------------------------------------------------------------------
\* ORDER BY started_at DESC, id DESC
Newer(r, i, j) == r[i].at > r[j].at \/ (r[i].at = r[j].at /\ i > j)
Newest(ids) ==
  [k \in 1..Cardinality(ids) |->
     CHOOSE i \in ids : Cardinality({j \in ids : Newer(rows, j, i)}) = k - 1]
Top(seq, limit) == SubSeq(seq, 1, IF limit < Len(seq) THEN limit ELSE Len(seq))

\* Filter: the conditions on time and origin; the others, on session, cwd and
\* exit, are of the same kind.
Filters == [since : 0..MaxAt, until : 0..MaxAt, host : {"", "local"}, limit : 0..2]
Limit(f) == IF f.limit <= 0 THEN 20 ELSE f.limit

Where(f) == {i \in DOMAIN rows :
  /\ f.since # 0 => rows[i].at >= f.since
  /\ f.until # 0 => rows[i].at < f.until
  /\ f.host # "" => rows[i].machine = f.host}

List(f) == Top(Newest(Where(f)), Limit(f))

\* Get: an id, or how many entries back from the newest; 0 when there is none.
Get(k) ==
  IF k > 0 THEN IF k \in DOMAIN rows THEN k ELSE 0
  ELSE LET off == IF -k > 0 THEN -k - 1 ELSE 0
       IN  IF off < Cardinality(DOMAIN rows) THEN Newest(DOMAIN rows)[off + 1] ELSE 0

\* searchNotes
Notes(q, f) == Top(Newest({i \in Where(f) : rows[i].note = q}), Limit(f))

\* Mutant: what the notes add is not sorted in.
SearchAppends(q, f) ==
  LET hits  == Top(Newest({i \in Where(f) : rows[i].cmd = q}), Limit(f))
      added == ToSet(Notes(q, f)) \ ToSet(hits)
  IN  Top(hits \o Newest(added), Limit(f))

\* Search: the matches of the index, and of the notes those it lacks; with any of
\* these, all are sorted again.
Search(q, f) ==
  LET hits  == Top(Newest({i \in Where(f) : rows[i].cmd = q}), Limit(f))
      added == ToSet(Notes(q, f)) \ ToSet(hits)
  IN  IF added = {} THEN hits ELSE Top(Newest(ToSet(hits) \cup added), Limit(f))

IsHist(r) == r.machine = "hist:bash"

\* Mutant: of two runs that began together only one is seen.
PrevSameStrict(i) ==
  LET before == {j \in DOMAIN rows : rows[j].cmd = rows[i].cmd /\ rows[j].at < rows[i].at
                                      /\ ~IsHist(rows[j])}
  IN  IF before = {} THEN 0 ELSE Newest(before)[1]

\* PrevSame: the run before this one, of those whose output was recorded.
PrevSame(i) ==
  LET before == {j \in DOMAIN rows : rows[j].cmd = rows[i].cmd /\ Newer(rows, i, j)
                                      /\ ~IsHist(rows[j])}
  IN  IF before = {} THEN 0 ELSE Newest(before)[1]

-----------------------------------------------------------------------------
\* Rows come, from shells that end and from imports, in any order of time. An
\* id is one above the highest in use.
NextId == IF DOMAIN rows = {} THEN 1 ELSE Max(DOMAIN rows) + 1

\* Bound: PruneToSize is run where one command line is in use and no note,
\* which it does not read.
Plain(r) == r.cmd = "a" /\ r.note = NoNote

Insert(from, at, cmd) ==
  /\ NextId <= MaxId
  /\ phase # "idle" => cmd = "a"
  /\ rows' = [i \in DOMAIN rows \cup {NextId} |->
               IF i = NextId THEN [machine |-> from.machine, foot |-> from.foot, at |-> at,
                                   cmd |-> cmd, note |-> NoNote]
               ELSE rows[i]]
  /\ UNCHANGED pruneVars
AddCommand == \E at \in 1..MaxAt, cmd \in Cmds : Insert(Local, at, cmd)
Import == \E from \in Imports, at \in 0..MaxAt, cmd \in Cmds :
            (at = Unknown => from.machine # "far") /\ Insert(from, at, cmd)

SetNote ==
  /\ phase = "idle" /\ Cardinality(DOMAIN rows) = MaxId
  /\ \E i \in DOMAIN rows, note \in Cmds \cup {NoNote} :
       rows' = [rows EXCEPT ![i].note = note]
  /\ UNCHANGED pruneVars

Without(ids) == [i \in DOMAIN rows \ ids |-> rows[i]]
Delete == \E i \in DOMAIN rows : rows' = Without({i}) /\ UNCHANGED pruneVars

\* Prune: all that began before the cutoff, the unknown included.
Prune ==
  /\ phase = "idle"
  /\ \E cutoff \in 1..MaxAt : rows' = Without({i \in DOMAIN rows : rows[i].at < cutoff})
  /\ UNCHANGED pruneVars

-----------------------------------------------------------------------------
\* PruneToSize. What a row takes of the file is not what it is reckoned at:
\* its share of the index shows in no column (store.go:872).
Pages(r) == Empty + FoldFunction(LAMBDA x, s : x.foot + s, 0, r)
FileSize == Pages(rows)
Payload == 1

\* It is done: its locals are gone.
Return == phase' = "idle" /\ iter' = 0 /\ maxBytes' = 0 /\ size' = 0 /\ payloadSum' = 0 /\ last' = 0

Begin ==
  /\ phase = "idle"
  /\ \A i \in DOMAIN rows : Plain(rows[i])
  /\ \E bytes \in MaxSize : maxBytes' = bytes
  /\ phase' = "measure"
  /\ UNCHANGED <<rows, iter, size, payloadSum, last>>

\* Each round: measure; done when it fits, or when nothing is left.
Measure ==
  /\ phase = "measure"
  /\ IF FileSize <= maxBytes \/ rows = <<>> THEN Return
     ELSE /\ size' = FileSize /\ payloadSum' = Payload * Cardinality(DOMAIN rows)
          /\ phase' = "measured"
          /\ UNCHANGED <<iter, maxBytes, last>>
  /\ UNCHANGED rows

\* The oldest rows whose payload, scaled, covers the excess; `last` is the
\* last of them, by time and id.
Pick ==
  /\ phase = "measured"
  /\ LET oldest == Reverse(Newest(DOMAIN rows))
         covers == {k \in DOMAIN oldest : k * Payload * size >= (size - maxBytes) * payloadSum}
         k == IF covers = {} THEN Len(oldest) ELSE Min(covers)
     IN  IF oldest = <<>> THEN Return
         ELSE /\ last' = [at |-> rows[oldest[k]].at, id |-> oldest[k]]
              /\ phase' = "picked" /\ size' = 0 /\ payloadSum' = 0
              /\ UNCHANGED <<iter, maxBytes>>
  /\ UNCHANGED rows

\* Mutant: everything up to the last id goes, whenever it was run.
UpToById == {i \in DOMAIN rows : i <= last.id}

UpTo == {i \in DOMAIN rows : rows[i].at < last.at \/ (rows[i].at = last.at /\ i <= last.id)}

\* Mutant: it does not look whether that was enough.
CutOnce ==
  /\ phase = "picked"
  /\ rows' = Without(UpTo)
  /\ Return

\* DELETE, optimize, VACUUM; the next round unless nothing went or it was the last.
Cut ==
  /\ phase = "picked"
  /\ rows' = Without(UpTo)
  /\ IF UpTo = {} \/ iter = Rounds - 1 THEN Return
     ELSE /\ phase' = "measure" /\ iter' = iter + 1 /\ last' = 0
          /\ UNCHANGED <<maxBytes, size, payloadSum>>

PruneToSize == Begin \/ Measure \/ Pick \/ Cut
Next == AddCommand \/ Import \/ SetNote \/ Delete \/ Prune \/ PruneToSize
Spec == Init /\ [][Next]_vars

-----------------------------------------------------------------------------
Matches(q, i) == rows[i].cmd = q \/ rows[i].note = q

\* Search shows the newest of all that match, in text or in note, each once:
\* cutting both lists before they are merged loses none (store.go:652).
SearchIsNewest == phase = "idle" => \A q \in Cmds, f \in Filters :
  Search(q, f) = Top(Newest({i \in Where(f) : Matches(q, i)}), Limit(f))

\* "0 or -1 = latest, -2 = one before" (store.go:568): counting back visits
\* the table in the order list shows it.
GetCounts == phase = "idle" =>
  /\ Get(0) = Get(-1)
  /\ LET all == List([since |-> 0, until |-> 0, host |-> "", limit |-> 0])
     IN  \A k \in DOMAIN all : Get(-k) = all[k]

\* Going from a run to the one before it (diff <id>) visits every earlier run
\* with output just once, and ends.
PrevSameWalks == phase = "idle" =>
  \A i \in DOMAIN rows :
    LET Walk[k \in 0..MaxId] == IF k = 0 THEN i
                                ELSE IF Walk[k - 1] = 0 THEN 0 ELSE PrevSame(Walk[k - 1])
        runs == {j \in DOMAIN rows : rows[j].cmd = rows[i].cmd /\ ~IsHist(rows[j])
                                      /\ Newer(rows, i, j)}
    IN  [k \in 1..MaxId |-> Walk[k]]
          = Newest(runs) \o [k \in 1..MaxId - Cardinality(runs) |-> 0]

\* Counting back and walking back, by the table as it is.
WalksBack == GetCounts /\ PrevSameWalks

\* "the oldest commands (timeline order; entries with unknown timestamps count
\* as oldest)" (store.go:854): no round takes a row and leaves an older one.
PrunedOldest ==
  [][phase = "picked" /\ phase' # "picked" =>
       \A i \in DOMAIN rows \ DOMAIN rows', j \in DOMAIN rows' : Newer(rows, j, i)]_vars

\* It ends only when the file fits, when there is no row left, when another
\* process has taken all it picked, or after its last round.
PruneStops ==
  [][phase # "idle" /\ phase' = "idle" =>
       FileSize' <= maxBytes \/ DOMAIN rows' = {}
         \/ (phase = "picked" /\ (UpTo = {} \/ iter = Rounds - 1))]_vars

\* It deletes "until the database file fits" (store.go:855), while rows are left
\* and no other process has taken those it picked.
PruneFits ==
  [][phase # "idle" /\ phase' = "idle" =>
       FileSize' <= maxBytes \/ DOMAIN rows' = {} \/ (phase = "picked" /\ UpTo = {})]_vars
=============================================================================
