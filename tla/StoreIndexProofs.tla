-------------------------- MODULE StoreIndexProofs --------------------------
(***************************************************************************)
(* Proofs about StoreIndex, for any processes, texts and bounds: TypeOK;   *)
(* NoDrift, from an invariant that tells at every moment which rows are    *)
(* not posted and whose statement is due; and that redact leaves nothing   *)
(* behind when it overlaps no other process (ScrubbedAlone), whatever dies *)
(* between two statements.                                                 *)
(***************************************************************************)
EXTENDS MCIndexScenarios, FiniteSetTheorems, TLAPS

\* How often a text is posted for a row: the index is external-content, so what
\* counts is the rows of the id, of which there is one at most.
Posting(set, id, t) == IF \E r \in set : r.id = id /\ Plain(r) = t THEN 1 ELSE 0

\* The number of a row's postings that FTS5 is told to delete is that.
LEMMA OnePosting ==
  ASSUME TypeOK, NEW set \in SUBSET rows, NEW id, NEW t
  PROVE  Cardinality({r \in set : r.id = id /\ Plain(r) = t}) = Posting(set, id, t)
<1> DEFINE hits == {r \in set : r.id = id /\ Plain(r) = t}
<1>1. CASE hits = {}
  BY <1>1, FS_EmptySet DEF Posting
<1>2. CASE hits # {}
  <2>1. PICK r \in hits : TRUE
    BY <1>2
  <2>2. hits = {r}
    BY <2>1 DEF TypeOK
  <2>3. QED BY <2>1, <2>2, FS_Singleton DEF Posting
<1>3. QED BY <1>1, <1>2

\* Unposting and posting leave the index a table of counts.
LEMMA PostedTyped ==
  ASSUME TypeOK
  PROVE  /\ \A gone \in SUBSET rows : Unpost(gone) =>
              /\ posted' \in [Ids -> [Indexable -> Int]]
              /\ \A id \in Ids, t \in Indexable :
                   posted'[id][t] = posted[id][t] - Posting(gone, id, t)
         /\ \A i \in Ids, text \in Texts : Post(i, text) =>
              /\ posted' \in [Ids -> [Indexable -> Int]]
              /\ \A id \in Ids, t \in Indexable :
                   posted'[id][t] = posted[id][t]
                                      + (IF id = i /\ t = text THEN 1 ELSE 0)
<1>1. \A id \in Ids, t \in Indexable : posted[id][t] \in Int
  BY DEF TypeOK
<1>2. \A set, id, t : Posting(set, id, t) \in Int
  BY DEF Posting
<1>3. ASSUME NEW gone \in SUBSET rows, Unpost(gone)
      PROVE  /\ posted' \in [Ids -> [Indexable -> Int]]
             /\ \A id \in Ids, t \in Indexable :
                  posted'[id][t] = posted[id][t] - Posting(gone, id, t)
  <2>1. posted' = [id \in Ids |-> [t \in Indexable |-> posted[id][t] - Posting(gone, id, t)]]
    BY <1>3, OnePosting DEF Unpost
  <2>2. QED BY <1>1, <1>2, <2>1
<1>4. ASSUME NEW i \in Ids, NEW text \in Texts, Post(i, text)
      PROVE  /\ posted' \in [Ids -> [Indexable -> Int]]
             /\ \A id \in Ids, t \in Indexable :
                  posted'[id][t] = posted[id][t] + (IF id = i /\ t = text THEN 1 ELSE 0)
  <2>1. posted' = [posted EXCEPT ![i][text] = @ + 1] /\ text \in Indexable
    BY <1>4 DEF Post, Indexable
  <2>2. posted[i][text] + 1 \in Int
    BY <1>1, <2>1
  <2>3. \A id \in Ids, t \in Indexable :
          posted'[id][t] = IF id = i /\ t = text THEN posted[id][t] + 1 ELSE posted[id][t]
    BY <2>1 DEF TypeOK
  <2>4. \A id \in Ids, t \in Indexable :
          posted'[id][t] = posted[id][t] + (IF id = i /\ t = text THEN 1 ELSE 0)
    BY <1>1, <2>3
  <2>5. posted' \in [Ids -> [Indexable -> Int]]
    BY <2>1, <2>2 DEF TypeOK
  <2>6. QED BY <2>4, <2>5
<1>5. QED BY <1>3, <1>4

\* A new row has an id of its own.
LEMMA RowAdded ==
  ASSUME TypeOK, NEW id \in Ids, IsNextId(id), NEW t \in Texts,
         NEW key \in Keys \cup {Null}, NEW at \in Times, NEW row,
         \/ row = NewRow(id, t, key, at)
         \/ row = [NewRow(id, t, key, at) EXCEPT !.plain = Null],
         rows' = rows \cup {row}
  PROVE  /\ rows' \subseteq Row
         /\ \A r, s \in rows' : r.id = s.id => r = s
         /\ \A r \in rows : r.id # id
<1>1. row \in Row /\ row.id = id
  <2>1. CASE row = NewRow(id, t, key, at)
    BY <2>1 DEF Row, NewRow
  <2>2. CASE row = [NewRow(id, t, key, at) EXCEPT !.plain = Null]
    BY <2>2 DEF Row, NewRow
  <2>3. QED BY <2>1, <2>2
<1>2. \A r \in rows : r.id \in Ids
  BY DEF TypeOK, Row
<1>3. \A r \in rows : r.id # id
  BY <1>2 DEF IsNextId, Ids
<1>4. QED BY <1>1, <1>3 DEF TypeOK

\* The idle state of a process is typed.
LEMMA IdleTyped == Idle \in Job /\ Idle.kind = "none" /\ Idle.next = "start"
<1>1. SomeText \in Texts
  BY IndexAssumption DEF IndexAssumption, SomeText
<1>2. 1 \in Ids
  BY IndexAssumption DEF IndexAssumption, Ids
<1>3. QED BY <1>1, <1>2 DEF Idle, Job

\* The initial state is typed.
LEMMA TypeInit == Init => TypeOK
BY IdleTyped DEF Init, TypeOK

\* Statements of AddCommand, AddImported and AddHistory keep the types.
LEMMA TypeAdd ==
  ASSUME TypeOK, NEW p \in Procs, Add(p)
  PROVE  TypeOK'
<1>0. /\ job[p] \in Job /\ job[p].id \in Ids /\ job[p].text \in Texts
      /\ adds + 1 \in Nat /\ crashes \in Nat
  BY DEF TypeOK, Job
<1>1. ASSUME NEW t \in Texts, NEW at \in Times, NEW key \in Keys \cup {Null},
             InsertRow(p, t, key, at)
      PROVE  TypeOK'
  <2>1. PICK id \in Ids :
          /\ IsNextId(id)
          /\ rows' = rows \cup {NewRow(id, t, key, at)}
          /\ job' = [job EXCEPT ![p] = [Idle EXCEPT !.kind = "add", !.next = "post",
                                                    !.id = id, !.text = t]]
    BY <1>1 DEF InsertRow
  <2>3. rows' \subseteq Row /\ \A r, s \in rows' : r.id = s.id => r = s
    BY <2>1, RowAdded
  <2>4. job' \in [Procs -> Job]
    BY <2>1, IdleTyped DEF TypeOK, Job
  <2>5. trust' \in {"yes", "no", "repair"} /\ adds' \in Nat /\ UNCHANGED <<posted, crashes>>
    BY <1>0, <1>1 DEF InsertRow, Starts, TypeOK
  <2>6. QED BY <2>3, <2>4, <2>5 DEF TypeOK
<1>2. ASSUME NEW t \in Texts, NEW at \in Times, NEW key \in Keys,
             AddHistory(p, t, key, at)
      PROVE  TypeOK'
  <2>1. PICK id \in Ids : /\ IsNextId(id)
                          /\ rows' = rows \cup {NewRow(id, t, key, at)} /\ Post(id, t)
    BY <1>2 DEF AddHistory
  <2>3. rows' \subseteq Row /\ \A r, s \in rows' : r.id = s.id => r = s
    BY <2>1, RowAdded
  <2>4. posted' \in [Ids -> [Indexable -> Int]]
    BY <2>1, PostedTyped
  <2>5. trust' \in {"yes", "no", "repair"} /\ adds' \in Nat /\ UNCHANGED <<job, crashes>>
    BY <1>0, <1>2 DEF AddHistory, Starts, TypeOK
  <2>6. QED BY <2>3, <2>4, <2>5 DEF TypeOK
<1>3. ASSUME NEW t \in Texts, NEW at \in Times, OldInsert(p, t, at)
      PROVE  TypeOK'
  <2>1. PICK id \in Ids :
          /\ IsNextId(id)
          /\ rows' = rows \cup {[NewRow(id, t, Null, at) EXCEPT !.plain = Null]}
          /\ Post(id, t)
    BY <1>3 DEF OldInsert
  <2>2. rows' \subseteq Row /\ \A r, s \in rows' : r.id = s.id => r = s
    BY <2>1, RowAdded
  <2>3. posted' \in [Ids -> [Indexable -> Int]]
    BY <2>1, PostedTyped
  <2>4. trust' = "no" /\ adds' \in Nat /\ UNCHANGED <<job, crashes>>
    BY <1>0, <1>3 DEF OldInsert
  <2>5. QED BY <2>2, <2>3, <2>4 DEF TypeOK
<1>4. CASE PostRow(p)
  <2>1. posted' \in [Ids -> [Indexable -> Int]]
    BY <1>0, <1>4, PostedTyped DEF PostRow
  <2>2. QED BY <1>4, <2>1, IdleTyped DEF PostRow, TypeOK
<1>5. QED BY <1>1, <1>2, <1>3, <1>4 DEF Add

\* Statements of delete, prune, redact and reindex, and the death of a process,
\* keep the types.
LEMMA TypeUpkeep ==
  ASSUME TypeOK, NEW p \in Procs, Upkeep(p) \/ Crash(p)
  PROVE  TypeOK'
<1>0. /\ job[p] \in Job /\ job[p].id \in Ids /\ job[p].text \in Texts
      /\ adds \in Nat /\ crashes + 1 \in Nat
      /\ \A r \in rows : r.id \in Ids /\ r.id \in Nat /\ r.raw \in Texts /\ r.at \in Nat
      /\ \A t \in Texts : Redacted[t] \in Texts
  <2>1. job[p] \in Job /\ job[p].id \in Ids /\ job[p].text \in Texts
    BY DEF TypeOK, Job
  <2>2. \A r \in rows : r.id \in Ids /\ r.raw \in Texts /\ r.at \in Times
    BY DEF TypeOK, Row
  <2>3. \A r \in rows : r.id \in Nat
    BY <2>2 DEF Ids
  <2>4. \A t \in Texts : Redacted[t] \in Texts
    BY IndexAssumption DEF IndexAssumption
  <2>5. Times \subseteq Nat
    BY IndexAssumption DEF IndexAssumption
  <2>6. adds \in Nat /\ crashes + 1 \in Nat
    BY DEF TypeOK
  <2>7. QED BY <2>1, <2>2, <2>3, <2>4, <2>5, <2>6
<1>1. ASSUME NEW gone \in SUBSET rows, rows' = rows \ gone \/ rows' = rows
      PROVE  rows' \subseteq Row /\ \A r, s \in rows' : r.id = s.id => r = s
  BY <1>1 DEF TypeOK
<1>2. ASSUME NEW id \in Ids, StartDelete(p, id) PROVE TypeOK'
  <2>1. posted' \in [Ids -> [Indexable -> Int]]
    BY <1>2, {r \in rows : r.id = id} \in SUBSET rows, PostedTyped DEF StartDelete
  <2>2. job' \in [Procs -> Job]
    BY <1>2, IdleTyped DEF StartDelete, TypeOK, Job
  <2>3. QED BY <1>2, <2>1, <2>2 DEF StartDelete, Starts, TypeOK
<1>3. CASE DeleteRow(p)
  <2>1. rows' = rows \ {r \in rows : r.id = job[p].id}
    BY <1>3 DEF DeleteRow
  <2>2. rows' \subseteq Row /\ \A r, s \in rows' : r.id = s.id => r = s
    BY <1>1, <2>1
  <2>3. QED BY <1>3, <2>2, IdleTyped DEF DeleteRow, TypeOK
<1>4. CASE StartPrune(p)
  <2>1. PICK point \in {<<at, 0>> : at \in Times} \cup {<<r.at, r.id>> : r \in rows} :
          /\ Unpost(UpTo(point))
          /\ job' = [job EXCEPT ![p] = [Idle EXCEPT !.kind = "upkeep",
                                                    !.next = "pruneRows",
                                                    !.upto = point]]
    BY <1>4 DEF StartPrune
  <2>2. point \in Nat \X Nat
    BY <1>0, IndexAssumption DEF IndexAssumption
  <2>3. posted' \in [Ids -> [Indexable -> Int]]
    BY <2>1, UpTo(point) \in SUBSET rows, PostedTyped DEF UpTo
  <2>4. job' \in [Procs -> Job]
    BY <2>1, <2>2, IdleTyped DEF TypeOK, Job
  <2>5. QED BY <1>4, <2>3, <2>4 DEF StartPrune, Starts, TypeOK
<1>5. CASE PruneRows(p)
  <2>1. rows' \subseteq Row /\ \A r, s \in rows' : r.id = s.id => r = s
    BY <1>1, <1>5, UpTo(job[p].upto) \in SUBSET rows DEF PruneRows, UpTo
  <2>2. QED BY <1>5, <2>1, IdleTyped DEF PruneRows, TypeOK
<1>6. CASE StartRedact(p)
  <2>1. PICK r \in rows :
          job' = [job EXCEPT ![p] = [Idle EXCEPT !.kind = "upkeep", !.next = "unpost",
                                                 !.id = r.id, !.text = Redacted[r.raw]]]
    BY <1>6 DEF StartRedact
  <2>2. job' \in [Procs -> Job]
    BY <1>0, <2>1, IdleTyped DEF TypeOK, Job
  <2>3. QED BY <1>6, <2>2 DEF StartRedact, Starts, TypeOK
<1>7. CASE RedactUnpost(p)
  <2>1. posted' \in [Ids -> [Indexable -> Int]]
    BY <1>7, {r \in rows : r.id = job[p].id} \in SUBSET rows, PostedTyped DEF RedactUnpost
  <2>2. job' \in [Procs -> Job]
    BY <1>0, <1>7 DEF RedactUnpost, TypeOK, Job
  <2>3. QED BY <1>7, <2>1, <2>2 DEF RedactUnpost, TypeOK
<1>8. CASE RedactUpdate(p)
  <2> DEFINE f(r) == IF r.id = job[p].id
                       THEN [r EXCEPT !.raw = job[p].text, !.plain = job[p].text]
                       ELSE r
  <2>1. \A r \in rows : f(r) \in Row /\ f(r).id = r.id
    BY <1>0 DEF TypeOK, Row
  <2>2. rows' = {f(r) : r \in rows}
    BY <1>8 DEF RedactUpdate
  <2> HIDE DEF f
  <2>3. rows' \subseteq Row /\ \A r, s \in rows' : r.id = s.id => r = s
    BY <2>1, <2>2 DEF TypeOK
  <2>4. job' \in [Procs -> Job]
    BY <1>0, <1>8 DEF RedactUpdate, TypeOK, Job
  <2>5. QED BY <1>8, <2>3, <2>4 DEF RedactUpdate, TypeOK
<1>9. CASE RedactPost(p)
  <2> DEFINE f(r) == IF r.id = job[p].id THEN [r EXCEPT !.scrubbed = TRUE] ELSE r
  <2>1. \A r \in rows : f(r) \in Row /\ f(r).id = r.id
    BY DEF TypeOK, Row
  <2>2. rows' = {f(r) : r \in rows}
    BY <1>9 DEF RedactPost
  <2> HIDE DEF f
  <2>3. rows' \subseteq Row /\ \A r, s \in rows' : r.id = s.id => r = s
    BY <2>1, <2>2 DEF TypeOK
  <2>4. posted' \in [Ids -> [Indexable -> Int]]
    BY <1>0, <1>9, PostedTyped DEF RedactPost
  <2>5. QED BY <1>9, <2>3, <2>4, IdleTyped DEF RedactPost, TypeOK
<1>10. CASE StartReindex(p)
  <2> DEFINE fixes == {[id |-> r.id, text |-> r.raw] : r \in {s \in rows : s.plain = Null}}
  <2>1. fixes \subseteq [id : Ids, text : Texts]
    BY <1>0
  <2>2. job' \in [Procs -> Job]
    BY <1>10, <2>1, IdleTyped DEF StartReindex, TypeOK, Job
  <2>3. QED BY <1>10, <2>2 DEF StartReindex, TypeOK
<1>11. CASE FillPlain(p)
  <2>1. PICK f \in job[p].fixes :
          /\ rows' = {IF r.id = f.id THEN [r EXCEPT !.plain = f.text] ELSE r : r \in rows}
          /\ job' = [job EXCEPT ![p].fixes = @ \ {f}]
    BY <1>11 DEF FillPlain
  <2> DEFINE g(r) == IF r.id = f.id THEN [r EXCEPT !.plain = f.text] ELSE r
  <2>2. f.text \in Texts
    BY <1>0 DEF Job
  <2>3. \A r \in rows : g(r) \in Row /\ g(r).id = r.id
    BY <2>2 DEF TypeOK, Row
  <2>4. rows' = {g(r) : r \in rows}
    BY <2>1
  <2> HIDE DEF g
  <2>5. rows' \subseteq Row /\ \A r, s \in rows' : r.id = s.id => r = s
    BY <2>3, <2>4 DEF TypeOK
  <2>6. job' \in [Procs -> Job]
    BY <1>0, <2>1 DEF TypeOK, Job
  <2>7. QED BY <1>11, <2>5, <2>6 DEF FillPlain, TypeOK
<1>12. CASE Rebuild(p)
  <2>1. posted' = [id \in Ids |-> [t \in Indexable |-> Posting(rows, id, t)]]
    BY <1>12, OnePosting DEF Rebuild
  <2>2. posted' \in [Ids -> [Indexable -> Int]]
    BY <2>1 DEF Posting
  <2>3. QED BY <1>12, <2>2, IdleTyped DEF Rebuild, TypeOK
<1>13. CASE Crash(p)
  BY <1>0, <1>13, IdleTyped DEF Crash, TypeOK
<1>14. QED
  BY <1>2, <1>3, <1>4, <1>5, <1>6, <1>7, <1>8, <1>9, <1>10, <1>11, <1>12, <1>13 DEF Upkeep

\* Every step keeps the types.
LEMMA TypeNext == TypeOK /\ [Next]_vars => TypeOK'
<1>1. TypeOK /\ UNCHANGED vars => TypeOK'
  BY DEF vars, TypeOK
<1>2. QED BY <1>1, TypeAdd, TypeUpkeep DEF Next

\* The rows stay rows with an id of their own, the index a table of counts and
\* every process in a state of one of its operations, for any processes and
\* texts, whatever overlaps or dies.
THEOREM TypeHolds == Spec => []TypeOK
BY TypeInit, TypeNext, PTL DEF Spec
-----------------------------------------------------------------------------
(***************************************************************************)
(* Between the statements of an operation the index and the table differ,  *)
(* by the rows the operation is at: one that AddCommand has inserted and   *)
(* not posted yet, those that delete, prune or redact have unposted.  As   *)
(* long as nothing can have made the index drift, these are the only ones, *)
(* and each of them is the business of one process.                        *)
(***************************************************************************)
OwedBy(q, id) ==
  \/ job[q].next \in {"post", "update", "repost", "deleteRow"} /\ job[q].id = id
  \/ job[q].next = "pruneRows" /\ \E r \in UpTo(job[q].upto) : r.id = id

Owed(id) == \E q \in Procs : OwedBy(q, id)

\* What a process does next belongs to the kind of its operation.
JobsKnown ==
  \A q \in Procs : /\ job[q].kind = "none" <=> job[q].next = "start"
                   /\ job[q].kind = "add" <=> job[q].next = "post"

AllPosted ==
  /\ \A r \in rows : r.plain # Null
  /\ \A id \in Ids, t \in Indexable :
       posted[id][t] = IF Owed(id) THEN 0 ELSE Posting(rows, id, t)

\* Upkeep is alone; two adds are at different rows.
JobsApart ==
  \A p, q \in Procs : p # q =>
    /\ job[p].kind = "upkeep" => job[q].kind = "none"
    /\ job[p].next = "post" /\ job[q].next = "post" => job[p].id # job[q].id

\* A process finds the row it goes on with as it left it.
JobsInStep ==
  \A q \in Procs :
    /\ job[q].next \in {"post", "repost"} =>
         \E r \in rows : r.id = job[q].id /\ r.plain = job[q].text
    /\ job[q].next \in {"unpost", "update"} => \E r \in rows : r.id = job[q].id
    /\ job[q].next = "fill" => job[q].fixes = {}

Undrifted == AllPosted /\ JobsApart /\ JobsInStep

\* A reindex that runs alone has a text for each row that lacks one.
Repairing ==
  \E p \in Procs :
    /\ job[p].next = "fill"
    /\ \A q \in Procs \ {p} : job[q].kind = "none"
    /\ \A r \in rows : r.plain = Null => \E f \in job[p].fixes : f.id = r.id

Indexed ==
  /\ JobsKnown
  /\ trust = "yes" => Undrifted
  /\ trust = "repair" => Repairing

\* No other process has an operation underway.
Lone(p) == \A q \in Procs \ {p} : job[q].kind = "none"

\* Every step leaves each process with a kind and the statement of that kind.
LEMMA JobsKnownNext ==
  ASSUME TypeOK, JobsKnown, NEW p \in Procs, Add(p) \/ Upkeep(p) \/ Crash(p)
  PROVE  /\ JobsKnown'
         /\ \A q \in Procs \ {p} : job'[q] = job[q]
<1>1. job[p] \in Job
  BY DEF TypeOK
<1> DEFINE Right(j) == /\ j.kind = "none" <=> j.next = "start"
                       /\ j.kind = "add" <=> j.next = "post"
           Kept == (\A q \in Procs \ {p} : job'[q] = job[q]) /\ Right(job'[p])
<1>2. Kept
  <2>1. CASE UNCHANGED job
    BY <2>1 DEF JobsKnown
  <2>2. ASSUME NEW j, Right(j), job' = [job EXCEPT ![p] = j]
        PROVE  Kept
    BY <2>2 DEF TypeOK
  <2>3. ASSUME Add(p) PROVE Kept
    <3>1. ASSUME NEW t \in Texts, NEW at \in Times, NEW key \in Keys \cup {Null},
                 InsertRow(p, t, key, at)
          PROVE  Kept
      <4>1. PICK id \in Ids :
              job' = [job EXCEPT ![p] = [Idle EXCEPT !.kind = "add", !.next = "post",
                                                     !.id = id, !.text = t]]
        BY <3>1 DEF InsertRow
      <4>2. QED BY <2>2, <4>1 DEF Idle
    <3>2. CASE PostRow(p)
      BY <2>2, <3>2, IdleTyped DEF PostRow
    <3>3. QED BY <2>1, <2>3, <3>1, <3>2 DEF Add, AddHistory, OldInsert
  <2>4. ASSUME NEW id \in Ids, StartDelete(p, id) PROVE Kept
    BY <2>2, <2>4 DEF StartDelete, Idle
  <2>5. CASE StartPrune(p)
    <3>1. PICK point : job' = [job EXCEPT ![p] = [Idle EXCEPT !.kind = "upkeep",
                                                    !.next = "pruneRows", !.upto = point]]
      BY <2>5 DEF StartPrune
    <3>2. QED BY <2>2, <3>1 DEF Idle
  <2>6. CASE StartRedact(p)
    <3>1. PICK r \in rows :
            job' = [job EXCEPT ![p] = [Idle EXCEPT !.kind = "upkeep", !.next = "unpost",
                                                   !.id = r.id, !.text = Redacted[r.raw]]]
      BY <2>6 DEF StartRedact
    <3> DEFINE j == [Idle EXCEPT !.kind = "upkeep", !.next = "unpost",
                                 !.id = r.id, !.text = Redacted[r.raw]]
    <3>2. j.kind = "upkeep" /\ j.next = "unpost"
      BY DEF Idle
    <3>3. QED BY <2>2, <3>1, <3>2
  <2>7. CASE StartReindex(p)
    <3> DEFINE fixes == {[id |-> r.id, text |-> r.raw] : r \in {s \in rows : s.plain = Null}}
               j == [Idle EXCEPT !.kind = "upkeep", !.next = "fill", !.fixes = fixes]
    <3>1. job' = [job EXCEPT ![p] = j]
      BY <2>7 DEF StartReindex
    <3> HIDE DEF fixes
    <3>2. j.kind = "upkeep" /\ j.next = "fill"
      BY DEF Idle
    <3>3. QED BY <2>2, <3>1, <3>2
  <2>8. CASE RedactUnpost(p)
    BY <1>1, <2>8 DEF RedactUnpost, TypeOK, Job, JobsKnown
  <2>9. CASE RedactUpdate(p)
    BY <1>1, <2>9 DEF RedactUpdate, TypeOK, Job, JobsKnown
  <2>10. CASE FillPlain(p)
    <3>1. PICK f : job' = [job EXCEPT ![p].fixes = @ \ {f}] /\ job[p].next = "fill"
      BY <2>10 DEF FillPlain
    <3>2. QED BY <1>1, <3>1 DEF TypeOK, Job, JobsKnown
  <2>11. CASE DeleteRow(p) \/ PruneRows(p) \/ RedactPost(p) \/ Rebuild(p) \/ Crash(p)
    <3>1. job' = [job EXCEPT ![p] = Idle]
      BY <2>11 DEF DeleteRow, PruneRows, RedactPost, Rebuild, Crash
    <3>2. QED BY <2>2, <3>1, IdleTyped
  <2>12. QED
    BY <2>3, <2>4, <2>5, <2>6, <2>7, <2>8, <2>9, <2>10, <2>11 DEF Upkeep
<1>3. QED BY <1>2 DEF JobsKnown

\* What is owed where one process is alone is what it owes.
LEMMA OwedLone ==
  ASSUME NEW p \in Procs
  PROVE  /\ JobsKnown /\ Lone(p) => \A id : Owed(id) <=> OwedBy(p, id)
         /\ (JobsKnown /\ Lone(p))' => \A id : Owed(id)' <=> OwedBy(p, id)'
<1>1. JobsKnown /\ Lone(p) => \A id : Owed(id) <=> OwedBy(p, id)
  BY DEF JobsKnown, Lone, Owed, OwedBy
<1>2. (JobsKnown /\ Lone(p))' => \A id : Owed(id)' <=> OwedBy(p, id)'
  BY DEF JobsKnown, Lone, Owed, OwedBy
<1>3. QED BY <1>1, <1>2

\* An add overlaps other adds only, and those are at rows of their own.
LEMMA UndriftedAdd ==
  ASSUME TypeOK, Indexed, NEW p \in Procs, Add(p), trust' = "yes"
  PROVE  Undrifted'
<1>1. /\ trust = "yes" /\ Undrifted /\ JobsKnown
      /\ \A q \in Procs \ {p} : job[q].kind \in {"none", "add"}
  <2>1. trust = "yes"
    BY DEF Add, InsertRow, AddHistory, OldInsert, PostRow, Starts
  <2>2. \A q \in Procs : job[q].kind \in {"none", "add", "upkeep"}
    BY DEF TypeOK, Job
  <2>3. Undrifted /\ JobsKnown
    BY <2>1 DEF Indexed
  <2>4. CASE PostRow(p)
    BY <2>2, <2>3, <2>4 DEF PostRow, JobsKnown, Undrifted, JobsApart
  <2>5. ASSUME Starts(p, "add") PROVE \A q \in Procs \ {p} : job[q].kind # "upkeep"
    BY <2>1, <2>5 DEF Starts, Overlaps
  <2>6. QED
    BY <2>1, <2>2, <2>3, <2>4, <2>5 DEF Add, InsertRow, AddHistory, OldInsert
<1>2. JobsKnown' /\ \A q \in Procs \ {p} : job'[q] = job[q]
  BY <1>1, JobsKnownNext
<1>3. \A i : \A q \in Procs \ {p} :
        /\ OwedBy(q, i) <=> job[q].next = "post" /\ job[q].id = i
        /\ OwedBy(q, i)' <=> job[q].next = "post" /\ job[q].id = i
  BY <1>1, <1>2 DEF OwedBy, JobsKnown
<1>4. /\ job[p] \in Job /\ job[p].id \in Ids /\ job[p].text \in Texts
      /\ \A r \in rows : r.plain # Null /\ r.id \in Ids
  BY <1>1 DEF TypeOK, Job, Row, Undrifted, AllPosted
<1>5. \A t \in Texts : t # Null /\ t \in Indexable
  BY IndexAssumption DEF IndexAssumption, Indexable
<1>6. ASSUME NEW t \in Texts, NEW at \in Times, NEW key \in Keys \cup {Null},
             InsertRow(p, t, key, at)
      PROVE  Undrifted'
  <2>1. PICK id \in Ids :
          /\ IsNextId(id)
          /\ rows' = rows \cup {NewRow(id, t, key, at)}
          /\ job' = [job EXCEPT ![p] = [Idle EXCEPT !.kind = "add", !.next = "post",
                                                    !.id = id, !.text = t]]
    BY <1>6 DEF InsertRow
  <2> DEFINE row == NewRow(id, t, key, at)
  <2>2. /\ \A r \in rows : r.id # id
        /\ row.id = id /\ row.plain = t /\ Plain(row) = t
    BY <2>1, <1>5, RowAdded DEF NewRow, Plain
  <2> HIDE DEF row
  <2>3. job[p].next = "start" /\ job'[p].next = "post" /\ job'[p].id = id /\ job'[p].text = t
        /\ job'[p].kind = "add" /\ posted' = posted
    BY <1>1, <1>6, <2>1 DEF InsertRow, Starts, JobsKnown, TypeOK, Idle
  <2>4. \A i : Owed(i)' <=> Owed(i) \/ i = id
    BY <1>3, <2>3 DEF Owed, OwedBy
  <2>5. \A i, u : Posting(rows', i, u) = IF i = id /\ u = t THEN 1 ELSE Posting(rows, i, u)
    BY <2>1, <2>2 DEF Posting, row
  <2>6. \A u \in Indexable : posted[id][u] = 0
    BY <1>1, <2>2 DEF Undrifted, AllPosted, Posting
  <2>7. AllPosted'
    <3>1. \A r \in rows' : r.plain # Null
      BY <1>4, <1>5, <2>1, <2>2 DEF row
    <3>2. \A i \in Ids, u \in Indexable :
            posted[i][u] = IF Owed(i)' THEN 0 ELSE Posting(rows', i, u)
      BY <1>1, <2>4, <2>5, <2>6 DEF Undrifted, AllPosted
    <3>3. QED BY <2>3, <3>1, <3>2 DEF AllPosted
  <2>8. JobsApart'
    BY <1>1, <1>2, <2>2, <2>3 DEF Undrifted, JobsApart, JobsInStep
  <2>9. JobsInStep'
    <3>1. \A r \in rows : r \in rows'
      BY <2>1
    <3>2. row \in rows'
      BY <2>1 DEF row
    <3>3. QED BY <1>1, <1>2, <2>2, <2>3, <3>1, <3>2 DEF Undrifted, JobsInStep
  <2>10. QED BY <2>7, <2>8, <2>9 DEF Undrifted
<1>7. ASSUME NEW t \in Texts, NEW at \in Times, NEW key \in Keys,
             AddHistory(p, t, key, at)
      PROVE  Undrifted'
  <2>1. PICK id \in Ids : /\ IsNextId(id)
                          /\ rows' = rows \cup {NewRow(id, t, key, at)} /\ Post(id, t)
    BY <1>7 DEF AddHistory
  <2> DEFINE row == NewRow(id, t, key, at)
  <2>2. /\ \A r \in rows : r.id # id
        /\ row.id = id /\ row.plain = t /\ Plain(row) = t
    BY <2>1, <1>5, RowAdded DEF NewRow, Plain
  <2> HIDE DEF row
  <2>3. job' = job /\ job[p].next = "start"
    BY <1>1, <1>7 DEF AddHistory, Starts, JobsKnown
  <2>4. \A i : Owed(i)' <=> Owed(i)
    BY <1>3, <2>3 DEF Owed, OwedBy
  <2>5. \A i, u : Posting(rows', i, u) = IF i = id /\ u = t THEN 1 ELSE Posting(rows, i, u)
    BY <2>1, <2>2 DEF Posting, row
  <2>6. \A u \in Indexable : posted[id][u] = 0
    BY <1>1, <2>2 DEF Undrifted, AllPosted, Posting
  <2>7. ~Owed(id)
    BY <1>1, <1>3, <2>2, <2>3 DEF Owed, OwedBy, Undrifted, JobsInStep
  <2>8. \A i \in Ids, u \in Indexable :
          posted'[i][u] = posted[i][u] + (IF i = id /\ u = t THEN 1 ELSE 0)
    BY <2>1, PostedTyped
  <2>9. AllPosted'
    <3>1. \A r \in rows' : r.plain # Null
      BY <1>4, <1>5, <2>1, <2>2 DEF row
    <3>2. \A i \in Ids, u \in Indexable : posted[i][u] \in Int
      BY DEF TypeOK
    <3>3. \A i \in Ids, u \in Indexable :
            posted'[i][u] = IF Owed(i)' THEN 0 ELSE Posting(rows', i, u)
      BY <1>1, <2>4, <2>5, <2>6, <2>7, <2>8, <3>2 DEF Undrifted, AllPosted
    <3>4. QED BY <3>1, <3>3 DEF AllPosted
  <2>10. JobsApart' /\ JobsInStep'
    BY <1>1, <2>1, <2>3 DEF Undrifted, JobsApart, JobsInStep
  <2>11. QED BY <2>9, <2>10 DEF Undrifted
<1>8. CASE PostRow(p)
  <2>0. PICK id \in Ids, t \in Texts : id = job[p].id /\ t = job[p].text
    BY <1>4
  <2>1. /\ rows' = rows /\ Post(id, t) /\ job[p].next = "post"
        /\ job'[p].kind = "none" /\ job'[p].next = "start"
    BY <1>8, <2>0, IdleTyped DEF PostRow, TypeOK
  <2>2. PICK row \in rows : row.id = id /\ row.plain = t
    BY <1>1, <2>0, <2>1 DEF Undrifted, JobsInStep
  <2>3. Owed(id) /\ ~Owed(id)' /\ \A i : i # id => (Owed(i)' <=> Owed(i))
    <3>1. OwedBy(p, id) /\ \A i : i # id => ~OwedBy(p, i)
      BY <2>0, <2>1 DEF OwedBy
    <3>2. \A i : ~OwedBy(p, i)'
      BY <2>1 DEF OwedBy
    <3>3. \A q \in Procs \ {p} : ~(job[q].next = "post" /\ job[q].id = id)
      BY <1>1, <2>0, <2>1 DEF Undrifted, JobsApart
    <3>4. Owed(id) /\ ~Owed(id)'
      BY <1>3, <3>1, <3>2, <3>3 DEF Owed
    <3>5. ASSUME NEW i, i # id PROVE Owed(i)' <=> Owed(i)
      BY <1>3, <3>1, <3>2, <3>5 DEF Owed
    <3>6. QED BY <3>4, <3>5
  <2>4. \A u \in Indexable : posted[id][u] = 0
    BY <1>1, <1>4, <2>3 DEF Undrifted, AllPosted
  <2>5. \A u : Posting(rows, id, u) = IF u = t THEN 1 ELSE 0
    BY <1>4, <1>5, <2>2 DEF Posting, Plain, TypeOK
  <2>6. \A i \in Ids, u \in Indexable :
          posted'[i][u] = posted[i][u] + (IF i = id /\ u = t THEN 1 ELSE 0)
    BY <1>4, <2>1, PostedTyped
  <2>7. AllPosted'
    <3>1. \A i \in Ids, u \in Indexable : posted[i][u] \in Int
      BY DEF TypeOK
    <3>2. ASSUME NEW i \in Ids, NEW u \in Indexable
          PROVE  posted'[i][u] = IF Owed(i)' THEN 0 ELSE Posting(rows, i, u)
      <4>1. CASE i = id
        <5>1. posted'[i][u] = IF u = t THEN 1 ELSE 0
          BY <2>4, <2>6, <4>1
        <5>2. ~Owed(i)' /\ Posting(rows, i, u) = IF u = t THEN 1 ELSE 0
          BY <2>3, <2>5, <4>1
        <5>3. QED BY <5>1, <5>2
      <4>2. CASE i # id
        <5>1. posted'[i][u] = posted[i][u]
          BY <2>6, <3>1, <4>2
        <5>2. QED BY <1>1, <2>3, <4>2, <5>1 DEF Undrifted, AllPosted
      <4>3. QED BY <4>1, <4>2
    <3>3. QED BY <1>4, <2>1, <3>2 DEF AllPosted
  <2>8. JobsApart' /\ JobsInStep'
    BY <1>1, <1>2, <2>1 DEF Undrifted, JobsApart, JobsInStep
  <2>9. QED BY <2>7, <2>8 DEF Undrifted
<1>9. QED BY <1>6, <1>7, <1>8 DEF Add, OldInsert

\* Upkeep that overlaps nothing leaves the index as the table is, but for the
\* rows it is at.
LEMMA UndriftedUpkeep ==
  ASSUME TypeOK, Indexed, NEW p \in Procs, Upkeep(p), trust' = "yes"
  PROVE  Undrifted'
<1>1. ASSUME ~Rebuild(p) PROVE trust = "yes" /\ Undrifted /\ Lone(p)
  <2>1. trust = "yes"
    BY <1>1 DEF Upkeep, StartDelete, DeleteRow, StartPrune, PruneRows, StartRedact,
       RedactUnpost, RedactUpdate, RedactPost, StartReindex, FillPlain, Starts
  <2>2. Undrifted
    BY <2>1 DEF Indexed
  <2>3. ASSUME Starts(p, "upkeep") \/ StartReindex(p) PROVE Lone(p)
    BY <2>3 DEF Starts, StartReindex, Overlaps, Lone
  <2>4. ASSUME job[p].next \notin {"start", "post"} PROVE Lone(p)
    <3>1. job[p].kind = "upkeep"
      BY <2>4 DEF Indexed, JobsKnown, TypeOK, Job
    <3>2. QED BY <2>2, <3>1 DEF Undrifted, JobsApart, Lone
  <2>5. QED
    BY <1>1, <2>1, <2>2, <2>3, <2>4 DEF Upkeep, StartDelete, DeleteRow, StartPrune,
       PruneRows, StartRedact, RedactUnpost, RedactUpdate, RedactPost, FillPlain
<1>2. JobsKnown /\ JobsKnown' /\ \A q \in Procs \ {p} : job'[q] = job[q]
  BY JobsKnownNext DEF Indexed
<1>3. /\ job[p] \in Job /\ job[p].id \in Ids /\ job[p].text \in Texts
      /\ \A r \in rows : r \in Row /\ r.id \in Ids
      /\ \A i \in Ids, u \in Indexable : posted[i][u] \in Int
  BY DEF TypeOK, Job, Row
<1>4. \A t \in Texts : t # Null /\ t \in Indexable
  BY IndexAssumption DEF IndexAssumption, Indexable
<1> DEFINE InStep == /\ job'[p].next \in {"post", "repost"} =>
                          \E r \in rows' : r.id = job'[p].id /\ r.plain = job'[p].text
                     /\ job'[p].next \in {"unpost", "update"} =>
                          \E r \in rows' : r.id = job'[p].id
                     /\ job'[p].next = "fill" => job'[p].fixes = {}
           Exact == \A i \in Ids, u \in Indexable :
                      posted'[i][u] = IF OwedBy(p, i)' THEN 0 ELSE Posting(rows', i, u)
           Plains == \A r \in rows' : r.plain # Null
<1>5. ASSUME Lone(p), Plains, Exact, InStep PROVE Undrifted'
  <2>1. Lone(p)'
    BY <1>2, <1>5 DEF Lone
  <2>2. \A i : Owed(i)' <=> OwedBy(p, i)'
    BY <1>2, <2>1, OwedLone
  <2>3. AllPosted'
    BY <1>5, <2>2 DEF AllPosted
  <2>4. \A q \in Procs \ {p} : job'[q].kind = "none" /\ job'[q].next = "start"
    BY <1>2, <2>1 DEF Lone, JobsKnown
  <2>5. JobsApart' /\ JobsInStep'
    BY <1>5, <2>4 DEF JobsApart, JobsInStep
  <2>6. QED BY <2>3, <2>5 DEF Undrifted
<1>6. ASSUME ~Rebuild(p)
      PROVE  /\ \A i \in Ids, u \in Indexable :
                  posted[i][u] = IF OwedBy(p, i) THEN 0 ELSE Posting(rows, i, u)
             /\ \A r \in rows : r.plain # Null
             /\ job[p].next \in {"repost"} =>
                  \E r \in rows : r.id = job[p].id /\ r.plain = job[p].text
             /\ job[p].next \in {"unpost", "update"} => \E r \in rows : r.id = job[p].id
             /\ job[p].next = "fill" => job[p].fixes = {}
  BY <1>1, <1>2, <1>6, OwedLone DEF Undrifted, AllPosted, JobsInStep
<1>7. ASSUME NEW id \in Ids, StartDelete(p, id) PROVE Undrifted'
  <2> DEFINE gone == {r \in rows : r.id = id}
  <2>1. job'[p].next = "deleteRow" /\ job'[p].id = id /\ rows' = rows /\ job[p].next = "start"
        /\ Unpost(gone)
    BY <1>2, <1>7 DEF StartDelete, Starts, TypeOK, Idle, JobsKnown
  <2>2. \A i \in Ids, u \in Indexable : posted'[i][u] = posted[i][u] - Posting(gone, i, u)
    BY <2>1, PostedTyped
  <2>3. \A i, u : Posting(gone, i, u) = IF i = id THEN Posting(rows, i, u) ELSE 0
    BY DEF Posting
  <2>4. \A i : ~OwedBy(p, i) /\ (OwedBy(p, i)' <=> i = id)
    BY <2>1 DEF OwedBy
  <2>5. ~Rebuild(p)
    BY <2>1 DEF Rebuild
  <2> HIDE DEF gone
  <2>6. Exact
    <3> SUFFICES ASSUME NEW i \in Ids, NEW u \in Indexable
                 PROVE  posted'[i][u] = IF i = id THEN 0 ELSE Posting(rows, i, u)
      BY <2>1, <2>4
    <3>1. posted[i][u] = Posting(rows, i, u)
      BY <1>6, <2>4, <2>5
    <3>2. QED BY <1>3, <2>2, <2>3, <3>1
  <2>7. Plains /\ InStep
    BY <1>6, <2>1, <2>5
  <2>8. QED BY <1>1, <1>5, <2>5, <2>6, <2>7
<1>8. CASE DeleteRow(p)
  <2>1. PICK id \in Ids : id = job[p].id
    BY <1>3
  <2>2. job'[p].next = "start" /\ rows' = {r \in rows : r.id # id} /\ job[p].next = "deleteRow"
        /\ posted' = posted
    BY <1>8, <2>1, IdleTyped DEF DeleteRow, TypeOK
  <2>3. \A i : ~OwedBy(p, i)' /\ (OwedBy(p, i) <=> i = id)
    BY <2>1, <2>2 DEF OwedBy
  <2>4. \A i, u : Posting(rows', i, u) = IF i = id THEN 0 ELSE Posting(rows, i, u)
    BY <2>2 DEF Posting
  <2>5. ~Rebuild(p)
    BY <2>2 DEF Rebuild
  <2>6. Exact
    BY <1>6, <2>2, <2>3, <2>4, <2>5
  <2>7. Plains /\ InStep
    BY <1>6, <2>2, <2>5
  <2>8. QED BY <1>1, <1>5, <2>5, <2>6, <2>7
<1>9. CASE StartPrune(p)
  <2>1. PICK point : /\ Unpost(UpTo(point))
                     /\ job' = [job EXCEPT ![p] = [Idle EXCEPT !.kind = "upkeep",
                                                    !.next = "pruneRows", !.upto = point]]
    BY <1>9 DEF StartPrune
  <2>2. job'[p].next = "pruneRows" /\ job'[p].upto = point /\ rows' = rows
        /\ job[p].next = "start"
    BY <1>2, <1>9, <2>1 DEF StartPrune, Starts, TypeOK, Idle, JobsKnown
  <2>3. UpTo(point) \in SUBSET rows /\ UpTo(point)' = UpTo(point)
    BY <2>2 DEF UpTo
  <2>4. \A i \in Ids, u \in Indexable :
          posted'[i][u] = posted[i][u] - Posting(UpTo(point), i, u)
    BY <2>1, <2>3, PostedTyped
  <2>5. \A i : ~OwedBy(p, i) /\ (OwedBy(p, i)' <=> \E r \in UpTo(point) : r.id = i)
    <3>1. \A i : OwedBy(p, i)' <=> \E r \in UpTo(job[p].upto)' : r.id = i
      BY <2>2 DEF OwedBy
    <3>2. UpTo(job[p].upto)' = UpTo(point)
      BY <2>2 DEF UpTo
    <3>3. QED BY <2>2, <3>1, <3>2 DEF OwedBy
  <2>6. \A i, u : Posting(UpTo(point), i, u) = IF \E r \in UpTo(point) : r.id = i
                                                 THEN Posting(rows, i, u) ELSE 0
    BY <2>3 DEF Posting, TypeOK
  <2>7. ~Rebuild(p)
    BY <2>2 DEF Rebuild
  <2>8. Exact
    <3> SUFFICES ASSUME NEW i \in Ids, NEW u \in Indexable
                 PROVE  posted'[i][u] = IF \E r \in UpTo(point) : r.id = i
                                          THEN 0 ELSE Posting(rows, i, u)
      BY <2>2, <2>5
    <3>1. posted[i][u] = Posting(rows, i, u)
      BY <1>6, <2>5, <2>7
    <3>2. QED BY <1>3, <2>4, <2>6, <3>1
  <2>9. Plains /\ InStep
    BY <1>6, <2>2, <2>7
  <2>10. QED BY <1>1, <1>5, <2>7, <2>8, <2>9
<1>10. CASE PruneRows(p)
  <2> DEFINE gone == UpTo(job[p].upto)
  <2>1. job'[p].next = "start" /\ rows' = rows \ gone /\ job[p].next = "pruneRows"
        /\ posted' = posted
    BY <1>10, IdleTyped DEF PruneRows, TypeOK
  <2>2. \A i : ~OwedBy(p, i)' /\ (OwedBy(p, i) <=> \E r \in gone : r.id = i)
    BY <2>1 DEF OwedBy
  <2>3. gone \subseteq rows
    BY DEF UpTo
  <2> HIDE DEF gone
  <2>4. \A i, u : Posting(rows', i, u) = IF \E r \in gone : r.id = i
                                           THEN 0 ELSE Posting(rows, i, u)
    BY <2>1, <2>3 DEF Posting, TypeOK
  <2>5. ~Rebuild(p)
    BY <2>1 DEF Rebuild
  <2>6. Exact
    <3> SUFFICES ASSUME NEW i \in Ids, NEW u \in Indexable
                 PROVE  posted[i][u] = Posting(rows', i, u)
      BY <2>1, <2>2
    <3>1. QED BY <1>6, <2>2, <2>4, <2>5
  <2>7. Plains /\ InStep
    BY <1>6, <2>1, <2>5
  <2>8. QED BY <1>1, <1>5, <2>5, <2>6, <2>7
<1>11. CASE StartRedact(p)
  <2>1. PICK r \in rows :
          job' = [job EXCEPT ![p] = [Idle EXCEPT !.kind = "upkeep", !.next = "unpost",
                                                 !.id = r.id, !.text = Redacted[r.raw]]]
    BY <1>11 DEF StartRedact
  <2>2. job'[p].next = "unpost" /\ job'[p].id = r.id /\ rows' = rows /\ job[p].next = "start"
        /\ posted' = posted
    BY <1>2, <1>11, <2>1 DEF StartRedact, Starts, TypeOK, Idle, JobsKnown
  <2>3. \A i : ~OwedBy(p, i) /\ ~OwedBy(p, i)'
    BY <2>2 DEF OwedBy
  <2>4. ~Rebuild(p)
    BY <2>2 DEF Rebuild
  <2>5. Exact /\ Plains /\ InStep
    BY <1>6, <2>2, <2>3, <2>4
  <2>6. QED BY <1>1, <1>5, <2>4, <2>5
<1>12. CASE RedactUnpost(p)
  <2>1. PICK id \in Ids : id = job[p].id
    BY <1>3
  <2> DEFINE gone == {r \in rows : r.id = id}
  <2>2. /\ job'[p].next = "update" /\ job'[p].id = id /\ rows' = rows
        /\ job[p].next = "unpost" /\ Unpost(gone)
    BY <1>3, <1>12, <2>1 DEF RedactUnpost, TypeOK, Job
  <2>3. \A i \in Ids, u \in Indexable : posted'[i][u] = posted[i][u] - Posting(gone, i, u)
    BY <2>2, PostedTyped
  <2>4. \A i, u : Posting(gone, i, u) = IF i = id THEN Posting(rows, i, u) ELSE 0
    BY DEF Posting
  <2>5. \A i : ~OwedBy(p, i) /\ (OwedBy(p, i)' <=> i = id)
    BY <2>2 DEF OwedBy
  <2>6. ~Rebuild(p)
    BY <2>2 DEF Rebuild
  <2> HIDE DEF gone
  <2>7. Exact
    <3> SUFFICES ASSUME NEW i \in Ids, NEW u \in Indexable
                 PROVE  posted'[i][u] = IF i = id THEN 0 ELSE Posting(rows, i, u)
      BY <2>2, <2>5
    <3>1. posted[i][u] = Posting(rows, i, u)
      BY <1>6, <2>5, <2>6
    <3>2. QED BY <1>3, <2>3, <2>4, <3>1
  <2>8. Plains /\ InStep
    BY <1>6, <2>1, <2>2, <2>6
  <2>9. QED BY <1>1, <1>5, <2>6, <2>7, <2>8
<1>13. CASE RedactUpdate(p)
  <2>1. PICK id \in Ids, text \in Texts : id = job[p].id /\ text = job[p].text
    BY <1>3
  <2> DEFINE f(r) == IF r.id = id THEN [r EXCEPT !.raw = text, !.plain = text] ELSE r
  <2>2. /\ job'[p].next = "repost" /\ job'[p].id = id /\ job'[p].text = text
        /\ rows' = {f(r) : r \in rows} /\ job[p].next = "update" /\ posted' = posted
    <3>1. rows' = {f(r) : r \in rows} /\ job[p].next = "update" /\ posted' = posted
          /\ job' = [job EXCEPT ![p].next = "repost"]
      BY <1>13, <2>1 DEF RedactUpdate
    <3>2. QED BY <1>3, <2>1, <3>1 DEF TypeOK, Job
  <2>3. \A r \in rows : /\ f(r).id = r.id /\ f(r).plain = IF r.id = id THEN text ELSE r.plain
                        /\ r.id # id => f(r) = r
    BY <1>3 DEF Row
  <2> HIDE DEF f
  <2>4. ~Rebuild(p)
    BY <2>2 DEF Rebuild
  <2>5. \A i : i # id => \A u : Posting(rows', i, u) = Posting(rows, i, u)
    BY <2>2, <2>3 DEF Posting
  <2>6. \A i : (OwedBy(p, i) <=> i = id) /\ (OwedBy(p, i)' <=> i = id)
    BY <2>1, <2>2 DEF OwedBy
  <2>7. Exact
    BY <1>6, <2>2, <2>4, <2>5, <2>6
  <2>8. Plains
    BY <1>4, <1>6, <2>2, <2>3, <2>4
  <2>9. InStep
    BY <1>6, <2>1, <2>2, <2>3, <2>4
  <2>10. QED BY <1>1, <1>5, <2>4, <2>7, <2>8, <2>9
<1>14. CASE RedactPost(p)
  <2>1. PICK id \in Ids, text \in Texts : id = job[p].id /\ text = job[p].text
    BY <1>3
  <2> DEFINE f(r) == IF r.id = id THEN [r EXCEPT !.scrubbed = TRUE] ELSE r
  <2>2. /\ job'[p].next = "start" /\ Post(id, text)
        /\ rows' = {f(r) : r \in rows} /\ job[p].next = "repost"
    BY <1>14, <2>1, IdleTyped DEF RedactPost, TypeOK
  <2>3. \A r \in rows : f(r).id = r.id /\ f(r).plain = r.plain /\ Plain(f(r)) = Plain(r)
    BY <1>3 DEF Row, Plain
  <2> HIDE DEF f
  <2>4. ~Rebuild(p)
    BY <2>2 DEF Rebuild
  <2>5. \A i, u : Posting(rows', i, u) = Posting(rows, i, u)
    BY <2>2, <2>3 DEF Posting
  <2>6. \A i : (OwedBy(p, i) <=> i = id) /\ ~OwedBy(p, i)'
    BY <2>1, <2>2 DEF OwedBy
  <2>7. \A u : Posting(rows, id, u) = IF u = text THEN 1 ELSE 0
    BY <1>4, <1>6, <2>1, <2>2, <2>4 DEF Posting, Plain, TypeOK
  <2>8. \A i \in Ids, u \in Indexable :
          posted'[i][u] = posted[i][u] + (IF i = id /\ u = text THEN 1 ELSE 0)
    BY <2>2, PostedTyped
  <2>9. Exact
    <3> SUFFICES ASSUME NEW i \in Ids, NEW u \in Indexable
                 PROVE  posted'[i][u] = Posting(rows, i, u)
      BY <2>5, <2>6
    <3>1. CASE i = id
      BY <1>6, <2>4, <2>6, <2>7, <2>8, <3>1
    <3>2. CASE i # id
      BY <1>3, <1>6, <2>4, <2>6, <2>8, <3>2
    <3>3. QED BY <3>1, <3>2
  <2>10. Plains /\ InStep
    BY <1>6, <2>2, <2>3, <2>4
  <2>11. QED BY <1>1, <1>5, <2>4, <2>9, <2>10
<1>15. CASE StartReindex(p)
  <2> DEFINE fixes == {[id |-> r.id, text |-> r.raw] : r \in {s \in rows : s.plain = Null}}
  <2>1. job[p].next = "start" /\ rows' = rows /\ posted' = posted
        /\ job' = [job EXCEPT ![p] = [Idle EXCEPT !.kind = "upkeep", !.next = "fill",
                                                  !.fixes = fixes]]
    BY <1>2, <1>15 DEF StartReindex, JobsKnown
  <2>2. ~Rebuild(p)
    BY <2>1 DEF Rebuild
  <2>3. fixes = {}
    BY <1>6, <2>2
  <2> HIDE DEF fixes
  <2>4. job'[p].next = "fill" /\ job'[p].fixes = {}
    BY <2>1, <2>3 DEF TypeOK, Idle
  <2>5. \A i : ~OwedBy(p, i) /\ ~OwedBy(p, i)'
    BY <2>1, <2>4 DEF OwedBy
  <2>6. Exact /\ Plains /\ InStep
    BY <1>6, <2>1, <2>2, <2>4, <2>5
  <2>7. QED BY <1>1, <1>5, <2>2, <2>6
<1>16. CASE FillPlain(p) /\ ~Rebuild(p)
  BY <1>6, <1>16 DEF FillPlain
<1>17. CASE Rebuild(p)
  <2>1. rows' = rows /\ job'[p].next = "start"
        /\ posted' = [i \in Ids |-> [u \in Indexable |-> Posting(rows, i, u)]]
    BY <1>17, OnePosting, IdleTyped DEF Rebuild, TypeOK
  <2>2. \A i : ~OwedBy(p, i)'
    BY <2>1 DEF OwedBy
  <2>3. Exact /\ InStep
    BY <2>1, <2>2
  <2>4. Lone(p) /\ Plains
    <3>1. job[p].next = "fill" /\ job[p].fixes = {} /\ job[p].kind = "upkeep"
      BY <1>2, <1>3, <1>17 DEF Rebuild, JobsKnown, Job
    <3>2. CASE trust = "yes"
      BY <2>1, <3>1, <3>2 DEF Indexed, Undrifted, JobsApart, AllPosted, Lone
    <3>3. CASE trust = "repair"
      <4>1. PICK q \in Procs :
              /\ \A o \in Procs \ {q} : job[o].kind = "none"
              /\ \A r \in rows : r.plain = Null => \E f \in job[q].fixes : f.id = r.id
        BY <3>3 DEF Indexed, Repairing
      <4>2. q = p
        BY <3>1, <4>1
      <4>3. QED BY <2>1, <3>1, <4>1, <4>2 DEF Lone
    <3>4. trust \in {"yes", "repair"}
      BY <1>17 DEF Rebuild
    <3>5. QED BY <3>2, <3>3, <3>4
  <2>5. QED BY <1>5, <2>3, <2>4
<1>18. QED
  BY <1>7, <1>8, <1>9, <1>10, <1>11, <1>12, <1>13, <1>14, <1>15, <1>16, <1>17 DEF Upkeep

\* A reindex that has begun alone still has a text for each row without one.
LEMMA RepairingNext ==
  ASSUME TypeOK, Indexed, NEW p \in Procs, Add(p) \/ Upkeep(p) \/ Crash(p), trust' = "repair"
  PROVE  Repairing'
<1>1. JobsKnown /\ \A q \in Procs \ {p} : job'[q] = job[q]
  BY JobsKnownNext DEF Indexed
<1>2. CASE StartReindex(p)
  <2> DEFINE fixes == {[id |-> r.id, text |-> r.raw] : r \in {s \in rows : s.plain = Null}}
  <2>1. /\ \A q \in Procs \ {p} : job[q].kind = "none"
        /\ rows' = rows
        /\ job' = [job EXCEPT ![p] = [Idle EXCEPT !.kind = "upkeep", !.next = "fill",
                                                  !.fixes = fixes]]
    BY <1>2 DEF StartReindex
  <2>2. ASSUME NEW r \in rows, r.plain = Null PROVE \E f \in fixes : f.id = r.id
    <3>1. [id |-> r.id, text |-> r.raw] \in fixes
      BY <2>2
    <3> HIDE DEF fixes
    <3>2. QED BY <3>1
  <2> HIDE DEF fixes
  <2>3. job'[p].next = "fill" /\ job'[p].fixes = fixes
    BY <2>1 DEF TypeOK, Idle
  <2>4. QED BY <1>1, <2>1, <2>2, <2>3 DEF Repairing
<1>3. ASSUME ~StartReindex(p) PROVE trust = "repair" /\ FillPlain(p)
  <2>1. trust = "repair"
    BY <1>3 DEF Add, InsertRow, AddHistory, OldInsert, PostRow, Upkeep, StartDelete, DeleteRow,
       StartPrune, PruneRows, StartRedact, RedactUnpost, RedactUpdate, RedactPost, FillPlain,
       Rebuild, Starts, Crash
  <2>2. PICK q \in Procs : /\ job[q].next = "fill"
                           /\ \A o \in Procs \ {q} : job[o].kind = "none"
    BY <2>1 DEF Indexed, Repairing
  <2>3. job[q].kind = "upkeep"
    BY <1>1, <2>2 DEF JobsKnown, TypeOK, Job
  <2>4. ASSUME NEW kind, Starts(p, kind) PROVE FALSE
    BY <2>1, <2>2, <2>3, <2>4 DEF Starts, Overlaps
  <2>5. \A n \in {"post", "deleteRow", "pruneRows", "unpost", "update", "repost"} :
          job[p].next # n
    BY <1>1, <2>2 DEF JobsKnown
  <2>6. ~Add(p)
    <3>1. \A t, key, at : ~InsertRow(p, t, key, at) /\ ~AddHistory(p, t, key, at)
      BY <2>4 DEF InsertRow, AddHistory
    <3>2. \A t, at : ~OldInsert(p, t, at)
      BY DEF OldInsert
    <3>3. QED BY <2>5, <3>1, <3>2 DEF Add, PostRow
  <2>7. ~Crash(p) /\ ~Rebuild(p)
    BY <2>1 DEF Crash, Rebuild
  <2>8. (\A id \in Ids : ~StartDelete(p, id)) /\ ~StartPrune(p) /\ ~StartRedact(p)
    BY <2>4 DEF StartDelete, StartPrune, StartRedact
  <2>9. QED
    BY <1>3, <2>1, <2>5, <2>6, <2>7, <2>8 DEF Upkeep, DeleteRow, PruneRows, RedactUnpost,
       RedactUpdate, RedactPost
<1>4. CASE ~StartReindex(p)
  <2>1. PICK q \in Procs :
          /\ \A o \in Procs \ {q} : job[o].kind = "none"
          /\ \A r \in rows : r.plain = Null => \E f \in job[q].fixes : f.id = r.id
    BY <1>3, <1>4 DEF Indexed, Repairing
  <2>2. job[p].next = "fill" /\ q = p
    BY <1>1, <1>3, <1>4, <2>1 DEF FillPlain, JobsKnown
  <2>3. PICK f \in job[p].fixes :
          /\ rows' = {IF r.id = f.id THEN [r EXCEPT !.plain = f.text] ELSE r : r \in rows}
          /\ job' = [job EXCEPT ![p].fixes = @ \ {f}]
    BY <1>3, <1>4 DEF FillPlain
  <2>4. job'[p].next = "fill" /\ job'[p].fixes = job[p].fixes \ {f}
    BY <2>2, <2>3 DEF TypeOK, Job
  <2>5. f.text # Null
    BY IndexAssumption DEF IndexAssumption, TypeOK, Job
  <2>6. ASSUME NEW r \in rows', r.plain = Null
        PROVE  \E g \in job[p].fixes \ {f} : g.id = r.id
    <3>1. \A s \in rows : [s EXCEPT !.plain = f.text].plain = f.text
      BY DEF TypeOK, Row
    <3>2. r \in rows /\ r.id # f.id
      BY <2>3, <2>5, <2>6, <3>1
    <3>3. QED BY <2>1, <2>2, <2>6, <3>2
  <2>7. QED BY <1>1, <2>1, <2>2, <2>4, <2>6 DEF Repairing
<1>5. QED BY <1>2, <1>4

\* At the start nothing is stored, posted or under way.
LEMMA IndexedInit == Init => Indexed
<1> SUFFICES ASSUME Init PROVE Indexed
  OBVIOUS
<1>1. \A q \in Procs : job[q].kind = "none" /\ job[q].next = "start"
  BY IdleTyped DEF Init
<1>2. \A i : ~Owed(i)
  BY <1>1 DEF Owed, OwedBy
<1>3. AllPosted
  BY <1>2 DEF Init, AllPosted, Posting
<1>4. QED BY <1>1, <1>3 DEF Init, Indexed, JobsKnown, Undrifted, JobsApart, JobsInStep

\* Every step keeps Indexed.
LEMMA IndexedNext == TypeOK /\ Indexed /\ [Next]_vars => Indexed'
<1> SUFFICES ASSUME TypeOK, Indexed, [Next]_vars PROVE Indexed'
  OBVIOUS
<1>1. ASSUME NEW p \in Procs, Add(p) \/ Upkeep(p) \/ Crash(p) PROVE Indexed'
  <2>1. JobsKnown'
    BY <1>1, JobsKnownNext DEF Indexed
  <2>2. trust' = "yes" => Undrifted'
    BY <1>1, UndriftedAdd, UndriftedUpkeep DEF Crash
  <2>3. trust' = "repair" => Repairing'
    BY <1>1, RepairingNext
  <2>4. QED BY <2>1, <2>2, <2>3 DEF Indexed
<1>2. CASE UNCHANGED vars
  BY <1>2 DEF vars, Indexed, JobsKnown, Undrifted, AllPosted, JobsApart, JobsInStep,
     Repairing, Owed, OwedBy, UpTo
<1>3. QED BY <1>1, <1>2 DEF Next

\* Indexed holds in every reachable state.
LEMMA IndexedAlways == Spec => []Indexed
BY IndexedInit, IndexedNext, TypeHolds, PTL DEF Spec

\* Index and table agree whenever nobody is at work and nothing can have made
\* them differ, and again after a reindex has run alone, for any number of
\* recorders, imports, redactions, deletions and prunes on the one database
\* (AddCommand, AddImported, AddHistory, Delete, Prune, UpdateOutput, RebuildFTS).
THEOREM NoDriftHolds == Spec => []NoDrift
<1>1. ASSUME Indexed PROVE NoDrift
  <2> SUFFICES ASSUME trust = "yes", \A p \in Procs : job[p].kind = "none" PROVE Agree
    BY DEF NoDrift
  <2>1. AllPosted /\ JobsKnown
    BY <1>1 DEF Indexed, Undrifted
  <2>2. \A i : ~Owed(i)
    BY <2>1 DEF Owed, OwedBy, JobsKnown
  <2>3. QED BY <2>1, <2>2 DEF AllPosted, Agree, Posting
<1>2. QED BY <1>1, IndexedAlways, PTL
-----------------------------------------------------------------------------
(***************************************************************************)
(* Redact with nothing else going on.  An earlier command may have died    *)
(* anywhere, so the index need not agree with the table; but it never      *)
(* holds more than the table does, and while an operation is at a row it   *)
(* holds nothing of it.                                                    *)
(***************************************************************************)
HoldsNoMore ==
  /\ \A r \in rows : r.plain = r.raw
  /\ \A id \in Ids, t \in Indexable : posted[id][t] <= Posting(rows, id, t)

\* What the process p knows of the row it is at.
AtRow(p) ==
  /\ job[p].kind = "none" => job[p].next = "start"
  /\ \A id \in Ids : OwedBy(p, id) => \A t \in Indexable : posted[id][t] <= 0
  /\ job[p].next \in {"post", "repost"} =>
       \E r \in rows : r.id = job[p].id /\ r.plain = job[p].text
  /\ job[p].next \in {"unpost", "update"} => \E r \in rows : r.id = job[p].id
  /\ job[p].next \in {"unpost", "update", "repost"} => Redacted[job[p].text] = job[p].text
  /\ job[p].next = "fill" => job[p].fixes = {}

ScrubbedIsMasked == \A r \in rows : r.scrubbed => Redacted[r.raw] = r.raw

Alone(p) == HoldsNoMore /\ AtRow(p) /\ ScrubbedIsMasked

\* A process that works alone adds an entry and posts it.
LEMMA AloneAdd ==
  ASSUME TypeOK, NEW p \in Procs, Alone(p), Add(p),
         \A t \in Texts, at \in Times : ~OldInsert(p, t, at)
  PROVE  Alone(p)'
<1>1. /\ \A i \in Ids, u \in Indexable : posted[i][u] \in Int
      /\ \A t \in Texts : t \in Indexable
      /\ job[p] \in Job /\ job[p].id \in Ids /\ job[p].text \in Texts
  BY DEF TypeOK, Job, Indexable
<1>2. ASSUME NEW id \in Ids, IsNextId(id), NEW t \in Texts, NEW key \in Keys \cup {Null},
             NEW at \in Times, rows' = rows \cup {NewRow(id, t, key, at)}
      PROVE  /\ \A r \in rows' : r.plain = r.raw
             /\ ScrubbedIsMasked'
             /\ \A i, u : /\ Posting(rows, i, u) <= Posting(rows', i, u)
                          /\ Posting(rows, id, u) = 0
             /\ Posting(rows', id, t) = 1
             /\ \E r \in rows' : r.id = id /\ r.plain = t
  <2>1. \A r \in rows : r.id # id
    BY <1>2, RowAdded
  <2> DEFINE row == NewRow(id, t, key, at)
  <2>2. row.id = id /\ row.plain = t /\ row.raw = t /\ row.scrubbed = FALSE
    BY DEF NewRow
  <2>3. rows' = rows \cup {row}
    BY <1>2
  <2> HIDE DEF row
  <2>4. Plain(row) = t
    BY <2>2, IndexAssumption DEF IndexAssumption, Plain
  <2>5. QED
    BY <2>1, <2>2, <2>3, <2>4 DEF Alone, HoldsNoMore, ScrubbedIsMasked, Posting
<1>3. ASSUME NEW t \in Texts, NEW at \in Times, NEW key \in Keys \cup {Null},
             InsertRow(p, t, key, at)
      PROVE  Alone(p)'
  <2>1. PICK id \in Ids :
          /\ IsNextId(id)
          /\ rows' = rows \cup {NewRow(id, t, key, at)}
          /\ job' = [job EXCEPT ![p] = [Idle EXCEPT !.kind = "add", !.next = "post",
                                                    !.id = id, !.text = t]]
    BY <1>3 DEF InsertRow
  <2>2. /\ job'[p].kind = "add" /\ job'[p].next = "post" /\ job'[p].id = id
        /\ job'[p].text = t /\ posted' = posted
    BY <1>3, <2>1 DEF InsertRow, TypeOK, Idle
  <2>3. \A i : OwedBy(p, i)' <=> i = id
    BY <2>2 DEF OwedBy
  <2>4. HoldsNoMore'
    BY <1>1, <1>2, <2>1, <2>2 DEF Alone, HoldsNoMore, Posting
  <2>5. \A u \in Indexable : posted[id][u] <= 0
    BY <1>1, <1>2, <2>1 DEF Alone, HoldsNoMore
  <2>6. AtRow(p)'
    BY <1>2, <2>1, <2>2, <2>3, <2>5 DEF AtRow
  <2>7. QED BY <1>2, <2>1, <2>4, <2>6 DEF Alone
<1>4. ASSUME NEW t \in Texts, NEW at \in Times, NEW key \in Keys, AddHistory(p, t, key, at)
      PROVE  Alone(p)'
  <2>1. PICK id \in Ids : /\ IsNextId(id)
                          /\ rows' = rows \cup {NewRow(id, t, key, at)} /\ Post(id, t)
    BY <1>4 DEF AddHistory
  <2>2. job[p].kind = "none" /\ job[p].next = "start" /\ job' = job
    BY <1>4 DEF AddHistory, Starts, Alone, AtRow
  <2>3. \A i \in Ids, u \in Indexable :
          posted'[i][u] = posted[i][u] + (IF i = id /\ u = t THEN 1 ELSE 0)
    BY <2>1, PostedTyped
  <2>4. \A i \in Ids, u \in Indexable : posted'[i][u] <= Posting(rows', i, u)
    BY <1>1, <1>2, <2>1, <2>3 DEF Alone, HoldsNoMore, Posting
  <2>5. HoldsNoMore'
    BY <1>2, <2>1, <2>4 DEF HoldsNoMore
  <2>6. AtRow(p)'
    BY <2>2 DEF AtRow, OwedBy
  <2>7. QED BY <1>2, <2>1, <2>5, <2>6 DEF Alone
<1>5. CASE PostRow(p)
  <2>1. PICK id \in Ids, t \in Texts : id = job[p].id /\ t = job[p].text
    BY <1>1
  <2>2. job[p].next = "post" /\ rows' = rows /\ Post(id, t) /\ job'[p] = Idle
    BY <1>5, <2>1 DEF PostRow, TypeOK
  <2>3. \A i \in Ids, u \in Indexable :
          posted'[i][u] = posted[i][u] + (IF i = id /\ u = t THEN 1 ELSE 0)
    BY <2>2, PostedTyped
  <2>4. posted[id][t] <= 0
    BY <1>1, <2>1, <2>2 DEF Alone, AtRow, OwedBy
  <2>5. Posting(rows, id, t) = 1
    BY <2>1, <2>2, IndexAssumption DEF IndexAssumption, Alone, AtRow, Posting, Plain
  <2>6. HoldsNoMore'
    BY <1>1, <2>2, <2>3, <2>4, <2>5 DEF Alone, HoldsNoMore
  <2>7. AtRow(p)'
    BY <2>2, IdleTyped DEF AtRow, OwedBy
  <2>8. QED BY <2>2, <2>6, <2>7 DEF Alone, ScrubbedIsMasked
<1>6. QED BY <1>3, <1>4, <1>5 DEF Add

\* A process that works alone deletes, prunes, redacts, reindexes or dies.
LEMMA AloneUpkeep ==
  ASSUME TypeOK, NEW p \in Procs, Alone(p), Upkeep(p) \/ Crash(p)
  PROVE  Alone(p)'
<1>1. /\ \A i \in Ids, u \in Indexable : posted[i][u] \in Int
      /\ \A r \in rows : r.id \in Ids /\ r.raw \in Texts /\ r.plain = r.raw /\ r.plain # Null
      /\ \A t \in Texts : Redacted[Redacted[t]] = Redacted[t] /\ t # Null
      /\ \A r, s \in rows : r.id = s.id => r = s
      /\ job[p] \in Job /\ job[p].id \in Ids /\ job[p].text \in Texts
      /\ \A set, i, u : Posting(set, i, u) \in {0, 1}
  BY IndexAssumption DEF IndexAssumption, TypeOK, Job, Row, Alone, HoldsNoMore, Posting
<1>2. /\ \A i \in Ids, u \in Indexable : posted[i][u] <= Posting(rows, i, u)
      /\ AtRow(p) /\ ScrubbedIsMasked
  BY DEF Alone, HoldsNoMore
<1>3. ASSUME NEW id \in Ids, Unpost({r \in rows : r.id = id})
      PROVE  \A i \in Ids, u \in Indexable : /\ posted'[i][u] <= Posting(rows, i, u)
                                             /\ i = id => posted'[i][u] <= 0
  <2> DEFINE gone == {r \in rows : r.id = id}
  <2>1. \A i \in Ids, u \in Indexable : posted'[i][u] = posted[i][u] - Posting(gone, i, u)
    BY <1>3, gone \in SUBSET rows, PostedTyped
  <2>2. \A u : Posting(gone, id, u) = Posting(rows, id, u)
    BY DEF Posting
  <2> HIDE DEF gone
  <2>3. QED BY <1>1, <1>2, <2>1, <2>2
<1>4. ASSUME UNCHANGED <<rows, posted>>, job'[p] = Idle PROVE Alone(p)'
  BY <1>4, IdleTyped DEF Alone, HoldsNoMore, AtRow, OwedBy, ScrubbedIsMasked, Posting
<1>5. ASSUME NEW id \in Ids, StartDelete(p, id) PROVE Alone(p)'
  <2>1. /\ job'[p].kind = "upkeep" /\ job'[p].next = "deleteRow" /\ job'[p].id = id
        /\ rows' = rows /\ Unpost({r \in rows : r.id = id})
    BY <1>5 DEF StartDelete, TypeOK, Idle
  <2>2. AtRow(p)'
    BY <1>3, <2>1 DEF AtRow, OwedBy
  <2>3. QED BY <1>1, <1>2, <1>3, <2>1, <2>2 DEF Alone, HoldsNoMore, ScrubbedIsMasked, Posting
<1>6. ASSUME posted' = posted, job'[p] = Idle, rows' \subseteq rows,
             \A r \in rows \ rows' : OwedBy(p, r.id)
      PROVE  Alone(p)'
  <2>1. \A i \in Ids, u \in Indexable :
          posted[i][u] <= 0 \/ Posting(rows', i, u) = Posting(rows, i, u)
    BY <1>1, <1>2, <1>6 DEF AtRow, Posting
  <2>2. HoldsNoMore'
    BY <1>1, <1>2, <1>6, <2>1 DEF HoldsNoMore, Posting
  <2>3. AtRow(p)'
    BY <1>6, IdleTyped DEF AtRow, OwedBy
  <2>4. QED BY <1>2, <1>6, <2>2, <2>3 DEF Alone, ScrubbedIsMasked
<1>7. CASE DeleteRow(p)
  BY <1>6, <1>7 DEF DeleteRow, OwedBy, TypeOK
<1>8. CASE StartPrune(p)
  <2>1. PICK point : /\ Unpost(UpTo(point))
                     /\ job' = [job EXCEPT ![p] = [Idle EXCEPT !.kind = "upkeep",
                                                    !.next = "pruneRows", !.upto = point]]
    BY <1>8 DEF StartPrune
  <2>2. /\ job'[p].kind = "upkeep" /\ job'[p].next = "pruneRows" /\ job'[p].upto = point
        /\ rows' = rows
    BY <1>8, <2>1 DEF StartPrune, TypeOK, Idle
  <2>3. UpTo(point) \in SUBSET rows /\ UpTo(point)' = UpTo(point)
    BY <2>2 DEF UpTo
  <2>4. \A i \in Ids, u \in Indexable :
          posted'[i][u] = posted[i][u] - Posting(UpTo(point), i, u)
    BY <2>1, <2>3, PostedTyped
  <2>5. \A i, u : (\E r \in UpTo(point) : r.id = i) =>
                    Posting(UpTo(point), i, u) = Posting(rows, i, u)
    BY <1>1, <2>3 DEF Posting
  <2>6. \A i \in Ids : OwedBy(p, i)' <=> \E r \in UpTo(point) : r.id = i
    BY <2>2, <2>3 DEF OwedBy
  <2>7. \A i \in Ids, u \in Indexable :
          /\ posted'[i][u] <= Posting(rows, i, u)
          /\ OwedBy(p, i)' => posted'[i][u] <= 0
    BY <1>1, <1>2, <2>4, <2>5, <2>6
  <2>8. AtRow(p)'
    BY <2>2, <2>7 DEF AtRow
  <2>9. QED BY <1>1, <1>2, <2>2, <2>7, <2>8 DEF Alone, HoldsNoMore, ScrubbedIsMasked, Posting
<1>9. CASE PruneRows(p)
  BY <1>6, <1>9 DEF PruneRows, OwedBy, TypeOK
<1>10. CASE StartRedact(p)
  <2>1. PICK r \in rows :
          job' = [job EXCEPT ![p] = [Idle EXCEPT !.kind = "upkeep", !.next = "unpost",
                                                 !.id = r.id, !.text = Redacted[r.raw]]]
    BY <1>10 DEF StartRedact
  <2>2. /\ job'[p].kind = "upkeep" /\ job'[p].next = "unpost" /\ job'[p].id = r.id
        /\ job'[p].text = Redacted[r.raw] /\ UNCHANGED <<rows, posted>>
    BY <1>10, <2>1 DEF StartRedact, TypeOK, Idle
  <2>3. AtRow(p)'
    BY <1>1, <2>2 DEF AtRow, OwedBy
  <2>4. QED BY <1>1, <1>2, <2>2, <2>3 DEF Alone, HoldsNoMore, ScrubbedIsMasked, Posting
<1>11. CASE RedactUnpost(p)
  <2>1. PICK id \in Ids, t \in Texts : id = job[p].id /\ t = job[p].text
    BY <1>1
  <2>2. /\ job'[p].kind = job[p].kind /\ job'[p].next = "update" /\ job'[p].id = id
        /\ job'[p].text = t /\ rows' = rows /\ Unpost({r \in rows : r.id = id})
        /\ job[p].next = "unpost"
    BY <1>11, <2>1 DEF RedactUnpost, TypeOK, Job
  <2>3. AtRow(p)'
    BY <1>2, <1>3, <2>1, <2>2 DEF AtRow, OwedBy
  <2>4. QED BY <1>1, <1>2, <1>3, <2>2, <2>3 DEF Alone, HoldsNoMore, ScrubbedIsMasked, Posting
<1>12. CASE RedactUpdate(p)
  <2>1. PICK id \in Ids, t \in Texts : id = job[p].id /\ t = job[p].text
    BY <1>1
  <2> DEFINE f(r) == IF r.id = id THEN [r EXCEPT !.raw = t, !.plain = t] ELSE r
  <2>2. /\ job'[p].kind = job[p].kind /\ job'[p].next = "repost" /\ job'[p].id = id
        /\ job'[p].text = t /\ posted' = posted /\ job[p].next = "update"
        /\ rows' = {f(r) : r \in rows}
    <3>1. /\ job'[p].kind = job[p].kind /\ job'[p].next = "repost" /\ job'[p].id = id
          /\ job'[p].text = t
      BY <1>12, <2>1 DEF RedactUpdate, TypeOK, Job
    <3>2. posted' = posted /\ job[p].next = "update" /\ rows' = {f(r) : r \in rows}
      BY <1>12, <2>1 DEF RedactUpdate
    <3>3. QED BY <3>1, <3>2
  <2>3. \A r \in rows : /\ f(r).id = r.id /\ (r.id # id => f(r) = r)
                        /\ r.id = id => f(r).plain = t /\ f(r).raw = t
    BY DEF TypeOK, Row
  <2> HIDE DEF f
  <2>4. Redacted[t] = t /\ \E r \in rows : r.id = id
    BY <1>2, <2>1, <2>2 DEF AtRow
  <2>5. \A u \in Indexable : posted[id][u] <= 0
    BY <1>2, <2>1, <2>2 DEF AtRow, OwedBy
  <2>6. \A i, u : i # id => Posting(rows', i, u) = Posting(rows, i, u)
    BY <2>2, <2>3 DEF Posting
  <2>7. \A r \in rows' : r.plain = r.raw /\ (r.scrubbed => Redacted[r.raw] = r.raw)
    BY <1>1, <1>2, <2>2, <2>3, <2>4 DEF ScrubbedIsMasked
  <2>8. \A i \in Ids, u \in Indexable : posted'[i][u] <= Posting(rows', i, u)
    BY <1>1, <1>2, <2>2, <2>5, <2>6
  <2>9. AtRow(p)'
    BY <1>2, <2>1, <2>2, <2>3, <2>4, <2>5 DEF AtRow, OwedBy
  <2>10. QED BY <2>7, <2>8, <2>9 DEF Alone, HoldsNoMore, ScrubbedIsMasked, Posting
<1>13. CASE RedactPost(p)
  <2>1. PICK id \in Ids, t \in Texts : id = job[p].id /\ t = job[p].text
    BY <1>1
  <2> DEFINE f(r) == IF r.id = id THEN [r EXCEPT !.scrubbed = TRUE] ELSE r
  <2>2. /\ Post(id, t) /\ job'[p] = Idle /\ job[p].next = "repost"
        /\ rows' = {f(r) : r \in rows}
    BY <1>13, <2>1 DEF RedactPost, TypeOK
  <2>3. \A r \in rows : /\ f(r).id = r.id /\ f(r).plain = r.plain /\ f(r).raw = r.raw
                        /\ r.id # id => f(r) = r
    BY DEF TypeOK, Row
  <2> HIDE DEF f
  <2>4. PICK r \in rows : r.id = id /\ r.plain = t /\ Redacted[t] = t
    BY <1>2, <2>1, <2>2 DEF AtRow
  <2>5. \A i, u : Posting(rows', i, u) = Posting(rows, i, u)
    BY <2>2, <2>3 DEF Posting, Plain
  <2>6. Posting(rows, id, t) = 1
    BY <1>1, <2>4 DEF Posting, Plain
  <2>7. \A i \in Ids, u \in Indexable :
          posted'[i][u] = posted[i][u] + (IF i = id /\ u = t THEN 1 ELSE 0)
    BY <2>2, PostedTyped
  <2>8. \A u \in Indexable : posted[id][u] <= 0
    BY <1>2, <2>1, <2>2 DEF AtRow, OwedBy
  <2>9. \A i \in Ids, u \in Indexable : posted'[i][u] <= Posting(rows', i, u)
    BY <1>1, <1>2, <2>5, <2>6, <2>7, <2>8
  <2>10. \A s \in rows' : s.plain = s.raw /\ (s.scrubbed => Redacted[s.raw] = s.raw)
    BY <1>1, <1>2, <2>2, <2>3, <2>4 DEF ScrubbedIsMasked
  <2>11. AtRow(p)'
    BY <2>2, IdleTyped DEF AtRow, OwedBy
  <2>12. QED BY <2>9, <2>10, <2>11 DEF Alone, HoldsNoMore, ScrubbedIsMasked, Posting
<1>14. CASE StartReindex(p)
  <2>1. {[id |-> r.id, text |-> r.raw] : r \in {s \in rows : s.plain = Null}} = {}
    BY <1>1
  <2>2. /\ job'[p].kind = "upkeep" /\ job'[p].next = "fill" /\ job'[p].fixes = {}
        /\ UNCHANGED <<rows, posted>>
    BY <1>14, <2>1 DEF StartReindex, TypeOK, Idle
  <2>3. AtRow(p)'
    BY <2>2 DEF AtRow, OwedBy
  <2>4. QED BY <1>1, <1>2, <2>2, <2>3 DEF Alone, HoldsNoMore, ScrubbedIsMasked, Posting
<1>15. CASE FillPlain(p)
  BY <1>2, <1>15 DEF FillPlain, AtRow
<1>16. CASE Rebuild(p)
  <2>1. /\ posted' = [i \in Ids |-> [u \in Indexable |-> Posting(rows, i, u)]]
        /\ rows' = rows /\ job'[p] = Idle
    BY <1>16, OnePosting DEF Rebuild, TypeOK
  <2>2. \A i \in Ids, u \in Indexable : posted'[i][u] <= Posting(rows, i, u)
    BY <1>1, <2>1
  <2>3. AtRow(p)'
    BY <2>1, IdleTyped DEF AtRow, OwedBy
  <2>4. QED BY <1>1, <1>2, <2>1, <2>2, <2>3 DEF Alone, HoldsNoMore, ScrubbedIsMasked, Posting
<1>17. CASE Crash(p)
  BY <1>4, <1>17 DEF Crash, TypeOK
<1>18. QED
  BY <1>5, <1>7, <1>8, <1>9, <1>10, <1>11, <1>12, <1>13, <1>14, <1>15, <1>16, <1>17 DEF Upkeep

\* Nothing is stored yet: whoever is first finds the index empty.
LEMMA AloneInit == Init => \A p \in Procs : Alone(p)
BY IdleTyped DEF Init, Alone, HoldsNoMore, AtRow, OwedBy, Posting, ScrubbedIsMasked

\* What the process knows is enough: a scrubbed entry holds nothing that is
\* masked, and the index nothing the entry does not hold.
LEMMA AloneScrubbed == ASSUME TypeOK, NEW p \in Procs, Alone(p) PROVE Scrubbed
<1> SUFFICES ASSUME NEW r \in rows, r.scrubbed
             PROVE  /\ Redacted[r.raw] = r.raw
                    /\ \A t \in Texts : Redacted[t] # t => r.plain # t /\ posted[r.id][t] <= 0
  BY DEF Scrubbed
<1>1. Redacted[r.raw] = r.raw /\ r.plain = r.raw
  BY DEF Alone, ScrubbedIsMasked, HoldsNoMore
<1>2. ASSUME NEW t \in Texts, Redacted[t] # t PROVE r.plain # t /\ posted[r.id][t] <= 0
  <2>1. r.id \in Ids /\ t \in Indexable /\ posted[r.id][t] \in Int /\ r.plain # Null
    BY <1>1, IndexAssumption DEF IndexAssumption, TypeOK, Row, Indexable
  <2>2. Posting(rows, r.id, t) = 0
    BY <1>1, <1>2, <2>1 DEF Posting, Plain, TypeOK
  <2>3. QED BY <1>1, <1>2, <2>1, <2>2 DEF Alone, HoldsNoMore
<1>3. QED BY <1>1, <1>2

\* When one process at a time has the database open and no old binary wrote to
\* it, nothing that redact masked is left in the entry or in the index, whichever
\* of the statements before it -- its own earlier ones included -- were cut short
\* by a crash (cmdRedact, UpdateOutput).
THEOREM ScrubbedHolds ==
  (\E p \in Procs : Procs = {p}) /\ ~OldBinary => (Spec => []Scrubbed)
<1> SUFFICES ASSUME NEW p \in Procs, Procs = {p}, ~OldBinary PROVE Spec => []Scrubbed
  OBVIOUS
<1>1. TypeOK /\ Alone(p) /\ [Next]_vars => Alone(p)'
  <2> SUFFICES ASSUME TypeOK, Alone(p), [Next]_vars PROVE Alone(p)'
    OBVIOUS
  <2>1. CASE UNCHANGED vars
    BY <2>1 DEF vars, Alone, HoldsNoMore, AtRow, OwedBy, UpTo, Posting, ScrubbedIsMasked
  <2>2. CASE Add(p) \/ Upkeep(p) \/ Crash(p)
    BY <2>2, AloneAdd, AloneUpkeep DEF OldInsert
  <2>3. QED BY <2>1, <2>2 DEF Next
<1>2. TypeOK /\ Alone(p) => Scrubbed
  BY AloneScrubbed
<1>3. Init => Alone(p)
  BY AloneInit
<1>4. QED BY <1>1, <1>2, <1>3, TypeHolds, PTL DEF Spec

\* The same of the run's scenarios, where the other processes have the database
\* open and stay idle.
THEOREM ScrubbedAloneHolds == SpecScenarios => []ScrubbedAlone
<1> DEFINE One == /\ TypeOK
                  /\ scenario \in Procs \cup {Crowd}
                  /\ \A p \in Procs : scenario = p /\ p # Crowd => Alone(p)
<1>1. InitScenarios => One
  BY TypeInit, AloneInit DEF InitScenarios
<1>2. One /\ [NextScenarios]_<<vars, scenario>> => One'
  <2> SUFFICES ASSUME One, [NextScenarios]_<<vars, scenario>> PROVE One'
    OBVIOUS
  <2>1. CASE UNCHANGED <<vars, scenario>>
    BY <2>1 DEF vars, TypeOK, Alone, HoldsNoMore, AtRow, OwedBy, UpTo, Posting, ScrubbedIsMasked
  <2>2. CASE NextScenarios
    <3>1. PICK q \in AtWork : Add(q) \/ Upkeep(q) \/ Crash(q)
      BY <2>2 DEF NextScenarios
    <3>2. q \in Procs /\ scenario' = scenario /\ TypeOK'
      BY <2>2, <3>1, TypeAdd, TypeUpkeep DEF NextScenarios, AtWork
    <3>3. ASSUME NEW p \in Procs, scenario = p, p # Crowd PROVE Alone(p)'
      <4>1. q = p /\ Alone(p)
        BY <3>1, <3>3 DEF AtWork
      <4>2. \A r \in rows' : r.plain # Null
        BY <2>2, <3>2, <3>3 DEF NextScenarios, Within
      <4>3. ASSUME NEW t \in Texts, NEW at \in Times, OldInsert(p, t, at) PROVE FALSE
        <5>1. PICK id \in Ids :
                rows' = rows \cup {[NewRow(id, t, Null, at) EXCEPT !.plain = Null]}
          BY <4>3 DEF OldInsert
        <5> DEFINE row == [NewRow(id, t, Null, at) EXCEPT !.plain = Null]
        <5>2. row.plain = Null
          BY DEF NewRow
        <5>3. row \in rows'
          BY <5>1
        <5> HIDE DEF row
        <5>4. QED BY <4>2, <5>2, <5>3
      <4>4. QED BY <3>1, <4>1, <4>3, AloneAdd, AloneUpkeep
    <3>4. QED BY <3>2, <3>3
  <2>3. QED BY <2>1, <2>2
<1>3. One => ScrubbedAlone
  BY AloneScrubbed DEF ScrubbedAlone
<1> HIDE DEF One
<1>4. QED BY <1>1, <1>2, <1>3, PTL DEF SpecScenarios
=============================================================================
