-------------------------------- MODULE Grep --------------------------------
(***************************************************************************)
(* Cutting an output down to what is shown of it: the lines around the     *)
(* matches of a search (grep.go, used by search -A/-B/-C, the web UI and   *)
(* the MCP server), and the two ends of a long one (mcp.go, get_output).   *)
(***************************************************************************)
EXTENDS Integers, Sequences, FiniteSets, SequencesExt, FiniteSetsExt

\* An output is a sequence of lines, of which some match the query.
Line == {"match", "other"}
MatchIdx(lines) ==
  FlattenSeq([i \in DOMAIN lines |-> IF lines[i] = "match" THEN <<i>> ELSE <<>>])

\* Mutant: hunks that touch stay apart.
TouchesOverlap(lo, hi) == lo <= hi

Touches(lo, hi) == lo <= hi + 1

\* The span around the match i; one that touches or overlaps the last is merged.
WithSpan(lines, before, after, spans, i) ==
  LET lo == IF i - before < 1 THEN 1 ELSE i - before
      hi == IF i + after > Len(lines) THEN Len(lines) ELSE i + after
  IN  IF spans # <<>> /\ Touches(lo, Last(spans).hi)
        THEN [spans EXCEPT ![Len(spans)].hi = IF hi > @ THEN hi ELSE @]
        ELSE Append(spans, [lo |-> lo, hi |-> hi])

Spans(lines, before, after) ==
  LET idx == MatchIdx(lines)
      S[n \in 0..Len(idx)] ==
        IF n = 0 THEN <<>> ELSE LET spans == S[n - 1] IN WithSpan(lines, before, after, spans, idx[n])
  IN  S[Len(idx)]

\* The matches among some lines: mi counts them as they are passed.
Marked(idx, shown) ==
  LET M[n \in 0..Len(shown)] ==
        IF n = 0 THEN <<>>
        ELSE LET m == M[n - 1]  mi == Len(m) IN
             IF mi < Len(idx) /\ idx[mi + 1] = shown[n] THEN Append(m, shown[n]) ELSE m
  IN  M[Len(shown)]

\* grepContext: the first hunks, the lines of them that are marked as matches,
\* and how many matches there are.
Context(lines, before, after, maxHunks) ==
  LET spans == Spans(lines, before, after)
      hunks == SubSeq(spans, 1, IF Len(spans) < maxHunks THEN Len(spans) ELSE maxHunks)
      idx   == MatchIdx(lines)
      shown == FlattenSeq([k \in DOMAIN hunks |->
                 [m \in 1..hunks[k].hi - hunks[k].lo + 1 |-> hunks[k].lo + m - 1]])
  IN  [hunks |-> hunks, marked |-> Marked(idx, shown), total |-> Len(idx)]

-----------------------------------------------------------------------------
\* "merging hunks that touch or overlap (like grep)" (grep.go:20): between two
\* hunks lies a line that is not shown; in them are just the lines close enough
\* to a match; a line is marked if it matches; and a hunk is left out only for
\* want of room, with all its matches counted.
HunksLikeGrep(lines, before, after, maxHunks) ==
  LET c == Context(lines, before, after, maxHunks)
      close == {j \in DOMAIN lines :
                  \E i \in DOMAIN lines : lines[i] = "match" /\ j \in i - before..i + after}
      shown == UNION {h.lo..h.hi : h \in ToSet(c.hunks)}
      matches == {i \in DOMAIN lines : lines[i] = "match"}
  IN  /\ \A k \in 1..Len(c.hunks) - 1 : c.hunks[k].hi + 1 < c.hunks[k + 1].lo
      /\ shown \subseteq close
      /\ Len(c.hunks) < maxHunks => shown = close
      /\ \A i \in close, j \in shown : i < j => i \in shown
      /\ ToSet(c.marked) = matches \cap shown
      /\ c.total = Cardinality(matches)

-----------------------------------------------------------------------------
\* get_output: bytes are "x" or a newline.
LastNewline(s) == IF \E i \in DOMAIN s : s[i] = "\n" THEN Max({i \in DOMAIN s : s[i] = "\n"}) ELSE 0
FirstNewline(s) == IF \E i \in DOMAIN s : s[i] = "\n" THEN Min({i \in DOMAIN s : s[i] = "\n"}) ELSE 0

\* Mutant: the tail is three fifths, rounded up.
TailOfRest(maxBytes, head) == (maxBytes * 3) \div 5 + 1

TailOf(maxBytes, head) == maxBytes - head

\* The head and the tail, cut at line ends where there are any.
Cut(body, maxBytes) ==
  LET head == (maxBytes * 2) \div 5
      tail == TailOf(maxBytes, head)
      h == SubSeq(body, 1, head)
      t == SubSeq(body, Len(body) - tail + 1, Len(body))
  IN  [head |-> IF LastNewline(h) > 1 THEN LastNewline(h) ELSE head,
       tail |-> IF FirstNewline(t) # 0 /\ FirstNewline(t) < Len(t)
                  THEN Len(t) - FirstNewline(t) ELSE tail,
       omitted |-> Len(body) - head - tail]

\* A body over max_bytes is shown as a beginning and an end that do not meet
\* and together take no more than that, the end never being cut to nothing; the
\* count of omitted bytes is never more than were left out.
CutHonest(body, maxBytes) == Len(body) > maxBytes =>
  LET c == Cut(body, maxBytes) IN
  /\ c.head + c.tail <= maxBytes
  /\ c.tail > 0
  /\ c.omitted > 0 /\ c.omitted <= Len(body) - c.head - c.tail
=============================================================================
