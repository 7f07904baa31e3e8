------------------------------ MODULE HistFile ------------------------------
(***************************************************************************)
(* `backscroll import`: a shell's history file, written and trimmed by the *)
(* shell, read over and over (internal/histimport), each entry stored once *)
(* (hist.go, AddHistory). A file is a sequence of lines, a line a sequence *)
(* of tokens: a character, or a word the format sets off.                  *)
(***************************************************************************)
EXTENDS Integers, Sequences, FiniteSets, SequencesExt

CONSTANTS
  Formats,    \* of "bash", "zsh", "fish", "pwsh", "nu"
  MaxTime,    \* bound: seconds
  MaxEntries, \* bound: entries ever typed
  WithinSecond \* the shell also trims the file between two entries of a second

VARIABLES
  format, timed,  \* whether the shell writes the time of an entry
  now,
  typed,    \* all that was typed: [cmd, at], at = 0 when the shell keeps no time
  kept,     \* which of them the file still holds, in its order
  file,     \* the lines of the file
  stored,   \* the rows of the source: [seq, entry], entry being an index of typed
  fresh     \* no entry has been typed since the last import
vars == <<format, timed, now, typed, kept, file, stored, fresh>>

NL == "\n"
Backtick == "backtick"  \* PowerShell's escape
\* What is typed: one line, two lines that quoting or a backslash joins, a
\* comment, and characters the formats have a use for.
Commands == [
  bash |-> {<<"x">>, <<"x", "'", NL, "x", "'">>, <<"x", "\\", NL, "#", "x">>, <<"#", " ", "x">>},
  zsh  |-> {<<"x">>, <<"x", NL, "x">>, <<"x", "\\", NL, "x">>, <<"x", "e8">>},
  fish |-> {<<"x">>, <<"x", NL, "x">>, <<"x", "\\", "n">>, <<"\\", "\\">>},
  pwsh |-> {<<"x">>, <<"x", NL, "x">>, <<Backtick, "x">>},
  nu   |-> {<<"x">>, <<"x", NL, NL, "x">>} ]
Timed == {"bash", "zsh", "fish"}

Times == <<"1", "2", "3", "4">>
TimeOf(token) == CHOOSE t \in DOMAIN Times : Times[t] = token
Unknown == 0

-----------------------------------------------------------------------------
\* Text.
Lines(s) ==  \* strings.Split at the newlines
  FoldLeft(LAMBDA ls, c : IF c = NL THEN Append(ls, <<>>)
                          ELSE [ls EXCEPT ![Len(ls)] = Append(@, c)], <<<<>>>>, s)
Join(ls) == FoldLeft(LAMBDA s, l : IF s = <<>> THEN l ELSE s \o <<NL>> \o l, <<>>, ls)
EndsWith(line, c) == line # <<>> /\ Last(line) = c
MapSeq(s, Of(_)) == FoldLeft(LAMBDA t, c : t \o Of(c), <<>>, s)

\* What the shells write.
Meta(c) == IF c = "e8" THEN <<"M", "eM">> ELSE <<c>>
FishEscape(c) == CASE c = "\\" -> <<"\\", "\\">> [] c = NL -> <<"\\", "n">> [] OTHER -> <<c>>

Written(cmd, at) ==
  CASE format = "bash" ->
         (IF at = Unknown THEN <<>> ELSE <<<<"#", Times[at]>>>>) \o Lines(cmd)
    [] format = "zsh" ->
         LET text == (IF at = Unknown THEN <<>> ELSE <<": ", Times[at], ":", "0", ";">>)
                       \o MapSeq(cmd, Meta)
         IN  Lines(MapSeq(text, LAMBDA c : IF c = NL THEN <<"\\", NL>> ELSE <<c>>))
    [] format = "fish" ->
         <<<<"- cmd: ">> \o MapSeq(cmd, FishEscape), <<"  when: ", Times[at]>>>>
    [] format = "pwsh" ->
         LET ls == Lines(cmd)
         IN  [i \in DOMAIN ls |-> IF i < Len(ls) THEN Append(ls[i], Backtick) ELSE ls[i]]
    [] OTHER -> <<MapSeq(cmd, LAMBDA c : <<IF c = NL THEN "<\\n>" ELSE c>>)>>

-----------------------------------------------------------------------------
\* The parsers. Each gives the entries, [cmd, at], in the order of the file.
Entry(cmd, at) == [cmd |-> cmd, at |-> at]

\* needsCont: within a quote, or just after a backslash.
NeedsCont(s) ==
  LET st == FoldLeft(LAMBDA q, c :
              CASE q.esc -> [q EXCEPT !.esc = FALSE]
                [] ~q.esc /\ c = "\\" /\ ~q.single -> [q EXCEPT !.esc = TRUE]
                [] ~q.esc /\ c = "'" /\ ~q.double  -> [q EXCEPT !.single = ~@]
                [] ~q.esc /\ c = "\"" /\ ~q.single -> [q EXCEPT !.double = ~@]
                [] OTHER -> q,
              [single |-> FALSE, double |-> FALSE, esc |-> FALSE], s)
  IN  st.single \/ st.double \/ st.esc

IsMarker(line) == Len(line) = 2 /\ line[1] = "#" /\ line[2] \in Range(Times)

\* ParseBash; without ones the state is the entry being read and the time of
\* the last marker.
ParseBash(lines) ==
  LET Flushed(st) == IF st.cur = <<>> THEN st.out ELSE Append(st.out, Entry(Join(st.cur), st.at))
      Step(st, line) ==
        IF IsMarker(line)
          THEN [out |-> Flushed(st), cur |-> <<>>, at |-> st.at, pending |-> TimeOf(line[2])]
        ELSE IF st.cur # <<>> /\ NeedsCont(Join(st.cur))
          THEN [st EXCEPT !.cur = Append(@, line)]
        ELSE IF line = <<>> THEN st
        ELSE [out |-> Flushed(st), cur |-> <<line>>, at |-> st.pending, pending |-> Unknown]
  IN  Flushed(FoldLeft(Step, [out |-> <<>>, cur |-> <<>>, at |-> Unknown, pending |-> Unknown],
                       lines))

Unmetafy(line) ==
  LET U[i \in 1..Len(line) + 1] ==
        IF i > Len(line) THEN <<>>
        ELSE IF line[i] = "M" /\ i < Len(line) THEN <<"e8">> \o U[i + 2]
        ELSE <<line[i]>> \o U[i + 1]
  IN  U[1]

ParseZsh(lines) ==
  LET Timestamp(l) == IF Len(l) > 5 /\ l[1] = ": " /\ l[3] = ":" /\ l[5] = ";"
                        THEN Entry(SubSeq(l, 6, Len(l)), TimeOf(l[2])) ELSE Entry(l, Unknown)
      Step(st, line) ==
        LET l == st.part \o line
        IN  IF EndsWith(l, "\\") THEN [st EXCEPT !.part = Append(Front(l), NL)]
            ELSE [out |-> IF l = <<>> THEN st.out ELSE Append(st.out, Timestamp(Unmetafy(l))),
                  part |-> <<>>]
  IN  FoldLeft(Step, [out |-> <<>>, part |-> <<>>], lines).out

\* Mutant: the escapes are undone one kind after the other.
FishUnescapeInTurn(s) ==
  LET Undo(t, c, by) ==
        LET U[i \in 1..Len(t) + 1] ==
              IF i > Len(t) THEN <<>>
              ELSE IF t[i] = "\\" /\ i < Len(t) /\ t[i + 1] = c THEN <<by>> \o U[i + 2]
              ELSE <<t[i]>> \o U[i + 1]
        IN  U[1]
  IN  Undo(Undo(s, "n", NL), "\\", "\\")

FishUnescape(s) ==
  LET U[i \in 1..Len(s) + 1] ==
        IF i > Len(s) THEN <<>>
        ELSE IF s[i] = "\\" /\ i < Len(s)
          THEN (CASE s[i + 1] = "n" -> <<NL>> [] s[i + 1] = "\\" -> <<"\\">>
                  [] OTHER -> <<"\\", s[i + 1]>>) \o U[i + 2]
        ELSE <<s[i]>> \o U[i + 1]
  IN  U[1]

ParseFish(lines) ==
  LET Step(out, line) ==
        IF Head(line) = "- cmd: " THEN Append(out, Entry(FishUnescape(Tail(line)), Unknown))
        ELSE IF out # <<>> /\ Head(line) = "  when: "
          THEN [out EXCEPT ![Len(out)].at = TimeOf(line[2])]
        ELSE out
  IN  FoldLeft(Step, <<>>, lines)

ParsePwsh(lines) ==
  LET Step(st, line) ==
        IF EndsWith(line, Backtick) THEN [st EXCEPT !.parts = Append(@, Front(line))]
        ELSE [out |-> Append(st.out, Entry(Join(Append(st.parts, line)), Unknown)), parts |-> <<>>]
      end == FoldLeft(Step, [out |-> <<>>, parts |-> <<>>], lines)
  IN  IF end.parts = <<>> THEN end.out ELSE Append(end.out, Entry(Join(end.parts), Unknown))

ParseNuPlain(lines) ==
  [i \in DOMAIN lines |->
     Entry(MapSeq(lines[i], LAMBDA c : <<IF c = "<\\n>" THEN NL ELSE c>>), Unknown)]

Parse(lines) ==
  CASE format = "bash" -> ParseBash(lines) [] format = "zsh" -> ParseZsh(lines)
    [] format = "fish" -> ParseFish(lines) [] format = "pwsh" -> ParsePwsh(lines)
    [] OTHER -> ParseNuPlain(lines)

\* Mutant: the entries are numbered through the file, not within a second.
SeqForPosition(entries, i) == <<entries[i].at, i>>

\* seqFor, or hashSeq when no time is known; no two commands have one hash.
SeqFor(entries, i) ==
  IF entries[i].at = Unknown THEN <<Unknown, entries[i].cmd>>
  ELSE LET k == Cardinality({j \in 1..i - 1 : entries[j].at = entries[i].at})
       IN  <<entries[i].at, IF k > 999 THEN 999 ELSE k>>

-----------------------------------------------------------------------------
Init ==
  /\ format \in Formats /\ timed \in (IF format \in Timed THEN BOOLEAN ELSE {FALSE})
  /\ format = "fish" => timed
  /\ now = 1 /\ typed = <<>> /\ kept = <<>> /\ file = <<>> /\ stored = {} /\ fresh = FALSE

Tick == timed /\ now < MaxTime /\ now' = now + 1
        /\ UNCHANGED <<format, timed, typed, kept, file, stored, fresh>>

\* The shell appends what was typed; one of bash's sessions may not have
\* HISTTIMEFORMAT set.
Type ==
  /\ Len(typed) < MaxEntries
  /\ \E cmd \in Commands[format], at \in {now} \cup (IF format = "bash" THEN {Unknown} ELSE {}) :
       LET t == IF timed THEN at ELSE Unknown IN
       /\ typed' = Append(typed, Entry(cmd, t))
       /\ file' = file \o Written(cmd, t)
  /\ kept' = Append(kept, Len(typed'))
  /\ fresh' = FALSE
  /\ UNCHANGED <<format, timed, now, stored>>

\* The shell drops the oldest entries ($HISTSIZE, savehist), between two
\* seconds that are both over.
Trim ==
  /\ \E n \in 1..Len(kept) :
       /\ ~WithinSecond => \A i \in 1..n : LET t == typed[kept[i]].at IN
            t # Unknown => t < now /\ \A j \in n + 1..Len(kept) : typed[kept[j]].at # t
       /\ kept' = SubSeq(kept, n + 1, Len(kept))
       /\ file' = MapSeq(kept', LAMBDA k : Written(typed[k].cmd, typed[k].at))
  /\ UNCHANGED <<format, timed, now, typed, stored, fresh>>

\* cmdImport and AddHistory: INSERT OR IGNORE on (machine, seq), in one
\* transaction; -n takes the newest entries only.
Import ==
  /\ \E cap \in {0, 1} :
       LET entries == Parse(file)
           n == Len(entries)
           from == IF cap > 0 /\ n > cap THEN n - cap + 1 ELSE 1
           Added[i \in from - 1..n] ==
             IF i = from - 1 THEN stored
             ELSE LET seq == SeqFor(entries, i) IN
                  IF \E r \in Added[i - 1] : r.seq = seq THEN Added[i - 1]
                  ELSE Added[i - 1] \cup {[seq |-> seq, cmd |-> entries[i].cmd, at |-> entries[i].at]}
       IN  /\ stored' = Added[n]
           /\ fresh' = (cap = 0 \/ fresh)
  /\ UNCHANGED <<format, timed, now, typed, kept, file>>

Next == Tick \/ Type \/ Trim \/ Import
Spec == Init /\ [][Next]_vars

-----------------------------------------------------------------------------
\* What the file holds is read back entry by entry, several lines and all,
\* with and without times in one file (histimport.go:145).
ParsedBack == Parse(file) = [i \in DOMAIN kept |-> typed[kept[i]]]

\* "re-running an import only adds new entries" (importcmd.go:36), "even if the
\* file is later trimmed from the front" (histimport.go:42): once the file has
\* been imported each of its timed entries has a row of its own, each untimed
\* command just one, and no row is there twice.
ImportedOnce ==
  LET Times2(cmd, at, S) == Cardinality({k \in S : typed[k] = Entry(cmd, at)})
      Rows(cmd, at) == Cardinality({r \in stored : r.cmd = cmd /\ r.at = at})
  IN  \A k \in DOMAIN typed :
        LET cmd == typed[k].cmd at == typed[k].at
            most == IF at = Unknown THEN 1 ELSE Times2(cmd, at, DOMAIN typed)
            least == IF at = Unknown THEN 1 ELSE Times2(cmd, at, Range(kept))
        IN  /\ Rows(cmd, at) <= most
            /\ fresh /\ k \in Range(kept) => Rows(cmd, at) >= least
=============================================================================
