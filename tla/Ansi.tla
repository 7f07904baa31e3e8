-------------------------------- MODULE Ansi --------------------------------
(***************************************************************************)
(* What is left of a recorded output: as text (ansi.Strip, which the index,*)
(* grep, diff and redaction read) and as a page (ansihtml.Render). Both    *)
(* walk the same bytes; a byte is a token.                                 *)
(***************************************************************************)
EXTENDS Integers, Sequences, SequencesExt

ESC == "ESC"  BEL == "BEL"  CR == "CR"  LF == "LF"  TAB == "TAB"  BS == "BS"  NUL == "NUL"

Bytes == {"x", "<", "1", "m", "[", "]", "P", "\\", "(", ESC, BEL, CR, LF, TAB, BS, NUL}
Finals == {"x", "m", "[", "]", "P", "\\"}  \* 0x40-0x7e
Controls == {BEL, NUL}

-----------------------------------------------------------------------------
\* The position after the escape sequence whose ESC is at i (1-based); past
\* the end when it is not closed. Past: the first of the positions that end it.
Past(b, ends) == Min(ends \cup {Len(b) + 1})

FinalsIn(b, from) == {k \in from..Len(b) : b[k] \in Finals}

IsST(b, i) == b[i] = ESC /\ i < Len(b) /\ b[i + 1] = "\\"
AfterST(b, i) == IF i > Len(b) THEN i ELSE IF b[i] = BEL THEN i + 1 ELSE i + 2

AfterCSI(b, i) == Past(b, FinalsIn(b, i)) + 1
AfterOSC(b, i) == AfterST(b, Past(b, {k \in i..Len(b) : b[k] = BEL \/ IsST(b, k)}))
AfterDCS(b, i) == AfterST(b, Past(b, {k \in i..Len(b) : IsST(b, k)}))

Escaped(b, i) ==
  IF i + 1 > Len(b) THEN i + 1
  ELSE CASE b[i + 1] = "[" -> AfterCSI(b, i + 2)
         [] b[i + 1] = "]" -> AfterOSC(b, i + 2)
         [] b[i + 1] = "P" -> AfterDCS(b, i + 2)
         [] b[i + 1] = "(" -> i + 3
         [] OTHER -> i + 2

IsCRLF(b, i) == i < Len(b) /\ b[i + 1] = LF

-----------------------------------------------------------------------------
\* Mutant: a carriage return before a newline wipes the line too.
CarriageReturnAlways(b, i, out, start) == SubSeq(out, 1, start)

\* A return takes the line back, unless a newline follows.
CarriageReturn(b, i, out, start) == IF IsCRLF(b, i) THEN out ELSE SubSeq(out, 1, start)

\* Strip, one iteration: the position, out, and where its last line starts.
StripStep(b, s) ==
  LET c == b[s.i]
      Next(out) == [i |-> s.i + 1, out |-> out, start |-> s.start]
  IN  CASE c = ESC -> [s EXCEPT !.i = Escaped(b, s.i)]
        [] c = CR  -> Next(CarriageReturn(b, s.i, s.out, s.start))
        [] c = LF  -> [i |-> s.i + 1, out |-> Append(s.out, LF), start |-> Len(s.out) + 1]
        [] c = TAB -> Next(Append(s.out, " "))
        [] c = BS  -> Next(IF Len(s.out) > s.start THEN Front(s.out) ELSE s.out)
        [] c \in Controls -> Next(s.out)
        [] OTHER -> Next(Append(s.out, c))

\* Each iteration takes a byte at least.
Strip(b) ==
  LET At[n \in 0..Len(b)] ==
        IF n = 0 THEN [i |-> 1, out |-> <<>>, start |-> 0]
        ELSE LET s == At[n - 1] IN IF s.i > Len(b) THEN s ELSE StripStep(b, s)
  IN  At[Len(b)].out

-----------------------------------------------------------------------------
\* Render. A line is a sequence of segments, [st, txt]; the style is bold or
\* plain, of all that SGR can set.
Plain == "plain"
ApplySGR(st, params) ==
  IF params = <<>> THEN Plain
  ELSE IF params = <<"1">> THEN "bold" ELSE st

StyleAfter(b, i, st) ==  \* what the sequence at i does to the style
  IF i < Len(b) /\ b[i + 1] = "["
    THEN LET end == Past(b, FinalsIn(b, i + 2))
         IN  IF end <= Len(b) /\ b[end] = "m" THEN ApplySGR(st, SubSeq(b, i + 2, end - 1)) ELSE st
    ELSE st

Put(line, st, c) ==
  IF line # <<>> /\ Last(line).st = st
    THEN [line EXCEPT ![Len(line)].txt = Append(@, c)]
    ELSE Append(line, [st |-> st, txt |-> <<c>>])

Backspace(line) ==
  IF line = <<>> THEN line
  ELSE IF Len(Last(line).txt) = 1 THEN Front(line)
  ELSE [line EXCEPT ![Len(line)].txt = Front(@)]

\* escapeTo; of &, < and > one stands for all.
Escape(c) == IF c = "<" THEN "&lt;" ELSE c
WriteSeg(seg) ==
  LET txt == [i \in DOMAIN seg.txt |-> Escape(seg.txt[i])]
  IN  IF seg.st = Plain \/ txt = <<>> THEN txt ELSE <<"<span>">> \o txt \o <<"</span>">>
Flush(line) == FlattenSeq([k \in DOMAIN line |-> WriteSeg(line[k])])

\* Render, one iteration: the position, out, the line being written, the style.
RenderStep(b, r) ==
  LET c == b[r.i]
      Next(line) == [i |-> r.i + 1, out |-> r.out, line |-> line, st |-> r.st]
  IN  CASE c = ESC -> [r EXCEPT !.i = Escaped(b, r.i), !.st = StyleAfter(b, r.i, r.st)]
        [] c = CR  -> Next(IF IsCRLF(b, r.i) THEN r.line ELSE <<>>)
        [] c = LF  -> [i |-> r.i + 1, out |-> r.out \o Flush(r.line) \o <<LF>>, line |-> <<>>, st |-> r.st]
        [] c = BS  -> Next(Backspace(r.line))
        [] c \in Controls -> Next(r.line)
        [] OTHER -> Next(Put(r.line, r.st, c))

Render(b) ==
  LET At[n \in 0..Len(b)] ==
        IF n = 0 THEN [i |-> 1, out |-> <<>>, line |-> <<>>, st |-> Plain]
        ELSE LET s == At[n - 1] IN IF s.i > Len(b) THEN s ELSE RenderStep(b, s)
      end == At[Len(b)]
  IN  end.out \o Flush(end.line)

-----------------------------------------------------------------------------
\* What a reader sees of a page: tags are gone, entities are characters.
Shown(c) ==
  CASE c \in {"<span>", "</span>"} -> <<>>
    [] c = "&lt;" -> <<"<">>
    [] c = TAB -> <<" ">>
    [] OTHER -> <<c>>
Seen(html) == FlattenSeq([k \in DOMAIN html |-> Shown(html[k])])

\* "carriage-return overwrites are resolved per line the same way ansi.Strip
\* does" (ansihtml.go:5): the page shows the text the index and redaction read,
\* for every output, cut short or overwritten in whatever way.
SameText(b) == Seen(Render(b)) = Strip(b)

\* "The result contains only text, <span> and newlines" (ansihtml.go:33): every
\* span is closed on the line it was opened on, none lies in another, and no
\* character of the output is taken for a tag.
DepthAfter(d, c) ==
  CASE c = "<span>"  -> IF d = 0 THEN 1 ELSE 9
    [] c = "</span>" -> IF d = 1 THEN 0 ELSE 9
    [] c \in {LF, "<"} -> IF d = 0 /\ c = LF THEN 0 ELSE 9
    [] OTHER -> d
WellFormed(b) ==
  LET html == Render(b)
      Depth[n \in 0..Len(html)] == IF n = 0 THEN 0 ELSE DepthAfter(Depth[n - 1], html[n])
  IN  Depth[Len(html)] = 0
=============================================================================
