------------------------------ MODULE EchoLine ------------------------------
(***************************************************************************)
(* The command line read back from its echo (internal/record/echoline.go). *)
(* ReconstructEcho replays what the shell echoed between the marks B and C *)
(* on a small grid of cells that starts at the prompt, and extracts the    *)
(* input from it.  The other side, a line editor that redraws, wraps at    *)
(* the margin, opens completion menus and draws a right prompt, is the     *)
(* environment; it writes relative to a screen of the same width.          *)
(* An escape sequence is one token: its bytes are cut by the automaton     *)
(* modelled in Feed.                                                       *)
(***************************************************************************)
EXTENDS Integers, Sequences, SequencesExt

CONSTANTS
  Width,      \* columns of the terminal
  MaxRows,    \* echoMaxRows, 512 in the code
  Words,      \* what a key or a paste inserts: a set of sequences
  MaxChars,   \* bound: characters of one command
  MaxLines,   \* bound: lines of one command (continuations)
  RightPrompt,\* characters of the right prompt, drawn by a cursor jump
  Clearance,  \* columns between text and right prompt below which it is hidden
  EraseWith,  \* what the editor erases leftovers with: a subset of {"J", "K"}
  Tricks      \* rarer sequences: subset of {"clear", "insert line", "absolute"}

\* A terminal has at least one cell; text is a sequence of characters.
ASSUME EchoAssumption ==
  /\ Width \in Nat \ {0} /\ MaxRows \in Nat \ {0}
  /\ Words \subseteq Seq(STRING) /\ RightPrompt \in Seq(STRING)
  /\ EraseWith \subseteq {"J", "K"}

VARIABLES screen, done, line, point, menu, right, stage
vars == <<screen, done, line, point, menu, right, stage>>

Nul == "nul"
Cell == [f : {"unset", "prompt", "input"}, ch : STRING]
Unset == [f |-> "unset", ch |-> Nul]
Columns == 0 .. Width - 1
EmptyRow == [cells |-> [i \in Columns |-> Unset], wrap |-> FALSE]
Fresh == [rows |-> <<>>, r |-> 0, c |-> 0, saved |-> <<0, 0>>,
          phase |-> "input", alt |-> FALSE, bad |-> FALSE,
          tail |-> "other", lf |-> FALSE, abort |-> FALSE, panic |-> FALSE]

Least(a, b) == IF a < b THEN a ELSE b
Largest(a, b) == IF a < b THEN b ELSE a

-----------------------------------------------------------------------------
(* The grid. *)

\* The cursor's row exists after this; a grid that grew past its cap is bad.
Row(s) ==
  LET want == Least(s.r + 1, MaxRows)
      more == Largest(0, want - Len(s.rows))
  IN [s EXCEPT !.rows = @ \o [i \in 1 .. more |-> EmptyRow],
               !.r = Least(@, MaxRows - 1),
               !.bad = @ \/ s.r >= MaxRows]

\* Of the last two input characters only this matters: are they ^C?
Tail2(tail, ch) ==
  CASE ch = "^" -> "^" [] ch = "C" /\ tail = "^" -> "^C" [] OTHER -> "other"

\* Mutant: it wraps one column too late.
PutLate(s, ch) ==
  IF s.alt THEN s ELSE
  LET next == Row([s EXCEPT !.r = @ + 1, !.c = 0])
      w == IF s.c > Width THEN [next EXCEPT !.rows[next.r + 1].wrap = TRUE]
           ELSE Row(s)
      typed == s.phase = "input"
  IN [w EXCEPT !.rows[w.r + 1].cells[w.c] = [f |-> s.phase, ch |-> ch],
               !.c = @ + 1,
               !.tail = IF typed THEN Tail2(@, ch) ELSE @,
               !.lf = @ /\ ~typed]

Put(s, ch) ==
  IF s.alt THEN s ELSE
  LET next == Row([s EXCEPT !.r = @ + 1, !.c = 0])
      w == IF s.c >= Width THEN [next EXCEPT !.rows[next.r + 1].wrap = TRUE]
           ELSE Row(s)
      typed == s.phase = "input"
  IN [w EXCEPT !.rows[w.r + 1].cells[w.c] = [f |-> s.phase, ch |-> ch],
               !.c = @ + 1,
               !.tail = IF typed THEN Tail2(@, ch) ELSE @,
               !.lf = @ /\ ~typed]

Down(s, n) == Row([s EXCEPT !.r = @ + n])

CarriageReturn(s) == IF s.alt THEN s ELSE [s EXCEPT !.c = 0]
LineFeed(s) == IF s.alt THEN s ELSE [Down(s, 1) EXCEPT !.lf = TRUE]
Backspace(s) ==
  IF s.alt \/ s.c = 0 THEN s ELSE [s EXCEPT !.c = Least(@ - 1, Width - 1)]

\* To the next multiple of eight, no further than the last column.
Tab(s) == IF s.alt THEN s ELSE [s EXCEPT !.c = Least((@ \div 8 + 1) * 8, Width - 1)]
ReverseIndex(s) == IF s.alt THEN s ELSE [s EXCEPT !.r = Largest(0, @ - 1)]
Index(s) == IF s.alt THEN s ELSE Down(s, 1)

\* Cells from .. to - 1 of a row become never-written.
Clear(row, from, to) ==
  [row EXCEPT !.cells = [i \in Columns |->
     IF from <= i /\ i < to THEN Unset ELSE @[i]]]

ClearHere(s, from, to) ==
  LET t == Row(s) IN [t EXCEPT !.rows[t.r + 1] = Clear(@, from, to)]

EraseInLine(s, k) ==
  CASE k = 0 -> ClearHere(s, s.c, Width)
    [] k = 1 -> ClearHere(s, 0, s.c + 1)
    [] k = 2 -> ClearHere(s, 0, Width)
    [] OTHER -> Row(s)

\* Mutant: the rows below the cursor stay.
EraseInDisplayKeepingRows(s, k) ==
  CASE k = 0 -> ClearHere(s, s.c, Width)
    [] k = 1 -> LET t == ClearHere(s, 0, s.c + 1)
                IN [t EXCEPT !.rows = [i \in DOMAIN @ |->
                     IF i <= t.r THEN Clear(@[i], 0, Width) ELSE @[i]]]
    [] OTHER -> [s EXCEPT !.rows = <<>>]

EraseInDisplay(s, k) ==
  CASE k = 0 -> LET t == ClearHere(s, s.c, Width)
                IN [t EXCEPT !.rows = SubSeq(@, 1, Least(t.r + 1, Len(@)))]
    [] k = 1 -> LET t == ClearHere(s, 0, s.c + 1)
                IN [t EXCEPT !.rows = [i \in DOMAIN @ |->
                     IF i <= t.r THEN Clear(@[i], 0, Width) ELSE @[i]]]
    [] OTHER -> [s EXCEPT !.rows = <<>>]

DeleteChars(s, n) ==
  LET t == Row(s)
      by == Least(n, Width - s.c)
  IN IF s.c >= Width THEN t ELSE
     [t EXCEPT !.rows[t.r + 1].cells = [i \in Columns |->
        IF i < s.c THEN @[i] ELSE IF i + by < Width THEN @[i + by] ELSE Unset]]

InsertBlanks(s, n) ==
  LET t == Row(s)
      by == Least(n, Width - s.c)
  IN IF s.c >= Width THEN t ELSE
     [t EXCEPT !.rows[t.r + 1].cells = [i \in Columns |->
        IF i < s.c THEN @[i]
        ELSE IF i < s.c + by THEN [f |-> s.phase, ch |-> " "] ELSE @[i - by]]]

\* The slice expression rows[r+1:] fails when the cursor is below the last
\* row: the goroutine panics, nothing recovers it.
InsertLines(s, n) ==
  LET fits == Least(n, MaxRows - Len(s.rows)) IN
  IF fits <= 0 THEN s
  ELSE IF s.r > Len(s.rows) THEN [s EXCEPT !.panic = TRUE, !.bad = TRUE]
  ELSE [s EXCEPT !.rows = SubSeq(@, 1, s.r) \o [i \in 1 .. fits |-> EmptyRow]
                          \o SubSeq(@, s.r + 1, Len(@))]

DeleteLines(s, n) ==
  [s EXCEPT !.rows = SubSeq(@, 1, Least(s.r, Len(@))) \o SubSeq(@, s.r + n + 1, Len(@))]

-----------------------------------------------------------------------------
(* Tokens, and what each does to the grid. *)

Char(ch) == [op |-> "put", ch |-> ch]
CSI(final, n) == [op |-> "csi", final |-> final, n |-> n]
Op(name) == [op |-> name]
Chars(text) == [i \in DOMAIN text |-> Char(text[i])]

\* csiParams: an absent or zero parameter takes the default.
Param(n, default) == IF n <= 0 THEN default ELSE n

ApplyCSI(s, final, raw) ==
  LET n == Param(raw, 1) IN
  CASE final = "A" -> [s EXCEPT !.r = Largest(0, @ - n)]
    [] final = "B" -> Down(s, n)
    [] final = "C" -> [s EXCEPT !.c = Least(Width, @ + n)]
    [] final = "D" -> [s EXCEPT !.c = Largest(0, @ - n)]
    [] final = "G" -> [s EXCEPT !.c = Least(Width, n - 1)]
    [] final = "K" -> EraseInLine(s, Param(raw, 0))
    [] final = "J" -> EraseInDisplay(s, Param(raw, 0))
    [] final = "P" -> DeleteChars(s, n)
    [] final = "@" -> InsertBlanks(s, n)
    [] final = "X" -> ClearHere(s, s.c, Least(s.c + n, Width))
    [] final = "L" -> InsertLines(s, n)
    [] final = "M" -> DeleteLines(s, n)
    [] final \in {"H", "f", "d", "r", "S", "T"} -> [s EXCEPT !.bad = TRUE]
    [] OTHER -> s

\* feed() for one token; it returns at the first bad one.
Apply(s, t) ==
  IF s.bad THEN s ELSE
  CASE t.op = "put" -> Put(s, t.ch)
    [] t.op = "cr" -> CarriageReturn(s)
    [] t.op = "lf" -> LineFeed(s)
    [] t.op = "bs" -> Backspace(s)
    [] t.op = "tab" -> Tab(s)
    [] t.op = "reverse index" -> ReverseIndex(s)
    [] t.op = "index" -> Index(s)
    [] t.op = "next line" -> CarriageReturn(Index(s))
    [] t.op = "csi" -> IF s.alt THEN s ELSE ApplyCSI(s, t.final, t.n)
    [] t.op = "save" -> [s EXCEPT !.saved = <<s.r, s.c>>]
    [] t.op = "restore" -> [s EXCEPT !.r = s.saved[1], !.c = s.saved[2]]
    [] t.op = "alt on" -> [s EXCEPT !.alt = TRUE]
    [] t.op = "alt off" -> [s EXCEPT !.alt = FALSE]
    [] t.op = "paste off" ->
         [s EXCEPT !.abort = @ \/ (s.tail = "^C" /\ ~s.lf)]
    [] t.op = "phase P" -> [s EXCEPT !.phase = "prompt"]
    [] t.op = "phase B" -> [s EXCEPT !.phase = "input"]

Feed(s, tokens) ==
  LET after[i \in 0 .. Len(tokens)] ==
        IF i = 0 THEN s ELSE Apply(after[i - 1], tokens[i])
  IN after[Len(tokens)]

-----------------------------------------------------------------------------
(* What is extracted at the C mark. *)

InputCells(cells) == {i \in DOMAIN cells : cells[i].f = "input"}
MaxOf(S) == CHOOSE x \in S : \A y \in S : y <= x
MinOf(S) == CHOOSE x \in S : \A y \in S : x <= y

\* A segment at the right edge behind a gap of three never-written cells is a
\* decoration drawn by a cursor jump: it goes.
TrimDecoration(row) ==
  LET cells == row.cells
      input == InputCells(cells)
      last == MaxOf(input)
      unsetBefore == {i \in 0 .. last : cells[i].f = "unset"}
      gapEnd == IF unsetBefore = {} THEN 0 ELSE MaxOf(unsetBefore) + 1
      written == {i \in 0 .. gapEnd - 1 : cells[i].f # "unset"}
      gapStart == IF written = {} THEN 0 ELSE MaxOf(written) + 1
  IN IF \/ input = {} \/ last < Width - 2
        \/ gapStart = 0 \/ gapEnd - gapStart < 3
     THEN row ELSE Clear(row, gapEnd, last + 1)

RowCells(row) == [i \in 1 .. Width |-> row.cells[i - 1]]

\* Rows joined into logical lines: a row that the next one continues is
\* taken whole, the last of a line up to its last input cell.
Logical(rows) ==
  LET Wrapped(i) == i < Len(rows) /\ rows[i + 1].wrap
      starts == {i \in DOMAIN rows : i = 1 \/ ~Wrapped(i - 1)}
      End(i) == MinOf({j \in i .. Len(rows) : ~Wrapped(j)})
      Upto(i) == FlattenSeq([k \in 1 .. End(i) - i + 1 |-> RowCells(rows[i + k - 1])])
  IN [k \in 1 .. Len(SetToSortSeq(starts, <)) |-> Upto(SetToSortSeq(starts, <)[k])]

\* From the first to the last input cell, what is not input as a blank.
LineText(cells) ==
  LET input == InputCells(cells) IN
  IF input = {} THEN <<>> ELSE
  [k \in 1 .. MaxOf(input) - MinOf(input) + 1 |->
     LET cell == cells[MinOf(input) + k - 1]
     IN IF cell.f = "input" THEN cell.ch ELSE " "]

Blank(text) == \A i \in DOMAIN text : text[i] = " "
RightTrim(text) ==
  LET solid == {i \in DOMAIN text : text[i] # " "}
  IN IF solid = {} THEN <<>> ELSE SubSeq(text, 1, MaxOf(solid))

\* Blank lines at both ends go, and blanks at the end of the text.
Trimmed(lines) ==
  LET solid == {i \in DOMAIN lines : ~Blank(lines[i])} IN
  IF solid = {} THEN <<>> ELSE
  LET kept == SubSeq(lines, MinOf(solid), MaxOf(solid))
  IN [kept EXCEPT ![Len(kept)] = RightTrim(@)]

Extract(s) ==
  LET rows == [i \in DOMAIN s.rows |-> TrimDecoration(s.rows[i])]
      logical == Logical(rows)
  IN Trimmed([k \in DOMAIN logical |-> LineText(logical[k])])

\* Mutant: bracketed paste that ends after ^C says nothing.
ReconstructEchoTailOnly(s) ==
  IF s.bad \/ (s.tail = "^C" /\ ~s.lf) THEN <<>> ELSE Extract(s)

\* "" (here no lines) when the line was killed or could not be followed.
ReconstructEcho(s) ==
  IF s.bad \/ s.abort \/ (s.tail = "^C" /\ ~s.lf) THEN <<>> ELSE Extract(s)

-----------------------------------------------------------------------------
(* The line editor: where each position is on its screen, and what it      *)
(* writes to get there.  The prompt takes one column.                      *)

At(p) == 1 + p
RowOf(o) == o \div Width
ColOf(o) == o % Width

\* Cursor from offset a to offset b.
Move(a, b) ==
  LET vertical == IF RowOf(b) < RowOf(a) THEN <<CSI("A", RowOf(a) - RowOf(b))>>
                  ELSE IF RowOf(b) > RowOf(a) THEN <<CSI("B", RowOf(b) - RowOf(a))>>
                  ELSE <<>>
  IN IF a = b THEN <<>>
     ELSE IF RowOf(a) = RowOf(b) /\ b < a THEN [i \in 1 .. a - b |-> Op("bs")]
     ELSE vertical \o <<CSI("G", ColOf(b) + 1)>>

\* Text from offset o on; text that ends on the margin is followed by a blank
\* and a carriage return, which bring the cursor to the next row.
PrintAt(o, text) ==
  Chars(text) \o (IF text # <<>> /\ ColOf(o + Len(text)) = 0
                  THEN <<Char(" "), Op("cr")>> ELSE <<>>)

From(text, p) == SubSeq(text, p + 1, Len(text))

\* What the line reached to is wiped from offset o on: in one go, or row by
\* row (as readline does), the cursor back at o.
Wipe(mode, o, old) ==
  IF mode = "J" \/ RowOf(old) = RowOf(o) THEN <<CSI(mode, 0)>>
  ELSE <<CSI("K", 0)>>
       \o FlattenSeq([i \in 1 .. RowOf(old) - RowOf(o) |->
                        <<CSI("B", 1), CSI("G", 1), CSI("K", 0)>>])
       \o <<CSI("A", RowOf(old) - RowOf(o)), CSI("G", ColOf(o) + 1)>>

\* The line becomes new, its first p characters unchanged; the cursor, which
\* is at offset o, ends up at position q.
Redraw(o, p, new, q, mode) ==
  Move(o, At(p)) \o PrintAt(At(p), From(new, p))
  \o (IF Len(new) < Len(line) THEN Wipe(mode, At(Len(new)), At(Len(line))) ELSE <<>>)
  \o Move(At(Len(new)), At(q))

\* A right prompt that the text comes close to is wiped before it.
Fits(text) == At(Len(text)) + Clearance + Len(RightPrompt) <= Width
HideRight(text) ==
  IF right /\ ~Fits(text)
  THEN Move(At(point), Width - Len(RightPrompt)) \o <<CSI("K", 0)>>
       \o <<CSI("G", ColOf(At(point)) + 1)>>
  ELSE <<>>

PromptTokens == <<Op("phase P"), Char("$"), Op("phase B")>>
RightTokens ==
  IF RightPrompt = <<>> THEN <<>>
  ELSE <<CSI("G", Width - Len(RightPrompt) + 1)>> \o Chars(RightPrompt)
       \o <<Op("cr"), CSI("C", 1)>>

Init ==
  /\ screen = Feed(Fresh, PromptTokens \o RightTokens)
  /\ done = <<>> /\ line = <<>> /\ point = 0
  /\ menu = FALSE /\ right = (RightPrompt # <<>>)
  /\ stage = "edit"

\* Once the replay has given up nothing more is read.
Editing == stage = "edit" /\ ~screen.bad
Typed(new) == Len(FlattenSeq(done)) + Len(new)

\* One editing command: the menu is wiped first, then the line redrawn.
Edit(p, new, q) ==
  /\ Editing /\ Typed(new) <= MaxChars
  /\ \E mode \in EraseWith :
       screen' = Feed(screen,
         (IF menu THEN <<CSI("J", 0)>> ELSE <<>>)
         \o HideRight(new) \o Redraw(At(point), p, new, q, mode))
  /\ line' = new /\ point' = q /\ menu' = FALSE
  /\ right' = (right /\ Fits(new))
  /\ UNCHANGED <<done, stage>>

Insert == \E w \in Words :
  Edit(point, SubSeq(line, 1, point) \o w \o From(line, point), point + Len(w))

\* Insertion on one row by ICH instead of a redraw.
InsertShift == \E w \in Words :
  LET new == SubSeq(line, 1, point) \o w \o From(line, point) IN
  /\ Editing /\ ~menu /\ ~right /\ At(Len(new)) < Width /\ Typed(new) <= MaxChars
  /\ screen' = Feed(screen, <<CSI("@", Len(w))>> \o Chars(w))
  /\ line' = new /\ point' = point + Len(w)
  /\ UNCHANGED <<done, menu, right, stage>>

Rubout == point > 0 /\
  Edit(point - 1, SubSeq(line, 1, point - 1) \o From(line, point), point - 1)

\* Deletion on one row by DCH.
DeleteShift ==
  /\ Editing /\ ~menu /\ ~right /\ point < Len(line) /\ At(Len(line)) < Width
  /\ screen' = Feed(screen, <<CSI("P", 1)>>)
  /\ line' = SubSeq(line, 1, point) \o From(line, point + 1)
  /\ UNCHANGED <<done, point, menu, right, stage>>

Cursor == \E q \in {0, point - 1, point + 1, Len(line)} \cap 0 .. Len(line) :
  Edit(Len(line), line, q)

KillToEnd == Edit(point, SubSeq(line, 1, point), point)

\* History search: another line in place of this one.
Replace == \E w \in Words : Edit(0, w, Len(w))

\* A completion menu under the line, the cursor back where it was.
OpenMenu ==
  /\ Editing /\ point = Len(line) /\ ~menu
  /\ screen' = Feed(screen,
       <<Op("cr"), Op("lf")>> \o Chars(<<"m", "m">>) \o
       <<CSI("A", 1), CSI("G", ColOf(At(point)) + 1)>>)
  /\ menu' = TRUE
  /\ UNCHANGED <<done, line, point, right, stage>>

\* A full-screen picker in the alternate screen, then its choice.
Picker ==
  /\ Editing /\ ~menu
  /\ screen' = Feed(screen, <<Op("alt on"), CSI("H", 0), Char("m"), Op("lf"), Op("alt off")>>)
  /\ UNCHANGED <<done, line, point, menu, right, stage>>

\* A marked primary prompt printed again: the parser starts the region anew.
Repaint ==
  /\ Editing /\ done = <<>>
  /\ screen' = Feed(Fresh, PromptTokens \o (IF right THEN RightTokens ELSE <<>>)
                           \o PrintAt(At(0), line) \o Move(At(Len(line)), At(point)))
  /\ menu' = FALSE
  /\ UNCHANGED <<done, line, point, right, stage>>

ToEnd == (IF menu THEN <<CSI("J", 0)>> ELSE <<>>) \o Move(At(point), At(Len(line)))

\* Enter on an incomplete command: a marked secondary prompt follows.
Continue ==
  /\ Editing /\ ~Blank(line) /\ Len(done) + 1 < MaxLines
  /\ screen' = Feed(screen, ToEnd \o <<Op("cr"), Op("lf")>> \o PromptTokens)
  /\ done' = Append(done, line) /\ line' = <<>> /\ point' = 0
  /\ menu' = FALSE /\ right' = FALSE
  /\ UNCHANGED stage

\* Enter: the newline, then bracketed paste off.
Accept ==
  /\ stage = "edit"
  /\ screen' = Feed(screen, ToEnd \o <<Op("cr"), Op("lf"), Op("paste off"), Op("cr")>>)
  /\ done' = Append(done, line) /\ stage' = "accepted" /\ menu' = FALSE
  /\ UNCHANGED <<line, point, right>>

\* Ctrl-C: a bare ^C, paste off, and perhaps the next prompt cycle's noise.
Kill ==
  /\ Editing
  /\ \E noise \in {<<>>, <<Op("cr"), Op("lf")>>} :
       screen' = Feed(screen, Chars(<<"^", "C">>) \o <<Op("paste off")>> \o noise)
  /\ stage' = "killed"
  /\ UNCHANGED <<done, line, point, menu, right>>

\* Sequences a program behind a key binding may send to the terminal.
Trick ==
  /\ Editing
  /\ \/ "clear" \in Tricks /\ screen' = Feed(screen, <<CSI("J", 2)>>)
     \/ "insert line" \in Tricks /\ screen' = Feed(screen, <<CSI("L", 1)>>)
     \/ "absolute" \in Tricks /\ screen' = Feed(screen, <<CSI("H", 0)>>)
  /\ UNCHANGED <<done, line, point, menu, right, stage>>

Next ==
  \/ Insert \/ InsertShift \/ Rubout \/ DeleteShift \/ Cursor \/ KillToEnd \/ Replace
  \/ OpenMenu \/ Picker \/ Repaint \/ Continue \/ Accept \/ Kill \/ Trick

Spec == Init /\ [][Next]_vars

-----------------------------------------------------------------------------
Tidy(lines) == Trimmed([i \in DOMAIN lines |-> RightTrim(lines[i])])

\* The grid: never more rows than its cap, the cursor never past the margin.
GridOK ==
  /\ Len(screen.rows) <= MaxRows
  /\ screen.r \in 0 .. MaxRows - 1 /\ screen.c \in 0 .. Width
  /\ \A i \in DOMAIN screen.rows : DOMAIN screen.rows[i].cells = Columns

\* What is read back from the echo of an accepted line is that line, however
\* it was edited (blanks at the ends of lines apart); when the stream could
\* not be followed, nothing.
LineReadBack ==
  stage = "accepted" =>
    Tidy(ReconstructEcho(screen)) = (IF screen.bad THEN <<>> ELSE Tidy(done))

\* A line killed with Ctrl-C is never read back as a command.
KilledNotRead == stage = "killed" => ReconstructEcho(screen) = <<>>

\* Replaying an echo does not panic (the recorder, and the shell under it,
\* would end with it): at worst it gives up.
GivesUpQuietly == ~screen.panic
=============================================================================
