------------------------------- MODULE Unquote ------------------------------
(***************************************************************************)
(* The command lines other programs tell the recorder, quoted or escaped   *)
(* each in its own way (unquote.go, parser.go), and the one `exec` makes   *)
(* of its arguments (exec.go). The inverse of each is that of the emitter. *)
(* A byte is a token; "SOH" stands for the control characters that have no *)
(* escape of their own.                                                    *)
(***************************************************************************)
EXTENDS Integers, Sequences, SequencesExt

NL == "\n"  SOH == "SOH"  DQ == "\""
Quotable  == {"k", "n", "1", " ", "'", DQ, "\\", "$", NL, SOH}
Escapable == {"x", "3", "b", "2", "5", ";", "\\", "%", NL}

MapSeq(s, Of(_)) == FlattenSeq([k \in DOMAIN s |-> Of(s[k])])

\* A reader walks the bytes with its position, what it has read, and the quotes
\* it is in. An iteration takes n of them, which stand for the bytes dec.
Took(st, n, dec, mode) == [i |-> st.i + n, out |-> st.out \o dec, mode |-> mode]

\* Each iteration takes a byte at least.
ReadBy(Step(_, _), s) ==
  LET At[n \in 0..Len(s)] ==
        IF n = 0 THEN [i |-> 1, out |-> <<>>, mode |-> "bare"]
        ELSE LET st == At[n - 1] IN IF st.i > Len(s) THEN st ELSE Step(s, st)
  IN  At[Len(s)].out

-----------------------------------------------------------------------------
\* shellUnquote; a segment ends where its quote does.
Digits == {"0", "1"}

\* How many digits may follow the backslash at i: up to three.
Octal(s, i) == {n \in 1..Len(s) - i : n <= 3 /\ \A k \in 1..n : s[i + k] \in Digits}

\* ansiCEscape: what the escape at i stands for, and its length. Of the escapes
\* with a letter there is \n; \x, \u and \c are not among the tokens.
AnsiC(s, i) ==
  LET c == s[i + 1] IN
  CASE c \in {"\\", "'", DQ} -> [dec |-> <<c>>, len |-> 2]
    [] c = "n" -> [dec |-> <<NL>>, len |-> 2]
    [] c \in Digits ->
         LET n == CHOOSE n \in Octal(s, i) : \A m \in Octal(s, i) : m <= n
         IN  [dec |-> IF SubSeq(s, i + 1, i + n) = <<"0", "0", "1">> THEN <<SOH>> ELSE <<"?">>,
              len |-> n + 1]
    [] OTHER -> [dec |-> <<"\\", c>>, len |-> 2]

InDouble == {"$", "backtick", DQ, "\\"}

UnquoteStep(s, st) ==
  LET c == s[st.i]
      more == st.i < Len(s)
      next == s[st.i + 1]
      Byte == Took(st, 1, <<c>>, st.mode)
      To(n, mode) == Took(st, n, <<>>, mode)
      esc == AnsiC(s, st.i)
  IN  CASE st.mode = "bare" ->
             (CASE c = "\\" /\ more -> Took(st, 2, <<next>>, "bare")
                [] c = "$" /\ more /\ next = "'" -> To(2, "ansi")
                [] c = "'" -> To(1, "single")
                [] c = DQ  -> To(1, "double")
                [] OTHER -> Byte)
        [] st.mode = "ansi" ->
             (CASE c = "'" -> To(1, "bare")
                [] c = "\\" /\ more -> Took(st, esc.len, esc.dec, "ansi")
                [] OTHER -> Byte)
        [] st.mode = "single" -> (IF c = "'" THEN To(1, "bare") ELSE Byte)
        [] OTHER ->
             (CASE c = DQ -> To(1, "bare")
                [] c = "\\" /\ more /\ next \in InDouble -> Took(st, 2, <<next>>, "double")
                [] OTHER -> Byte)
ShellUnquote(s) == ReadBy(UnquoteStep, s)

\* bash's printf %q: backslashes, or $'...' for the whole of it.
AnsiQuoted(c) ==
  CASE c = NL -> <<"\\", "n">> [] c = SOH -> <<"\\", "0", "0", "1">>
    [] c \in {"\\", "'"} -> <<"\\", c>> [] OTHER -> <<c>>
Special(c) == c \in {" ", ";", "'", DQ, "\\", "$"}
Backslashed(c) == IF Special(c) THEN <<"\\", c>> ELSE <<c>>
BashQ(s) ==
  IF \E i \in DOMAIN s : s[i] \in {NL, SOH}
    THEN <<"$", "'">> \o MapSeq(s, AnsiQuoted) \o <<"'">>
    ELSE MapSeq(s, Backslashed)

\* zsh's %q: backslashes, and a $'...' for each character that needs one.
ZshQuoted(c) ==
  IF c \in {NL, SOH} THEN <<"$", "'">> \o AnsiQuoted(c) \o <<"'">> ELSE Backslashed(c)
ZshQ(s) == MapSeq(s, ZshQuoted)

\* execQuote: single quotes, each of the text's own outside them. A shell that
\* is given the line reads it as shellUnquote does.
SingleQuoted(c) == IF c = "'" THEN <<"'", "\\", "'", "'">> ELSE <<c>>
ExecQuote(s) ==
  IF s = <<>> THEN <<"'", "'">>
  ELSE IF \E i \in DOMAIN s : s[i] \in {" ", NL, DQ, "'", "\\", "$", ";"}
    THEN <<"'">> \o MapSeq(s, SingleQuoted) \o <<"'">>
    ELSE s

-----------------------------------------------------------------------------
\* vscUnescape: OSC 633;E of VS Code.
HexOf == <<[hex |-> <<"3", "b">>, byte |-> ";"], [hex |-> <<"0", "a">>, byte |-> NL],
           [hex |-> <<"0", "1">>, byte |-> SOH], [hex |-> <<"2", "0">>, byte |-> " "],
           [hex |-> <<"2", "5">>, byte |-> "%"]>>
HexFor(c) == (CHOOSE k \in DOMAIN HexOf : HexOf[k].byte = c)
IsHex(s, i) == i < Len(s) /\ \E k \in DOMAIN HexOf : HexOf[k].hex = <<s[i], s[i + 1]>>
ByteAt(s, i) == HexOf[CHOOSE k \in DOMAIN HexOf : HexOf[k].hex = <<s[i], s[i + 1]>>].byte

Raw(s, st) == Took(st, 1, <<s[st.i]>>, st.mode)
IsHexEscape(s, i) == s[i] = "\\" /\ i < Len(s) /\ s[i + 1] = "x" /\ IsHex(s, i + 2)
IsDoubled(s, i)   == s[i] = "\\" /\ i < Len(s) /\ s[i + 1] = "\\"

\* Mutant: a doubled backslash is not paired first.
VscUnpaired(s, st) ==
  IF IsHexEscape(s, st.i) THEN Took(st, 4, <<ByteAt(s, st.i + 2)>>, st.mode)
  ELSE IF IsDoubled(s, st.i) THEN Took(st, 1, <<"\\">>, st.mode)
  ELSE Raw(s, st)

VscStep(s, st) ==
  IF IsDoubled(s, st.i) THEN Took(st, 2, <<"\\">>, st.mode)
  ELSE IF IsHexEscape(s, st.i) THEN Took(st, 4, <<ByteAt(s, st.i + 2)>>, st.mode)
  ELSE Raw(s, st)
VscUnescape(s) == ReadBy(VscStep, s)

VscEscaped(c) ==
  CASE c = "\\" -> <<"\\", "\\">>
    [] c \in {";", NL, SOH} -> <<"\\", "x">> \o HexOf[HexFor(c)].hex
    [] OTHER -> <<c>>
VscEscape(s) == MapSeq(s, VscEscaped)

\* percentDecode: the cmdline_url of fish.
PercentStep(s, st) ==
  IF s[st.i] = "%" /\ IsHex(s, st.i + 1) THEN Took(st, 3, <<ByteAt(s, st.i + 1)>>, st.mode)
  ELSE Raw(s, st)
PercentDecode(s) == ReadBy(PercentStep, s)

UrlEncoded(c) ==
  IF c \in {"%", " ", ";", NL, SOH} THEN <<"%">> \o HexOf[HexFor(c)].hex ELSE <<c>>
UrlEncode(s) == MapSeq(s, UrlEncoded)

-----------------------------------------------------------------------------
\* A quoted command line is read back as it was, whatever its quotes,
\* backslashes, newlines and digits: kitty's bash and zsh tell the one that was
\* run, and the line exec stores is one the user can run again.
QuotedBack(s) ==
  /\ ShellUnquote(BashQ(s)) = s /\ ShellUnquote(ZshQ(s)) = s
  /\ ShellUnquote(ExecQuote(s)) = s

\* So is an escaped one: VS Code's, of which no semicolon may be left that
\* would end the parameter, and fish's.
EscapedBack(s) ==
  /\ VscUnescape(VscEscape(s)) = s
  /\ PercentDecode(UrlEncode(s)) = s
  /\ ";" \notin ToSet(VscEscape(s)) \cup ToSet(UrlEncode(s))
=============================================================================
