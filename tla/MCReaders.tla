------------------------------ MODULE MCReaders -----------------------------
(* Parts that share no state, one to a behaviour. Timeline, the import of a     *)
(* history file and the sparklines are state machines; of the others the inputs *)
(* are built one token at a time.                                               *)
EXTENDS Timeline

CONSTANTS
  Formats, MaxTime, MaxEntries, WithinSecond,  \* history files
  Half, Buckets, Starts, Keys, MaxCmds         \* sparklines

\* The sparklines: whole numbers; 0 is a start that is not known.
ASSUME SparkAssumption == Half \in Nat \ {0} /\ Buckets \in Nat \ {0, 1} /\ Starts \subseteq Nat

VARIABLES
  which,
  format, timed, now, typed, kept, file, stored, fresh,
  cmds,
  s, t,  \* the inputs
  left   \* how many tokens may be added

HistFile == INSTANCE HistFile
Stats    == INSTANCE Stats
Ansi     == INSTANCE Ansi
Grep     == INSTANCE Grep
Unquote  == INSTANCE Unquote
Diff     == INSTANCE Diff

Machines == {"timeline", "histfile", "stats"}
TokensOf == [ansi |-> Ansi!Bytes, grep |-> Grep!Line, cut |-> {"x", "\n"},
             quoted |-> Unquote!Quotable, escaped |-> Unquote!Escapable, diff |-> {"a", "b"}]
\* Bounds: tokens of an input.
Length == [ansi |-> 4, grep |-> 7, cut |-> 12, quoted |-> 4, escaped |-> 4, diff |-> 8]
\* Beginnings that leave the walk inside a sequence, or a line overwritten.
Beginnings(part) ==
  IF part = "ansi" THEN {<<>>, <<"ESC", "[", "1", "m", "x">>, <<"ESC", "]">>, <<"x", "CR">>}
  ELSE {<<>>}

InitReaders ==
  /\ which \in Machines \cup DOMAIN TokensOf
  /\ Init /\ Stats!Init
  /\ HistFile!Init /\ (which # "histfile" => format = "nu")
  /\ s \in Beginnings(which) /\ t = <<>>
  /\ left = IF which \in Machines THEN 0
            ELSE IF s = <<>> THEN Length[which] ELSE Length[which] - 1

histfileVars == <<format, timed, now, typed, kept, file, stored, fresh>>
varsReaders  == <<which, vars, histfileVars, cmds, s, t, left>>

Grow ==
  /\ which \in DOMAIN TokensOf /\ left > 0
  /\ \E c \in TokensOf[which] :
       \/ t = <<>> /\ s' = Append(s, c) /\ UNCHANGED t
       \/ which = "diff" /\ t' = Append(t, c) /\ UNCHANGED s
  /\ left' = left - 1

NextReaders ==
  /\ UNCHANGED which
  /\ IF which = "timeline" THEN Next ELSE UNCHANGED vars
  /\ IF which = "histfile" THEN HistFile!Next ELSE UNCHANGED histfileVars
  /\ IF which = "stats"    THEN Stats!Next    ELSE UNCHANGED cmds
  /\ IF which \in Machines THEN UNCHANGED <<s, t, left>> ELSE Grow

SpecReaders == InitReaders /\ [][NextReaders]_varsReaders

-----------------------------------------------------------------------------
\* The properties of the parts, stated in their modules; those of Timeline are its
\* own.

\* histimport.go: a history file is read back entry by entry.
ParsedBack == which = "histfile" => HistFile!ParsedBack

\* importcmd.go: importing again adds new entries only.
ImportedOnce == which = "histfile" => HistFile!ImportedOnce

\* stats.go: sparklines count every command where it belongs.
SparksInRange == which = "stats" => Stats!SparksInRange

\* ansihtml.go: a page shows the text that is stripped, in spans that are closed
\* where they are opened.
PageShowsText == which = "ansi" => Ansi!SameText(s) /\ Ansi!WellFormed(s)

\* grep.go: the lines around the matches, as grep shows them.
HunksLikeGrep == which = "grep" =>
  \A before, after \in 0..2, maxHunks \in {1, 2, 5} :
    Grep!HunksLikeGrep(s, before, after, maxHunks)

\* mcp.go: the two ends of a long output.
CutHonest == which = "cut" => \A limit \in 1..10 : Grep!CutHonest(s, limit)

\* unquote.go, parser.go, exec.go: quoted and escaped command lines are read back.
ToldBack ==
  /\ which = "quoted"  => Unquote!QuotedBack(s)
  /\ which = "escaped" => Unquote!EscapedBack(s)

\* diff.go: no change is shown that need not be, and the unified form is a patch
\* if every hunk has a line of both texts: with context, and neither text empty.
DiffRight == which = "diff" =>
  /\ Diff!Minimal(s, t)
  /\ s # <<>> /\ t # <<>> => \A context \in 1..2 : Diff!Patches(s, t, context)

\* diff.go: what Unified renders is a unified diff (diff.go:111), with any number
\* of context lines and of any two texts.
DiffPatches == which = "diff" => \A context \in 0..1 : Diff!Patches(s, t, context)
=============================================================================
