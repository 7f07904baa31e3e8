-------------------------------- MODULE Feed --------------------------------
(***************************************************************************)
(* The mark parser byte by byte (parser.go, Feed): the automaton that      *)
(* tells text, CSI and OSC sequences apart, whatever chunks the terminal   *)
(* is read in. A byte is a token; "A".."D" in an OSC stand for the marks   *)
(* 133;A..133;D, "?1049" in a CSI for the parameter of the alternate       *)
(* screen. Module Recorder models what the marks lead to.                  *)
(***************************************************************************)
EXTENDS Integers, Sequences

CONSTANTS
  MaxSeqLen, \* maxSeqLen
  EchoCap    \* echoCap

VARIABLE p   \* the Parser
vars == <<p>>

ESC == "ESC"  BEL == "BEL"
Bytes == {"x", "A", "B", "C", "D", "h", "l", "?1049", "[", "]", "\\", ESC, BEL}
Finals == Bytes \ {"?1049", ESC, BEL}  \* 0x40-0x7e

Sentinel(phase) == IF phase = "prompt" THEN "<prompt>" ELSE "<input>"

Init == p = [st |-> "norm", osc |-> <<>>, csi |-> <<>>, capturing |-> FALSE, alt |-> FALSE,
             phase |-> "none", input |-> FALSE, over |-> FALSE, echo |-> <<>>]

-----------------------------------------------------------------------------
EchoAdd(q, bytes) ==
  IF q.over THEN q
  ELSE IF Len(q.echo) + Len(bytes) > EchoCap THEN [q EXCEPT !.over = TRUE, !.echo = <<>>]
  ELSE [q EXCEPT !.echo = @ \o bytes]

EchoReset(q) == [q EXCEPT !.phase = "none", !.input = FALSE, !.over = FALSE, !.echo = <<>>]

\* A new prompt.
MarkA(q) ==
  [p |-> EchoAdd([EchoReset(q) EXCEPT !.phase = "prompt"], <<Sentinel("prompt")>>), ev |-> <<>>]

\* The prompt has been written; what is typed comes.
MarkB(q) ==
  LET r == IF q.phase # "prompt" THEN EchoReset(q) ELSE q
  IN  [p |-> EchoAdd([r EXCEPT !.phase = "input", !.input = TRUE], <<Sentinel("input")>>),
       ev |-> <<>>]

\* The command runs: OutStart, and before it the echo of its line.
MarkC(q) ==
  [p  |-> EchoReset([q EXCEPT !.capturing = TRUE, !.alt = FALSE]),
   ev |-> (IF q.input /\ ~q.over THEN <<[kind |-> "echo", bytes |-> q.echo]>> ELSE <<>>)
            \o <<[kind |-> "start", bytes |-> <<>>]>>]

MarkD(q) ==
  [p  |-> [EchoReset(q) EXCEPT !.capturing = FALSE],
   ev |-> IF q.capturing THEN <<[kind |-> "end", bytes |-> <<>>]>> ELSE <<>>]

HandleOSC(q) ==
  CASE q.osc = <<"A">> -> MarkA(q) [] q.osc = <<"B">> -> MarkB(q)
    [] q.osc = <<"C">> -> MarkC(q) [] q.osc = <<"D">> -> MarkD(q)
    [] OTHER -> [p |-> q, ev |-> <<>>]

\* Alternate-screen tracking.
HandleCSI(q) ==
  IF q.csi = <<"?1049", "h">> THEN [q EXCEPT !.alt = TRUE]
  ELSE IF q.csi = <<"?1049", "l">> THEN [q EXCEPT !.alt = FALSE]
  ELSE q

-----------------------------------------------------------------------------
Output(out) == IF out = <<>> THEN <<>> ELSE <<[kind |-> "output", bytes |-> out]>>

\* Where bytes of the terminal go: to the output, to the echo or nowhere.
\* s: the parser, the events so far, the output not yet handed over, and the text
\* scanned since the last sequence.
Emit(s, bytes) ==
  IF s.p.capturing /\ ~s.p.alt THEN [s EXCEPT !.out = @ \o bytes]
  ELSE IF s.p.phase # "none" THEN [s EXCEPT !.p = EchoAdd(@, bytes)]
  ELSE s

\* Text goes there as a whole, up to the next ESC or the end of the chunk.
EmitText(s) == [Emit(s, s.text) EXCEPT !.text = <<>>]

\* Mutant: the output before a mark is handed over after it.
EndOscLate(s) ==
  LET r == HandleOSC(s.p)
  IN  [s EXCEPT !.ev = @ \o r.ev, !.p = [r.p EXCEPT !.st = "norm"]]

\* The OSC is complete: flushOut, then handleOSC.
EndOsc(s) ==
  LET r == HandleOSC(s.p)
  IN  [s EXCEPT !.ev = @ \o Output(s.out) \o r.ev, !.out = <<>>, !.p = [r.p EXCEPT !.st = "norm"]]

To(s, st) == [s EXCEPT !.p.st = st]

AfterEsc(s, b) ==
  CASE b = "]" -> [s EXCEPT !.p.st = "osc", !.p.osc = <<>>]
    [] b = "[" -> [s EXCEPT !.p.st = "csi", !.p.csi = <<>>]
    [] OTHER   -> To(Emit(s, <<ESC, b>>), "norm")

InOsc(s, b) ==
  CASE b = BEL -> EndOsc(s)
    [] b = ESC -> To(s, "oscEsc")
    [] OTHER   -> IF Len(s.p.osc) < MaxSeqLen THEN [s EXCEPT !.p.osc = Append(@, b)] ELSE s

InOscEsc(s, b) ==
  IF b = "\\" THEN EndOsc(s) ELSE [s EXCEPT !.p.osc = @ \o <<ESC, b>>, !.p.st = "osc"]

InCsi(s, b) ==
  LET r == [s EXCEPT !.p.csi = Append(@, b)]
  IN  IF b \in Finals
        THEN To(Emit([r EXCEPT !.p = HandleCSI(@)], <<ESC, "[">> \o r.p.csi), "norm")
      ELSE To(r, IF Len(r.p.csi) > MaxSeqLen THEN "norm" ELSE "csi")

Step(s, b) ==
  CASE s.p.st = "norm"   -> IF b = ESC THEN To(EmitText(s), "esc") ELSE [s EXCEPT !.text = Append(@, b)]
    [] s.p.st = "esc"    -> AfterEsc(s, b)
    [] s.p.st = "osc"    -> InOsc(s, b)
    [] s.p.st = "oscEsc" -> InOscEsc(s, b)
    [] s.p.st = "csi"    -> InCsi(s, b)

FeedFrom(s, chunk) ==
  LET after[i \in 0..Len(chunk)] == IF i = 0 THEN s ELSE Step(after[i - 1], chunk[i])
  IN  after[Len(chunk)]

\* A buffer no state reads any more is forgotten.
Forget(q) == [q EXCEPT !.osc = IF q.st \in {"osc", "oscEsc"} THEN @ ELSE <<>>,
                       !.csi = IF q.st = "csi" THEN @ ELSE <<>>]

\* Feed: what is left in out is handed over at the end of the chunk.
FeedChunk(q, chunk) ==
  LET s == EmitText(FeedFrom([p |-> q, ev |-> <<>>, out |-> <<>>, text |-> <<>>], chunk))
  IN  [p |-> Forget(s.p), ev |-> s.ev \o Output(s.out)]

\* Bound: an OSC with ESC in it, whose length the code does not limit, ends.
Feed == \E b \in Bytes :
  /\ Len(p.osc) <= MaxSeqLen
  /\ p' = FeedChunk(p, <<b>>).p
Next == Feed
Spec == Init /\ [][Next]_vars

-----------------------------------------------------------------------------
\* Output that is handed over in pieces is one output.
Join(es, e) ==
  IF es # <<>> /\ es[Len(es)].kind = "output" /\ e.kind = "output"
    THEN [es EXCEPT ![Len(es)].bytes = @ \o e.bytes] ELSE Append(es, e)

Joined(events) ==
  LET upto[i \in 0..Len(events)] == IF i = 0 THEN <<>> ELSE Join(upto[i - 1], events[i])
  IN  upto[Len(events)]

Text == {<<>>, <<"x">>}
Sequence == {<<ESC, "]", mark>> \o end : mark \in {"A", "B", "C", "D"}, end \in {<<BEL>>, <<ESC, "\\">>}}
            \cup {<<ESC, "[", "?1049", "h">>, <<ESC, "[", "x">>, <<ESC, "x">>}

\* Any two bytes, and text with a sequence in it.
Chunks == [1..2 -> Bytes] \cup {t \o q \o u : t \in Text, q \in Sequence, u \in Text}

\* "identical no matter how the stream is split across Feed calls"
\* (fuzz_test.go:62): in any state a chunk has the effect of its two pieces,
\* wherever it is cut: the same events, with the same bytes, in the same order,
\* and the same state after it.
Splits(q, first, second) ==
  LET whole == FeedChunk(q, first \o second)
      one   == FeedChunk(q, first)
      two   == FeedChunk(one.p, second)
  IN  whole.p = two.p /\ Joined(whole.ev) = Joined(one.ev \o two.ev)

ChunkInvariant ==
  \A chunk \in Chunks : \A k \in 1..Len(chunk) - 1 :
    Splits(p, SubSeq(chunk, 1, k), SubSeq(chunk, k + 1, Len(chunk)))
=============================================================================
