------------------------------ MODULE Recorder ------------------------------
(***************************************************************************)
(* A recorded session (internal/record, shell/).  A shell runs on a PTY;   *)
(* what it writes reaches `backscroll run` in one byte stream, in order.   *)
(* In that stream, shell integrations (backscroll's own snippet, one that  *)
(* comes with the shell or the terminal, or both) put marks around each    *)
(* prompt and each command; the parser turns the marks into events and the *)
(* Run loop turns these into entries of the store.                         *)
(*                                                                         *)
(* The stream is a queue of tokens: a mark, or a piece of text.  That a    *)
(* token may be cut anywhere by a read is the business of the byte parser, *)
(* not of this module.  A command is known by its number, which stands for *)
(* its command line too; 0 stands for the empty command line.              *)
(***************************************************************************)
EXTENDS Naturals, Sequences, FiniteSets

CONSTANTS
  Snippets,     \* the backscroll snippets a session may have ("none", "bash", ...)
  Natives,      \* the other integrations it may have ("none", "vscode", ...)
  Kinds,        \* the kinds of command line users type
  StdoutFails,  \* whether the terminal may go away, so that writing to it fails
  MaxCommands,  \* bound: command lines typed
  MaxText,      \* bound: pieces of text a command writes
  MaxIdle,      \* bound: prompts at which nothing is run
  MaxPending    \* bound: tokens unread when the shell writes more

ASSUME RecorderAssumption ==
  /\ Snippets \subseteq {"none", "bash", "zsh", "fish", "pwsh"}
  /\ Kinds \subseteq {"plain", "long", "opaque", "ignored", "unread", "exit",
                      "toggle", "script", "screen"}
  /\ {MaxCommands, MaxText, MaxIdle, MaxPending} \subseteq Nat

VARIABLES
  emit,    \* which integrations the shell has, and whose hooks run first
  sh,      \* the shell
  tty,     \* what the shell has written and the recorder has not read
  r,       \* the recorder: the parser's fields and Run's variables
  stored,  \* the entries AddCommand was called with
  cmds     \* history: the commands run, and what they did

vars == <<emit, sh, tty, r, stored, cmds>>

Numbers == 1..MaxCommands

\* Which integrations a shell can have: fish's own marks need fish, PowerShell
\* has backscroll's only, the others go with bash and zsh.
Together(snip, native) ==
  \/ snip = "none" \/ native = "none"
  \/ snip = "fish" /\ native = "fish"
  \/ snip \in {"bash", "zsh"} /\ native # "fish"

Init ==
  /\ emit \in {e \in [snip : Snippets, native : Natives, snipFirst : BOOLEAN] :
                Together(e.snip, e.native)}
  /\ sh = [pc |-> "ready", ran |-> 0, code |-> 0, off |-> FALSE, idle |-> 0, alt |-> FALSE,
            noise |-> FALSE]
  /\ tty = <<>>
  /\ r = [capturing |-> FALSE, alt |-> FALSE, phase |-> "off", input |-> FALSE,
          echo |-> <<>>, wez |-> 0,
          cmd |-> 0, hint |-> 0, echoed |-> 0, garbled |-> FALSE, cwd |-> 0,
          open |-> FALSE, buf |-> <<>>, paused |-> FALSE, done |-> FALSE]
  /\ stored = <<>>
  /\ cmds = <<>>
-----------------------------------------------------------------------------
(***************************************************************************)
(* Tokens.                                                                 *)
(***************************************************************************)

A           == [t |-> "A"]                          \* 133;A, 133;P, 633;A
A2          == [t |-> "A2"]                         \* 133;A;k=s, 133;P;k=s
B           == [t |-> "B"]
C           == [t |-> "C"]
D(code)     == [t |-> "D", ok |-> TRUE, code |-> code]
BareD       == [t |-> "D", ok |-> FALSE, code |-> 0]
Cmd(n)      == [t |-> "cmd", of |-> n]              \* 6973;cmd=
Hint(n)     == [t |-> "hint", of |-> n]             \* 633;E, C;cmdline..., WEZTERM_PROG
SplitHint(n) == [t |-> "split", of |-> n]           \* a WEZTERM_PROG cut in two
Cwd(d)      == [t |-> "cwd", of |-> d]
Rec(on)     == [t |-> "rec", on |-> on]
Keys(n, p)  == [t |-> "keys", of |-> n, part |-> p] \* echo of the p-th line typed of n
KeysLost(n) == [t |-> "keys", of |-> n, part |-> 0] \* echo that cannot be read back
Text(n, hidden) == [t |-> "text", by |-> n, hidden |-> hidden]
Alt(on)     == [t |-> "alt", on |-> on]             \* CSI ?1049 h and l

IsOSC(tok) == tok.t \notin {"keys", "text", "alt"}
-----------------------------------------------------------------------------
(***************************************************************************)
(* What the integrations write, shell event by shell event.                *)
(***************************************************************************)

If(cond, toks) == IF cond THEN toks ELSE <<>>

\* Both integrations have a hook for the event.
Both(snip, native) == IF emit.snipFirst THEN snip \o native ELSE native \o snip

\* Before a command runs.  Only backscroll's snippet, fish, VS Code, kitty and
\* WezTerm tell its text, the latter three around their C mark.
SnippetPreexec(n) == If(emit.snip # "none", <<Cmd(n), C>>)

NativePreexec(n, kind) ==
  CASE emit.native = "none"    -> <<>>
    [] emit.native = "vscode"  -> <<Hint(n), C>>
    [] emit.native = "fish"    -> <<C, Hint(n)>>
    [] emit.native = "kitty"   -> <<C, Hint(n)>>
    [] emit.native = "wezterm" -> <<C, IF kind = "long" THEN SplitHint(n) ELSE Hint(n)>>
    [] OTHER                   -> <<C>>

Preexec(n, kind) == Both(SnippetPreexec(n), NativePreexec(n, kind))

\* After a command has run, before the next prompt (fish only).
Postexec(code) ==
  Both(If(emit.snip = "fish", <<D(code)>>), If(emit.native = "fish", <<D(code)>>))

\* Mutant: the directory is told before the command that changed it is over.
SnippetPromptCwdFirst(ran, code, dir) ==
  If(emit.snip # "none",
       <<Cwd(dir)>>
         \o If((ran /\ emit.snip = "bash") \/ emit.snip \in {"zsh", "pwsh"}, <<D(code)>>)
         \o <<A>> \o If(emit.snip = "pwsh", <<B>>))

\* At a prompt.  zsh and PowerShell send a D every time, iTerm2 too, after an
\* empty cycle of its own; bash does so if a command ran; Ghostty always,
\* without a code when none ran.
SnippetPrompt(ran, code, dir) ==
  If(emit.snip # "none",
       If((ran /\ emit.snip = "bash") \/ emit.snip \in {"zsh", "pwsh"}, <<D(code)>>)
         \o <<Cwd(dir), A>> \o If(emit.snip = "pwsh", <<B>>))

NativePrompt(ran, code, dir) ==
  CASE emit.native = "none"    -> <<>>
    [] emit.native = "fish"    -> <<A, B, Cwd(dir)>>
    [] emit.native = "iterm2"  -> If(~ran, <<C>>) \o <<D(code), Cwd(dir), A, B>>
    [] emit.native = "ghostty" -> (IF ran THEN <<D(code)>> ELSE <<BareD>>)
                                    \o <<Cwd(dir), A, A, B>>
    [] emit.native = "vscode"  -> If(~ran, <<Hint(0), C>>)
                                    \o (IF ran THEN <<D(code)>> ELSE <<BareD>>)
                                    \o <<A, Cwd(dir), B>>
    [] OTHER                   -> If(ran, <<D(code)>>) \o <<Cwd(dir), A, B>>

Prompt(ran, code, dir) ==
  Both(SnippetPrompt(ran, code, dir), NativePrompt(ran, code, dir))

\* Command lines whose echo cannot be read back (they came from a history
\* search, say), and those that a pattern of the ignore file matches.
Unreadable == {"opaque", "unread"}
Matching   == {"ignored", "unread"}

\* What the line editor echoes of a command line of one or two lines; the
\* continuation prompt is marked by some.
Echo(n, kind) ==
  CASE kind \in Unreadable -> <<KeysLost(n)>>
    [] kind = "long"   -> <<Keys(n, 1)>>
                            \o If(emit.native \in {"iterm2", "ghostty", "kitty"}, <<A2, B>>)
                            \o <<Keys(n, 2)>>
    [] OTHER           -> <<Keys(n, 1), Keys(n, 2)>>
-----------------------------------------------------------------------------
(***************************************************************************)
(* The shell and its user.                                                 *)
(***************************************************************************)

Running == IF sh.pc = "running" THEN Len(cmds) ELSE 0

Write(toks) == Len(tty) <= MaxPending /\ tty' = tty \o toks

ShowPrompt ==
  /\ sh.pc = "ready"
  /\ Write(Prompt(sh.ran # 0, sh.code, Len(cmds)))
  /\ sh' = [sh EXCEPT !.pc = "prompt", !.ran = 0, !.noise = FALSE]
  /\ UNCHANGED <<emit, r, stored, cmds>>

\* Enter at an empty prompt, or Ctrl-C after typing something.
Idle ==
  /\ sh.pc = "prompt" /\ sh.idle < MaxIdle
  /\ \E toks \in {<<>>, <<KeysLost(0)>>} : Write(toks)
  /\ sh' = [sh EXCEPT !.pc = "ready", !.idle = @ + 1]
  /\ UNCHANGED <<emit, r, stored, cmds>>

\* A background job writes while the prompt is up.
Background ==
  /\ sh.pc = "prompt"
  /\ ~sh.noise
  /\ Write(<<Text(0, FALSE)>>)
  /\ sh' = [sh EXCEPT !.noise = TRUE]
  /\ UNCHANGED <<emit, r, stored, cmds>>

\* Whether the stream tells the text of a command line: by a mark, or by an
\* echo that can be read back.
Told(kind) ==
  \/ emit.snip # "none" \/ emit.native \in {"fish", "vscode", "kitty", "wezterm"}
  \/ emit.native # "none" /\ kind \notin Unreadable /\ ~sh.noise

\* The user types a command line and the shell runs it.
Run(kind) ==
  /\ sh.pc = "prompt" /\ Len(cmds) < MaxCommands
  /\ LET n == Len(cmds) + 1 IN
         /\ Write(Echo(n, kind) \o Preexec(n, kind))
         /\ cmds' = Append(cmds, [kind |-> kind, dir |-> Len(cmds), code |-> 0,
                                  off |-> sh.off, wrote |-> 0, shown |-> 0,
                                  told |-> Told(kind), ended |-> FALSE])
  /\ sh' = [sh EXCEPT !.pc = IF kind = "exit" THEN "exiting" ELSE "running",
                      !.alt = FALSE]
  /\ UNCHANGED <<emit, r, stored>>

\* A running command writes a piece of text, or goes to the alternate screen
\* or back; one that is killed there leaves the screen as it is.  `backscroll
\* off` and `on` say so after their mark.
WriteText ==
  /\ Running # 0 /\ cmds[Running].wrote < MaxText
  /\ cmds[Running].kind = "toggle" => cmds[Running].off # sh.off
  /\ Write(<<Text(Running, sh.off)>>)
  /\ cmds' = [cmds EXCEPT ![Running].wrote = @ + 1,
                          ![Running].shown = IF sh.alt THEN @ ELSE @ + 1]
  /\ UNCHANGED <<emit, sh, r, stored>>

SwitchScreen ==
  /\ Running # 0 /\ cmds[Running].kind = "screen" /\ cmds[Running].wrote < MaxText
  /\ Write(<<Alt(~sh.alt)>>)
  /\ sh' = [sh EXCEPT !.alt = ~@]
  /\ UNCHANGED <<emit, r, stored, cmds>>

\* `backscroll off` or `on` is run, by itself or as a part of a longer line.
Toggle ==
  /\ Running # 0
  /\ cmds[Running].kind \in {"toggle", "script"}
  /\ cmds[Running].kind = "toggle" => cmds[Running].off = sh.off
  /\ cmds[Running].wrote < MaxText
  /\ Write(<<Rec(sh.off)>>)
  /\ sh' = [sh EXCEPT !.off = ~@]
  /\ UNCHANGED <<emit, r, stored, cmds>>

Finish(code) ==
  /\ Running # 0
  /\ Write(Postexec(code))
  /\ sh' = [sh EXCEPT !.pc = "ready", !.ran = Running, !.code = code]
  /\ cmds' = [cmds EXCEPT ![Running].code = code, ![Running].off = sh.off,
                          ![Running].ended = TRUE]
  /\ UNCHANGED <<emit, r, stored>>

\* The shell exits; fish closes the cycle of its own `exit`.
Exit ==
  /\ sh.pc = "exiting"
  /\ Write(Postexec(0))
  /\ sh' = [sh EXCEPT !.pc = "dead"]
  /\ UNCHANGED <<emit, r, stored, cmds>>

\* The shell dies (hangup, kill).
Die ==
  /\ sh.pc \in {"ready", "prompt", "running"}
  /\ sh' = [sh EXCEPT !.pc = "dead"]
  /\ UNCHANGED <<emit, tty, r, stored, cmds>>
-----------------------------------------------------------------------------
(***************************************************************************)
(* The recorder.  Operators take and return its state, s.                  *)
(***************************************************************************)

\* cmdName: the snippet's text, else a hint, else what the echo gave.  That may
\* be a text nobody typed, with the command line in it or none (0).
CmdName(s) == IF s.cmd # 0 THEN s.cmd ELSE IF s.hint # 0 THEN s.hint ELSE s.echoed
Garbled(s) == s.cmd = 0 /\ s.hint = 0 /\ s.garbled

\* What cmdName's text is taken for: a garbled one matches no pattern of the
\* ignore file and is no `exit`.
KindOf(s) ==
  IF Garbled(s) THEN "garbled"
  ELSE IF CmdName(s) = 0 THEN "empty" ELSE cmds[CmdName(s)].kind
Ignored(s) == KindOf(s) \in Matching
IsShellExit(s) == KindOf(s) = "exit"

Forget(s) == [s EXCEPT !.open = FALSE, !.buf = <<>>,
                       !.cmd = 0, !.hint = 0, !.echoed = 0, !.garbled = FALSE]

\* Mutant: recording is never off.
KeepsPaused(s) ==
  /\ s.open
  /\ ~Ignored(s) /\ ~IsShellExit(s)
  /\ KindOf(s) = "empty" => s.buf # <<>>

\* Whether flush stores the open entry.
Keeps(s) ==
  /\ s.open /\ ~s.paused
  /\ ~Ignored(s) /\ ~IsShellExit(s)
  /\ KindOf(s) = "empty" => s.buf # <<>>

Flush(s, code, ok) ==
  /\ r' = IF s.open THEN Forget(s) ELSE s
  /\ stored' = IF Keeps(s)
                 THEN Append(stored, [name |-> CmdName(s), garbled |-> Garbled(s), out |-> s.buf,
                                      cwd |-> s.cwd, code |-> code, ok |-> ok])
                 ELSE stored

EchoReset(s) == [s EXCEPT !.phase = "off", !.input = FALSE, !.echo = <<>>]

\* ReconstructEcho gives what the echo left on the grid, whoever wrote it, and
\* nothing if it was not followed to its end (or ends in Ctrl-C).
Legible(echo) == echo # <<>> /\ \A i \in DOMAIN echo : echo[i].t = "keys" => echo[i].part # 0

\* The command line in that text, which the shell echoes last; 0 if there is
\* none in it.
Reconstruct(echo) ==
  IF Legible(echo) /\ echo[Len(echo)].t = "keys" THEN echo[Len(echo)].of ELSE 0

\* Whether the text is another than that line: a background job's output is in
\* it, or the line's beginning is not.
Garbles(echo) ==
  Legible(echo) /\ ~\E n \in Numbers : echo = <<Keys(n, 1), Keys(n, 2)>>

PromptStart(s) == [EchoReset(s) EXCEPT !.phase = "prompt"]

\* Mutant: a continuation prompt begins the input anew.
SecondPromptRestarts(s) == PromptStart(s)

\* A secondary prompt continues the input region, if there is one.
SecondPrompt(s) == IF s.input THEN [s EXCEPT !.phase = "prompt"] ELSE PromptStart(s)

MarkB(s) ==
  [(IF s.phase = "prompt" THEN s ELSE EchoReset(s)) EXCEPT !.phase = "input", !.input = TRUE]

\* Output begins: hand over the echo, start a fresh buffer.
MarkC(s) ==
  [EchoReset(s) EXCEPT !.capturing = TRUE, !.alt = FALSE,
                       !.echoed = IF s.input THEN Reconstruct(s.echo) ELSE @,
                       !.garbled = IF s.input THEN Garbles(s.echo) ELSE @,
                       !.open = TRUE, !.buf = <<>>]

\* Feed: bytes that are no mark belong to the output or to the echo.
AddBytes(s, tok) ==
  IF s.capturing /\ ~s.alt
    THEN IF s.open THEN [s EXCEPT !.buf = Append(@, tok)] ELSE s
    ELSE IF s.phase # "off" THEN [s EXCEPT !.echo = Append(@, tok)] ELSE s

\* A hint that was held back, as it may have been cut, is due at the next OSC.
Due(s) == IF s.wez # 0 THEN [s EXCEPT !.hint = s.wez, !.wez = 0] ELSE s

\* What a token that ends no entry does.
Observe(s, tok) ==
  CASE tok.t = "A"     -> PromptStart(s)
    [] tok.t = "A2"    -> SecondPrompt(s)
    [] tok.t = "B"     -> MarkB(s)
    [] tok.t = "C"     -> MarkC(s)
    [] tok.t = "cmd"   -> [s EXCEPT !.cmd = tok.of]
    [] tok.t = "hint"  -> [s EXCEPT !.hint = tok.of]
    [] tok.t = "split" -> [s EXCEPT !.wez = tok.of]
    [] tok.t = "cwd"   -> [s EXCEPT !.cwd = tok.of]
    [] tok.t = "rec"   -> [s EXCEPT !.paused = ~tok.on]
    [] tok.t = "alt"   -> [s EXCEPT !.alt = tok.on]
    [] tok.t \in {"keys", "text"} -> AddBytes(s, tok)

\* Mutant: what follows a D is still output.
MarkDGoesOn(s, tok) ==
  LET t == EchoReset(s)
  IN  IF s.capturing THEN Flush(t, tok.code, tok.ok) ELSE r' = t /\ UNCHANGED stored

\* A D mark ends the entry, if one is open.
MarkD(s, tok) ==
  LET t == EchoReset(s)
  IN  IF s.capturing THEN Flush([t EXCEPT !.capturing = FALSE], tok.code, tok.ok)
                     ELSE r' = t /\ UNCHANGED stored

\* One turn of the copy loop: a read, and the parser's work on it.
Read ==
  /\ ~r.done /\ tty # <<>>
  /\ tty' = Tail(tty)
  /\ LET tok == Head(tty)
         s   == IF IsOSC(tok) THEN Due(r) ELSE r
     IN  IF tok.t = "D" THEN MarkD(s, tok)
                        ELSE r' = Observe(s, tok) /\ UNCHANGED stored
  /\ UNCHANGED <<emit, sh, cmds>>

\* Mutant: what is open when the loop ends is dropped.
FinalizeDrops(s) == r' = [s EXCEPT !.done = TRUE] /\ UNCHANGED stored

\* The loop ends, and what is open is stored, unless it is the shell's exit.
Finalize(s) == Flush([s EXCEPT !.done = TRUE, !.open = @ /\ ~IsShellExit(s)],
                     0, FALSE)

\* The shell is gone and all it wrote has been read.
ReadEOF ==
  /\ ~r.done /\ tty = <<>> /\ sh.pc = "dead"
  /\ Finalize(r)
  /\ UNCHANGED <<emit, sh, tty, cmds>>

\* Writing to the terminal fails: the bytes just read are not parsed.
WriteFails ==
  /\ StdoutFails /\ ~r.done /\ tty # <<>>
  /\ tty' = Tail(tty)
  /\ Finalize(r)
  /\ UNCHANGED <<emit, sh, cmds>>

Shell ==
  \/ ShowPrompt \/ Idle \/ Background \/ WriteText \/ SwitchScreen \/ Toggle
  \/ Exit \/ Die
  \/ \E kind \in Kinds : Run(kind)
  \/ \E code \in 0..1 : Finish(code)

Loop == Read \/ ReadEOF \/ WriteFails

Next == Shell \/ Loop

Spec == Init /\ [][Next]_vars
-----------------------------------------------------------------------------
(***************************************************************************)
(* Properties.                                                             *)
(***************************************************************************)

Elems(q) == {q[i] : i \in DOMAIN q}
Tokens == [t : {"text"}, by : 0..MaxCommands, hidden : BOOLEAN]
            \cup [t : {"keys"}, of : 0..MaxCommands, part : 0..2]

\* Type invariant.
TypeOK ==
  /\ sh \in [pc : {"ready", "prompt", "running", "exiting", "dead"},
             ran : 0..MaxCommands, code : 0..1, off : BOOLEAN, idle : 0..MaxIdle,
             alt : BOOLEAN, noise : BOOLEAN]
  /\ r.phase \in {"off", "prompt", "input"} /\ {r.input, r.garbled} \subseteq BOOLEAN
  /\ {r.cmd, r.hint, r.echoed, r.wez, r.cwd} \subseteq 0..MaxCommands
  /\ Elems(r.buf) \cup Elems(r.echo) \subseteq Tokens
  /\ r.buf # <<>> => r.open
  /\ r.capturing /\ ~r.done => r.open
  /\ \A e \in Elems(stored) : e.name \in 0..MaxCommands /\ Elems(e.out) \subseteq Tokens
  /\ Len(cmds) <= MaxCommands

\* The command an entry is about: the one it names, else the one that wrote it.
Subject(e) == IF e.name # 0 \/ e.out = <<>> THEN e.name ELSE e.out[1].by

\* An entry of no command: some integrations send C and D at an empty prompt,
\* and what a background job wrote at it is taken for a command line.
Phantom(e) == e.garbled /\ e.name = 0 /\ e.out = <<>>

\* What an entry says is true of one command, and no command has two entries,
\* whichever integrations are on, in whichever order, and whatever happens at
\* prompts: all its output, the directory it started in, its exit code, if the
\* entry has one, and its text, except that a command that has run to its end
\* may be given a text nobody typed if the stream does not tell its own.  What
\* is of no command has no output (Run's flush, parser.go markC and markD).
Attribution ==
  /\ \A e \in Elems(stored) :
       \/ Phantom(e)
       \/ /\ Subject(e) \in 1..Len(cmds)
          /\ \A i \in DOMAIN e.out : e.out[i].t = "text" /\ e.out[i].by = Subject(e)
          /\ LET c == cmds[Subject(e)]
             IN  /\ e.cwd = c.dir
                 /\ e.ok => c.ended /\ e.code = c.code /\ ~(c.told /\ e.garbled)
  /\ \A i, j \in DOMAIN stored :
       i < j /\ ~Phantom(stored[i]) /\ ~Phantom(stored[j]) =>
         Subject(stored[i]) < Subject(stored[j])

\* No entry has a text that nobody typed: "a wrong command in the database is
\* strictly worse than an unlabeled one" (docs/echo-reconstruction.md:161).
NoWrongName == \A e \in Elems(stored) : ~e.garbled

\* A command that an entry is due for, once it is over: there is a mark around
\* it, recording was on at its end, no rule excludes it, and something is known
\* of it.
Recordable(n) ==
  /\ emit.snip # "none" \/ emit.native # "none"
  /\ ~cmds[n].off /\ cmds[n].kind \notin Matching \cup {"exit"}
  /\ cmds[n].told \/ cmds[n].shown > 0

\* When the recorder has read all there is and the shell is at its prompt, every
\* such command has its entry, with all it wrote outside of the alternate
\* screen, and with its text if the stream tells it.
Complete ==
  ~r.done /\ tty = <<>> /\ sh.pc = "prompt" =>
    \A n \in DOMAIN cmds :
      Recordable(n) =>
        \E e \in Elems(stored) :
          /\ Subject(e) = n
          /\ cmds[n].told => e.name = n /\ ~e.garbled
          /\ Len(e.out) = cmds[n].shown

\* Nothing a command writes while recording is off is stored: "two spans are
\* deliberately not captured ... Paused spans" (docs/how-it-records.md:81).
PausedNotStored ==
  \A e \in Elems(stored) : \A i \in DOMAIN e.out : ~e.out[i].hidden

\* "matching commands are never stored" (README.md:641).
IgnoredNotStored ==
  \A e \in Elems(stored) : ~Phantom(e) => cmds[Subject(e)].kind \notin Matching

\* How much of what a command wrote has been taken from the PTY.
Taken(n) ==
  cmds[n].wrote - Cardinality({i \in DOMAIN tty : tty[i].t = "text" /\ tty[i].by = n})

\* When the recorder stops, however it does, all it has taken from the PTY of
\* plain commands' output is stored: "survives terminal crashes, kill, closed
\* windows" (docs/how-it-records.md:22).
KeptAtEnd ==
  r.done =>
    \A n \in DOMAIN cmds :
      cmds[n].kind = "plain" /\ Recordable(n) /\ Taken(n) > 0 =>
        \E e \in Elems(stored) : Subject(e) = n /\ Len(e.out) = Taken(n)
=============================================================================
