------------------------ MODULE MCRecorderScenarios ------------------------
(***************************************************************************)
(* Recorder for TLC: which integrations, which command lines, and one run  *)
(* that goes through two scenarios, each with its own bounds.              *)
(***************************************************************************)
EXTENDS Recorder

AllSnippets == {"none", "bash", "zsh", "fish", "pwsh"}
AllNatives  == {"none", "fish", "vscode", "iterm2", "ghostty", "kitty", "wezterm"}

Ordinary == {"plain", "long", "opaque", "ignored", "exit"}
Pausing  == {"plain", "toggle", "screen"}
AllKinds == Ordinary \cup Pausing

VARIABLE scenario

\* "emitters": every combination of integrations, every ordinary command.
\* "pauses": one combination, three commands that may pause recording or use
\* the alternate screen, and a terminal that may go away.
Bounds ==
  [emitters |-> [kinds |-> Ordinary, commands |-> 2, text |-> 1, idle |-> 1],
   pauses   |-> [kinds |-> Pausing, commands |-> 3, text |-> 2, idle |-> 0]]

Within(b) ==
  /\ Len(cmds) <= b.commands /\ sh.idle <= b.idle
  /\ \A i \in DOMAIN cmds : cmds[i].kind \in b.kinds /\ cmds[i].wrote <= b.text

InitScenarios ==
  /\ Init
  /\ scenario \in DOMAIN Bounds
  /\ scenario = "pauses" => emit.snip = "zsh" /\ emit.native = "iterm2"

NextScenarios ==
  /\ \/ Shell \/ Read \/ ReadEOF
     \/ scenario = "pauses" /\ WriteFails
  /\ UNCHANGED scenario
  /\ Within(Bounds[scenario])'

SpecScenarios == InitScenarios /\ [][NextScenarios]_<<vars, scenario>>

\* KeptAtEnd where writing to the terminal does not fail.
KeptIfWritable == scenario = "emitters" => KeptAtEnd
=============================================================================
