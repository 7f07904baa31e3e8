------------------------------- MODULE Hangup -------------------------------
(***************************************************************************)
(* The end of a recorded session (record_unix.go, record.go): the read     *)
(* loop over the pseudo-terminal, the goroutine that passes a hangup on to *)
(* the shell and closes the pseudo-terminal three seconds later, and the   *)
(* flush of the pending command.                                           *)
(*                                                                         *)
(* The pseudo-terminal is the kernel's: what the shell wrote can be read   *)
(* until the master is closed, then reading fails; when the shell, which   *)
(* leads the session, has exited and all is read, reading fails too.       *)
(***************************************************************************)
EXTENDS Integers

CONSTANT MaxWrites \* bound: chunks the shell writes

VARIABLES
  shell,  \* "alive", "told" (it got SIGHUP and will exit), "deaf" (it got it and ignores it), "exited", "cut" (exited after the master was closed)
  wrote,  \* chunks the shell and its jobs wrote to the terminal
  taken,  \* chunks the read loop fed to the parser
  chunk,  \* what the last Read returned and the loop still has to pass on
  loop,   \* "read", "write", "ended", "flushed", "returned"
  hup,    \* the hangup goroutine: "waiting", "grace", "over"
  closed, \* the master is closed
  outer,  \* whether the terminal backscroll writes to is still there
  lost    \* history: chunks unread when the master was closed under the loop
vars == <<shell, wrote, taken, chunk, loop, hup, closed, outer, lost>>

Init ==
  /\ shell = "alive" /\ wrote = 0 /\ taken = 0 /\ chunk = 0
  /\ loop = "read" /\ hup = "waiting" /\ closed = FALSE /\ outer = TRUE
  /\ lost = 0

-----------------------------------------------------------------------------
(* The shell. *)

Gone == {"exited", "cut"}

ShellWrites ==
  /\ shell \notin Gone /\ ~closed /\ wrote < MaxWrites
  /\ wrote' = wrote + 1
  /\ UNCHANGED <<shell, taken, chunk, loop, hup, closed, outer, lost>>

\* By itself, because it was told, or because its terminal went away under it.
ShellExits ==
  /\ shell \notin Gone /\ shell' = IF closed THEN "cut" ELSE "exited"
  /\ UNCHANGED <<wrote, taken, chunk, loop, hup, closed, outer, lost>>

-----------------------------------------------------------------------------
(* WatchHangup. *)

\* SIGTERM, or SIGHUP because the outer terminal was closed.
HangupComes ==
  /\ hup = "waiting" /\ loop # "returned"
  /\ hup' = "grace"
  /\ outer' \in {outer, FALSE}
  /\ shell' \in IF shell = "alive" THEN {"told", "deaf"} ELSE {shell}
  /\ UNCHANGED <<wrote, taken, chunk, loop, closed, lost>>

\* Mutant: without the hard fallback.
GraceEndsNoClose ==
  /\ hup = "grace"
  /\ hup' = "over"
  /\ UNCHANGED <<shell, wrote, taken, chunk, loop, closed, outer, lost>>

\* Three seconds on, wherever the shell and the loop are by then.
GraceEnds ==
  /\ hup = "grace"
  /\ hup' = "over" /\ closed' = TRUE
  /\ lost' = IF loop \in {"read", "write"} THEN wrote - (taken + chunk) ELSE 0
  /\ UNCHANGED <<shell, wrote, taken, chunk, loop, outer>>

-----------------------------------------------------------------------------
(* The loop of Run, and what follows it. *)

Read ==
  /\ loop = "read" /\ ~closed /\ taken < wrote
  /\ chunk' \in 1..wrote - taken
  /\ loop' = "write"
  /\ UNCHANGED <<shell, wrote, taken, hup, closed, outer, lost>>

ReadFails ==
  /\ loop = "read"
  /\ closed \/ (shell \in Gone /\ taken = wrote)
  /\ loop' = "ended"
  /\ UNCHANGED <<shell, wrote, taken, chunk, hup, closed, outer, lost>>

\* Mutant: a master that was closed meanwhile ends the loop before what was
\* read is fed.
PassOnOpen ==
  /\ loop = "write"
  /\ IF outer /\ ~closed THEN taken' = taken + chunk /\ loop' = "read"
                         ELSE loop' = "ended" /\ UNCHANGED taken
  /\ chunk' = 0
  /\ UNCHANGED <<shell, wrote, hup, closed, outer, lost>>

\* os.Stdout.Write, then parser.Feed; a write that fails ends the loop and
\* what was to be written is not fed.
PassOn ==
  /\ loop = "write"
  /\ IF outer THEN taken' = taken + chunk /\ loop' = "read"
              ELSE loop' = "ended" /\ UNCHANGED taken
  /\ chunk' = 0
  /\ UNCHANGED <<shell, wrote, hup, closed, outer, lost>>

\* The pending command is stored before the shell is waited for.
Flush ==
  /\ loop = "ended" /\ loop' = "flushed"
  /\ UNCHANGED <<shell, wrote, taken, chunk, hup, closed, outer, lost>>

Wait ==
  /\ loop = "flushed" /\ shell \in Gone
  /\ loop' = "returned" /\ closed' = TRUE
  /\ UNCHANGED <<shell, wrote, taken, chunk, hup, outer, lost>>

-----------------------------------------------------------------------------
Loop == Read \/ ReadFails \/ PassOn \/ Flush \/ Wait
Next == ShellWrites \/ ShellExits \/ HangupComes \/ GraceEnds \/ Loop

\* The two goroutines run.  Nothing is assumed of the shell, nor of when the
\* hangup comes.
Fairness == WF_vars(Loop) /\ WF_vars(GraceEnds)
Spec == Init /\ [][Next]_vars /\ Fairness

-----------------------------------------------------------------------------
\* While the terminal is there the pending command is stored with all the shell
\* had written, save what nobody had read yet when the three seconds were over:
\* what the loop had in hand is not lost with it, and without a hangup, or if
\* the loop keeps up, nothing is ("the pending command's partial output still
\* gets flushed to the store", record_unix.go:73).
HangupStoresRead ==
  loop \in {"flushed", "returned"} /\ outer => taken + lost = wrote

\* A hangup leads to that flush, the shell may ignore it and write on for ever
\* (the hard fallback of record_unix.go:74).
HangupFlushes == hup = "grace" ~> loop \in {"flushed", "returned"}
=============================================================================
