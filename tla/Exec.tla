-------------------------------- MODULE Exec --------------------------------
(***************************************************************************)
(* `backscroll exec` (exec.go): a child whose two output pipes are copied  *)
(* by two goroutines into a buffer and on to the terminal, a grace period  *)
(* for whoever still holds the pipes when the child is gone, and signals   *)
(* forwarded by a third goroutine.  os/exec, which runs the copiers and    *)
(* the grace period, is modelled as exec.go uses it.                       *)
(*                                                                         *)
(* Bytes of a stream are known by their number; what CapBuf keeps of what  *)
(* is tapped is the matter of its own module.                              *)
(***************************************************************************)
EXTENDS Naturals, FiniteSets

CONSTANTS
  MaxBytes,   \* bound: bytes written to one stream
  MaxSignals  \* bound: signals delivered to backscroll

VARIABLES
  main,      \* runExec: "start", "wait", "grace", "cut", "record", "done", "killed"
  child,     \* "none", "alive", "gone"
  exit,      \* how the child ended: an exit code, or "signal"
  straggler, \* whether a grandchild holds the pipes
  wrote,     \* wrote[s]: bytes written to stream s
  own,       \* own[s]: how far the child itself has written
  taken,     \* taken[s]: bytes read from the pipe and tapped into the buffer
  shown,     \* shown[s]: bytes passed on
  copier,    \* copier[s]: "reading", "writing", "ended"
  copyErr, closed, cut,  \* a copy failed; the pipes were closed; by the grace period
  unread,    \* history, unread[s]: bytes left in the pipe of s when the grace period closed it
  quiet, sigq, signalled,
  result     \* the exit code mirrored, and what was recorded
vars == <<main, child, exit, straggler, wrote, own, taken, shown, copier, copyErr,
          closed, cut, unread, quiet, sigq, signalled, result>>
pipes == <<wrote, own, taken, shown, copier, copyErr, closed>>

Streams == {"out", "err"}
NotRun == 127
Broken == 141       \* 128 + SIGPIPE
Interrupted == 130  \* 128 + SIGINT
Codes == {0, 1}

Init ==
  /\ main = "start" /\ child = "none" /\ exit = 0 /\ straggler = FALSE
  /\ wrote = [s \in Streams |-> 0] /\ own = wrote /\ taken = wrote /\ shown = wrote
  /\ copier = [s \in Streams |-> "reading"]
  /\ copyErr = FALSE /\ closed = FALSE /\ cut = FALSE
  /\ unread = [s \in Streams |-> 0]
  /\ quiet = FALSE /\ sigq = 0 /\ signalled = 0
  /\ result = [code |-> 0, stored |-> "no"]

\* c.Start; a child that cannot be started is recorded too, with its message.
Start ==
  /\ main = "start" /\ child' = "alive" /\ main' = "wait" /\ quiet' \in BOOLEAN
  /\ UNCHANGED <<exit, straggler, pipes, cut, unread, sigq, signalled, result>>

StartFails ==
  /\ main = "start" /\ main' = "record"
  /\ quiet' \in BOOLEAN /\ result' = [result EXCEPT !.code = NotRun]
  /\ taken' = [taken EXCEPT !["err"] = 1] /\ wrote' = taken' /\ own' = taken'
  /\ shown' = IF quiet' THEN shown ELSE taken'
  /\ UNCHANGED <<child, exit, straggler, copier, copyErr, closed, cut, unread, sigq, signalled>>

-----------------------------------------------------------------------------
(* The child and what it leaves behind. *)

ChildWrites(s) ==
  /\ child = "alive" /\ copier[s] # "ended" /\ wrote[s] < MaxBytes
  /\ wrote' = [wrote EXCEPT ![s] = @ + 1]
  /\ own' = [own EXCEPT ![s] = wrote'[s]]
  /\ UNCHANGED <<main, child, exit, straggler, taken, shown, copier, copyErr, closed,
                 cut, unread, quiet, sigq, signalled, result>>

\* Nobody reads the stream any more: SIGPIPE.
ChildBreaks(s) ==
  /\ child = "alive" /\ copier[s] = "ended"
  /\ child' = "gone" /\ exit' = Broken
  /\ UNCHANGED <<main, straggler, pipes, cut, unread, quiet, sigq, signalled, result>>

ChildForks ==
  /\ child = "alive" /\ ~straggler /\ straggler' = TRUE
  /\ UNCHANGED <<main, child, exit, pipes, cut, unread, quiet, sigq, signalled, result>>

ChildExits ==
  /\ child = "alive" /\ child' = "gone"
  /\ exit' \in Codes \cup (IF signalled > 0 THEN {Interrupted} ELSE {})
  /\ UNCHANGED <<main, straggler, pipes, cut, unread, quiet, sigq, signalled, result>>

StragglerWrites(s) ==
  /\ straggler /\ copier[s] # "ended" /\ ~closed /\ wrote[s] < MaxBytes
  /\ wrote' = [wrote EXCEPT ![s] = @ + 1]
  /\ UNCHANGED <<main, child, exit, straggler, own, taken, shown, copier, copyErr, closed,
                 cut, unread, quiet, sigq, signalled, result>>

StragglerExits ==
  /\ straggler /\ straggler' = FALSE
  /\ UNCHANGED <<main, child, exit, pipes, cut, unread, quiet, sigq, signalled, result>>

-----------------------------------------------------------------------------
(* The copiers: read a chunk, tap it, pass it on. *)

\* One read takes all there is in the pipe, or part of it.
Tap(s) ==
  /\ copier[s] = "reading" /\ ~closed /\ taken[s] < wrote[s]
  /\ \E n \in taken[s] + 1 .. wrote[s] : taken' = [taken EXCEPT ![s] = n]
  /\ copier' = [copier EXCEPT ![s] = IF quiet THEN "reading" ELSE "writing"]
  /\ UNCHANGED <<main, child, exit, straggler, wrote, own, shown, copyErr, closed,
                 cut, unread, quiet, sigq, signalled, result>>

PassOn(s) ==
  /\ copier[s] = "writing"
  /\ shown' = [shown EXCEPT ![s] = taken[s]]
  /\ copier' = [copier EXCEPT ![s] = "reading"]
  /\ UNCHANGED <<main, child, exit, straggler, wrote, own, taken, copyErr, closed,
                 cut, unread, quiet, sigq, signalled, result>>

\* The destination fails (a full disk): io.Copy ends with the error.
PassFails(s) ==
  /\ copier[s] = "writing"
  /\ copier' = [copier EXCEPT ![s] = "ended"] /\ copyErr' = TRUE
  /\ UNCHANGED <<main, child, exit, straggler, wrote, own, taken, shown, closed,
                 cut, unread, quiet, sigq, signalled, result>>

\* A closed pipe on our own descriptor 1 or 2: Go's runtime dies of SIGPIPE.
PassKills(s) ==
  /\ copier[s] = "writing" /\ main # "killed"
  /\ main' = "killed" /\ closed' = TRUE
  /\ copier' = [t \in Streams |-> "ended"]
  /\ UNCHANGED <<child, exit, straggler, wrote, own, taken, shown, copyErr,
                 cut, unread, quiet, sigq, signalled, result>>

Drained(s) ==
  /\ child # "none" /\ copier[s] = "reading"
  /\ closed \/ (taken[s] = wrote[s] /\ child = "gone" /\ ~straggler)
  /\ copier' = [copier EXCEPT ![s] = "ended"]
  /\ UNCHANGED <<main, child, exit, straggler, wrote, own, taken, shown, copyErr, closed,
                 cut, unread, quiet, sigq, signalled, result>>

-----------------------------------------------------------------------------
(* Wait, and what follows it. *)

AllEnded == \A s \in Streams : copier[s] = "ended"

Reap ==
  /\ main = "wait" /\ child = "gone" /\ main' = "grace"
  /\ UNCHANGED <<child, exit, straggler, pipes, cut, unread, quiet, sigq, signalled, result>>

\* exitCodeOf: the child's own code first, then how the copying went.
ExitCodeOf == IF exit # 0 THEN exit ELSE IF copyErr /\ ~cut THEN NotRun ELSE 0

CopiersDone ==
  /\ main \in {"grace", "cut"} /\ AllEnded
  /\ main' = "record" /\ result' = [result EXCEPT !.code = ExitCodeOf]
  /\ UNCHANGED <<child, exit, straggler, pipes, cut, unread, quiet, sigq, signalled>>

\* What the copiers that still read have not taken.
LeftInPipes == [s \in Streams |-> IF copier[s] = "ended" THEN 0 ELSE wrote[s] - taken[s]]

\* Mutant: no deadline.
GraceNeverEnds == FALSE /\ UNCHANGED vars

\* Mutant: the deadline runs from the start of the child.
GraceFromStart ==
  /\ main \in {"wait", "grace"} /\ ~AllEnded /\ ~closed
  /\ main' = IF main = "grace" THEN "cut" ELSE main
  /\ closed' = TRUE /\ cut' = TRUE /\ unread' = LeftInPipes
  /\ UNCHANGED <<child, exit, straggler, wrote, own, taken, shown, copier, copyErr, quiet,
                 sigq, signalled, result>>

\* WaitDelay: the pipes are closed under copiers that are not done, wherever
\* they are; what they have in hand they still pass on.
GraceEnds ==
  /\ main = "grace" /\ ~AllEnded
  /\ main' = "cut" /\ closed' = TRUE /\ cut' = TRUE /\ unread' = LeftInPipes
  /\ UNCHANGED <<child, exit, straggler, wrote, own, taken, shown, copier, copyErr, quiet,
                 sigq, signalled, result>>

\* No store, an ignore pattern, an error from the store, or an entry.
Record ==
  /\ main = "record" /\ main' = "done"
  /\ \E how \in {"no store", "ignored", "failed", "yes"} :
       result' = [result EXCEPT !.stored = how]
  /\ UNCHANGED <<child, exit, straggler, pipes, cut, unread, quiet, sigq, signalled>>

-----------------------------------------------------------------------------
(* Signals: a channel of four, read while Wait is under way. *)

Signal ==
  /\ main \notin {"done", "killed"} /\ sigq + signalled < MaxSignals
  /\ sigq' = sigq + 1
  /\ UNCHANGED <<main, child, exit, straggler, pipes, cut, unread, quiet, signalled, result>>

Forward ==
  /\ main \in {"wait", "grace", "cut"} /\ sigq > 0
  /\ sigq' = sigq - 1
  /\ signalled' = signalled + 1
  /\ UNCHANGED <<main, child, exit, straggler, pipes, cut, unread, quiet, result>>

-----------------------------------------------------------------------------
Copying(s) == Tap(s) \/ PassOn(s) \/ Drained(s)
Ours == Reap \/ CopiersDone \/ GraceEnds \/ Record \/ \E s \in Streams : Copying(s)
Theirs ==
  \/ ChildForks \/ ChildExits \/ StragglerExits \/ Signal
  \/ \E s \in Streams : ChildWrites(s) \/ ChildBreaks(s) \/ StragglerWrites(s)
                        \/ PassFails(s) \/ PassKills(s)
Next == Start \/ StartFails \/ Forward \/ Ours \/ Theirs

\* The goroutines and the timer run; a destination takes what it is given.
\* Nothing is assumed of the child or of stragglers.
Fairness ==
  /\ WF_vars(Reap) /\ WF_vars(CopiersDone) /\ WF_vars(GraceEnds) /\ WF_vars(Record)
  /\ \A s \in Streams : WF_vars(Copying(s))
Spec == Init /\ [][Next]_vars /\ Fairness

-----------------------------------------------------------------------------
Ended == main \in {"record", "done"}

\* All that the child itself wrote before it ended is in the buffer, save what
\* was in the pipes when the grace period ended; and all that is in the buffer
\* is on the terminal unless --quiet.
OutputKept ==
  Ended /\ ~copyErr =>
    \A s \in Streams : /\ taken[s] + unread[s] >= own[s]
                        /\ (quiet \/ shown[s] = taken[s])

\* The grace period cuts off a grandchild, never the child: "Output passes
\* through untouched" (execUsage).
OutputUntouched ==
  Ended /\ ~copyErr => \A s \in Streams : quiet \/ shown[s] >= own[s]

\* The child's exit code is mirrored, stragglers cut off or not; only a child
\* that succeeded while its output could not be copied counts as failed.
ExitMirrored ==
  Ended /\ child = "gone" => result.code = exit \/ (copyErr /\ exit = 0 /\ ~cut)

\* Both: what was read in time is kept and passed on, the exit code mirrored.
ExecMirrors == OutputKept /\ ExitMirrored

\* Once the child is gone exec comes back, even if a grandchild holds the pipes
\* forever (the comment at exec.go:107).
Returns == child = "gone" ~> main \in {"done", "killed"}
=============================================================================
