----------------------------- MODULE ToolParts ------------------------------
(***************************************************************************)
(* Parts that share no state: exec, the end of a session, the migrations   *)
(* of the database and the upgrade.  MCTools runs each of them.            *)
(***************************************************************************)
EXTENDS Integers, Sequences, FiniteSets

CONSTANTS
  MaxBytes, MaxSignals,        \* exec
  MaxWrites,                   \* the end of a session
  Procs, Versions, AloneBelow, \* migrations
  Users, MaxVersion            \* upgrades

VARIABLES
  main, child, exit, straggler, wrote, own, taken, shown, copier, copyErr, closed,
  cut, unread, quiet, sigq, signalled, result,
  shell, written, fed, chunk, loop, hup, master, outer, lost,
  db, holder, work, at, v, startV, i,
  windows, exe, old, pc, tmp

Exec    == INSTANCE Exec
Hangup  == INSTANCE Hangup WITH wrote <- written, taken <- fed, closed <- master
Migrate == INSTANCE Migrate WITH pc <- at
Upgrade == INSTANCE Upgrade

-----------------------------------------------------------------------------
\* The properties of the parts, stated in their modules.

\* exec.go: all of the child's output that was read in time is kept and passed
\* on, and its exit code mirrored.
ExecMirrors == Exec!ExecMirrors

\* exec.go: "Output passes through untouched" (execUsage).
OutputUntouched == Exec!OutputUntouched

\* exec.go: it comes back once the child is gone.
ExecReturns == Exec!Returns

\* record_unix.go: the pending command is stored with all that was read of it.
HangupStoresRead == Hangup!HangupStoresRead

\* record_unix.go: a hangup leads to that, whatever the shell does.
HangupFlushes == Hangup!HangupFlushes

\* store.go: user_version tells which migrations have run, and they lose no
\* recorded text.
MigrateOnce == Migrate!MigrateOnce

\* upgrade.go: there is always a binary, and never an unverified one.
UpgradeInstalls == Upgrade!UpgradeInstalls
=============================================================================
