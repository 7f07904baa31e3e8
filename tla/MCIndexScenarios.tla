-------------------------- MODULE MCIndexScenarios --------------------------
(***************************************************************************)
(* One run of StoreIndex that goes through two scenarios, each with its    *)
(* own bounds.                                                             *)
(***************************************************************************)
EXTENDS MCStoreIndex

CONSTANT Crowd

\* Crowd: all processes and an old binary; else the one process that is at
\* work, alone and without an old binary, but through a longer history.
VARIABLE scenario

AtWork == IF scenario = Crowd THEN Procs ELSE {scenario}

Within ==
  IF scenario = Crowd THEN adds <= 2 /\ crashes <= 1
  ELSE \A r \in rows : r.plain # Null

InitScenarios == Init /\ scenario \in Procs \cup {Crowd}

NextScenarios ==
  /\ \E p \in AtWork : Add(p) \/ Upkeep(p) \/ Crash(p)
  /\ UNCHANGED scenario
  /\ Within'

SpecScenarios == InitScenarios /\ [][NextScenarios]_<<vars, scenario>>

\* Scrubbed where redact overlaps nothing and every binary keeps plain_z.
ScrubbedAlone == scenario # Crowd => Scrubbed
=============================================================================
