------------------------------ MODULE Upgrade -------------------------------
(***************************************************************************)
(* `backscroll upgrade` (upgrade.go): what is decided from the versions,   *)
(* the download, the checks it must pass, and the steps by which the new   *)
(* binary takes the old one's place, any of which may fail or be the last  *)
(* before the process dies.                                                *)
(*                                                                         *)
(* A binary is known by what it is: "installed", the one that was there,   *)
(* "good", the release, "corrupt", bytes that are not the release's but run *)
(* and name its version, and "broken", a release that does neither.        *)
(***************************************************************************)
EXTENDS Naturals, FiniteSets

CONSTANTS
  Users,     \* processes that run `backscroll upgrade`
  MaxVersion \* bound: versions are 1, 2, ...

VARIABLES
  windows,  \* whether a running executable can only be renamed away
  exe, old, \* what is at exePath and at exePath + ".old"
  pc, tmp   \* of each process: where it is, what it has staged
vars == <<windows, exe, old, pc, tmp>>

Nothing == "none"
Contents == {"good", "corrupt", "broken"}
Ends == {"idle", "told", "refused", "failed", "stranded", "upgraded", "died"}

Init ==
  /\ windows \in BOOLEAN
  /\ exe = "installed" /\ old \in {Nothing, "installed"}
  /\ pc = [u \in Users |-> "idle"]
  /\ tmp = [u \in Users |-> Nothing]

Become(u, s) == pc' = [pc EXCEPT ![u] = s]
files == <<exe, old>>


\* What is to be done, told from a pin (0: none), --check and the version of
\* the build (0: "dev", from source).
Decision(cur, pin, check, to) ==
  CASE cur = 0 /\ pin = 0 /\ ~check -> "refused"
    [] check -> "told"
    [] cur = to -> "told"
    [] pin = 0 /\ ~(cur < to) -> "told"
    [] OTHER -> "place"

\* On Windows one upgrade is under way at a time: there the file that runs can
\* be neither removed nor renamed over, and the model keeps no image per process.
Decide(u) ==
  /\ pc[u] = "idle" /\ exe # Nothing
  /\ windows => \A w \in Users : pc[w] \in Ends
  /\ \/ Become(u, "failed")  \* the latest release could not be told
     \/ \E cur, pin \in 0..MaxVersion, latest \in 1..MaxVersion, check \in BOOLEAN :
          Become(u, Decision(cur, pin, check, IF pin = 0 THEN latest ELSE pin))
  /\ UNCHANGED <<files, tmp>>

\* A managed install or a directory that cannot be written to is refused.
Place(u) ==
  /\ pc[u] = "place"
  /\ \/ Become(u, "refused") /\ UNCHANGED old
     \/ Become(u, "fetch") /\ old' \in {Nothing, old}
  /\ UNCHANGED <<exe, tmp>>

\* Archive and checksums, the comparison, the extraction and the staging: an
\* error or a limit at any of them, else a binary the listing vouches for.
Fetch(u) ==
  /\ pc[u] = "fetch"
  /\ \/ Become(u, "failed") /\ UNCHANGED tmp
     \/ \E got \in Contents, listed \in Contents \ {"corrupt"} :
          IF got = listed
            THEN tmp' = [tmp EXCEPT ![u] = got] /\ Become(u, "sanity")
            ELSE Become(u, "failed") /\ UNCHANGED tmp
  /\ UNCHANGED files

\* The staged binary is run once; it must run and name the version.
Sanity(u) ==
  /\ pc[u] = "sanity"
  /\ IF tmp[u] # "broken"
       THEN Become(u, IF windows THEN "aside" ELSE "swap") /\ UNCHANGED tmp
       ELSE Become(u, "failed") /\ tmp' = [tmp EXCEPT ![u] = Nothing]
  /\ UNCHANGED files

\* One rename, over what is there.
Swap(u) ==
  /\ pc[u] = "swap"
  /\ \/ exe' = tmp[u] /\ Become(u, "upgraded")
     \/ Become(u, "failed") /\ UNCHANGED exe
  /\ tmp' = [tmp EXCEPT ![u] = Nothing]
  /\ UNCHANGED old

\* Windows: the running executable is moved away, the new one moved in, and
\* the first moved back if that fails.
Aside(u) ==
  /\ pc[u] = "aside"
  /\ \/ exe # Nothing /\ old' = exe /\ exe' = Nothing /\ Become(u, "in") /\ UNCHANGED tmp
     \/ Become(u, "failed") /\ tmp' = [tmp EXCEPT ![u] = Nothing] /\ UNCHANGED files

\* Mutant: a failure leaves things as they are.
MoveInNoRollback(u) ==
  /\ pc[u] = "in"
  /\ \/ exe' = tmp[u] /\ Become(u, "upgraded") /\ UNCHANGED old
     \/ Become(u, "failed") /\ UNCHANGED files
  /\ tmp' = [tmp EXCEPT ![u] = Nothing]

\* The old one still runs, so that removing it fails: the next upgrade does.
MoveIn(u) ==
  /\ pc[u] = "in"
  /\ \/ exe' = tmp[u] /\ Become(u, "upgraded") /\ UNCHANGED old
     \/ exe' = old /\ old' = Nothing /\ Become(u, "failed")
     \/ Become(u, "stranded") /\ UNCHANGED files  \* neither could be moved
  /\ tmp' = [tmp EXCEPT ![u] = Nothing]

\* The process dies; what it had staged stays in the directory.
Dies(u) ==
  /\ pc[u] \notin Ends /\ Become(u, "died")
  /\ tmp' = [tmp EXCEPT ![u] = Nothing]
  /\ UNCHANGED files

Step(u) == Decide(u) \/ Place(u) \/ Fetch(u) \/ Sanity(u) \/ Swap(u) \/ Aside(u)
           \/ MoveIn(u) \/ Dies(u)
Next == UNCHANGED windows /\ \E u \in Users : Step(u)
Spec == Init /\ [][Next]_vars

-----------------------------------------------------------------------------
\* There is always a binary: at its place on Unix, where the rename is atomic,
\* and on Windows there or moved aside; and no upgrade that comes to an end
\* leaves the place empty, unless the file could not be moved back either.
BinaryInPlace ==
  /\ ~windows => exe # Nothing
  /\ exe = Nothing => old # Nothing
  /\ (\A u \in Users : pc[u] \in Ends \ {"died", "stranded"}) => exe # Nothing

\* What is installed passed its checksum and ran, or was there before.
OnlyVerified == exe \in {"installed", "good", Nothing}

\* Both: there is always a binary, and never an unverified one.
UpgradeInstalls == BinaryInPlace /\ OnlyVerified
=============================================================================
