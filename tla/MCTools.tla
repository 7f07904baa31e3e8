------------------------------ MODULE MCTools -------------------------------
(* Parts that share no state, one to a behaviour: the output buffer, the mark    *)
(* parser, exec, the end of a session, the migrations of the database and the    *)
(* upgrade.                                                                      *)
EXTENDS CapBuf, ToolParts

CONSTANTS MaxSeqLen, EchoCap \* the mark parser

\* The parser's limits are numbers.
ASSUME ParserAssumption == MaxSeqLen \in Nat /\ EchoCap \in Nat

VARIABLES which, parser

Feed == INSTANCE Feed WITH p <- parser

Parts == {"capbuf", "feed", "exec", "hangup", "migrate", "upgrade"}

InitTools ==
  /\ which \in Parts
  /\ Init /\ (which # "capbuf" => headCap = 0 /\ tailCap = 0)
  /\ Feed!Init /\ Exec!Init /\ Hangup!Init
  /\ Migrate!Init /\ (which # "migrate" => db.ver = 4)
  /\ Upgrade!Init /\ (which # "upgrade" => windows /\ old = Upgrade!Nothing)

execVars == <<main, child, exit, straggler, wrote, own, taken, shown, copier, copyErr,
              closed, cut, unread, quiet, sigq, signalled, result>>
hangupVars  == <<shell, written, fed, chunk, loop, hup, master, outer, lost>>
migrateVars == <<db, holder, work, at, v, startV, i>>
upgradeVars == <<windows, exe, old, pc, tmp>>
varsTools == <<which, vars, parser, execVars, hangupVars, migrateVars, upgradeVars>>

NextTools ==
  /\ UNCHANGED which
  /\ IF which = "capbuf"  THEN Next         ELSE UNCHANGED vars
  /\ IF which = "feed"    THEN Feed!Next    ELSE UNCHANGED parser
  /\ IF which = "exec"    THEN Exec!Next    ELSE UNCHANGED execVars
  /\ IF which = "hangup"  THEN Hangup!Next  ELSE UNCHANGED hangupVars
  /\ IF which = "migrate" THEN Migrate!Next ELSE UNCHANGED migrateVars
  /\ IF which = "upgrade" THEN Upgrade!Next ELSE UNCHANGED upgradeVars

\* No fair action of a part is enabled where that part has not begun.
SpecTools == InitTools /\ [][NextTools]_varsTools /\ Exec!Fairness /\ Hangup!Fairness

-----------------------------------------------------------------------------
\* parser.go: chunks may be cut anywhere.
FeedChunkInvariant == which = "feed" => Feed!ChunkInvariant
=============================================================================
