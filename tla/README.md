# A TLA+ model of backscroll

backscroll records a terminal session: it runs the shell on a pseudo-terminal,
watches the shell-integration marks (OSC 133/633 and its own OSC 6973) in the
stream, and stores one entry per command (text, output, directory, exit code) in
a SQLite database with a full-text index. The database can be searched, pruned,
redacted, fed with shell history, and shared between machines through a directory
that some file synchroniser copies.

This directory holds TLA+ modules of the parts of it that are hard to test,
TLC configurations that check them on small instances, and proofs for TLAPS.
Module and operator names follow the Go names where TLA+ allows it; comments name
the function a definition stands for.

    tlc -workers 2 -config SyncCrowd.cfg MCSyncLog     # one of the runs of section 3
    tlapm SyncLogProofs.tla                             # the proofs of section 4: so for
                                                        # every module *Proofs.tla

## 1. Inventory

### Parts, their state and operations

| part (source) | state | operations | what makes it correct |
|---|---|---|---|
| shell integration (`shell/`) | one-shot flags in the shell | hooks before a command, after it, at the prompt; each writes marks | each command marked once, in order, with its own exit code and directory |
| mark parser (`internal/record/parser.go`, `unquote.go`) | automaton state, OSC and CSI buffers, `capturing`, `altScreen`, echo region, held-back WEZTERM_PROG | `Feed` (chunk of bytes), `Close`, unquoting | events do not depend on how the stream is cut into chunks; the bytes between C and D are the command's output |
| echo reconstruction (`echoline.go`) | a one-shot grid and cursor | `ReconstructEcho` | the line the user accepted, or nothing |
| recorder loop (`record.go`) | `cur`, `curCmd`, `hintCmd`, `echoCmd`, `cwd`, `paused` | one per event; `flush`; end of session | one entry per command, with its own text, output, directory, code; nothing while paused or ignored |
| capped buffer (`record.go`, `capBuf`) | `head`, the ring `tail` with `tailStart` and `tailLen`, `total` | `Write`, `Bytes`, `Truncated` | the first and the last bytes of the stream, and the number of those missing |
| PTY (`record_unix.go`, `record_windows.go`) | a child, a hangup goroutine | start, resize, hang up | output of a dying shell is drained before the PTY closes |
| commands table (`internal/store/store.go`, `hist.go`) | rows; marks of sync and import | `AddCommand`, `AddImported`, `AddHistory`, `Delete`, `Prune`, `PruneToSize`, `UpdateOutput`, `SetNote`, queries | ids and timeline agree; no duplicate import; the oldest go first |
| full-text index (same) | postings by row id; `plain_z` | the second statement of each of these, `RebuildFTS` | the index is that of the table |
| migrations (same) | `user_version` | `Open`, `migrate` | once each, in order; no recorded text lost |
| sync log (`internal/synclog`, `sync.go`) | export mark, import marks, segment files, `meta.json` | `Export`, `Import`, init, status | every record gets to every other machine, once, as it was |
| history import (`internal/histimport`, `importcmd.go`) | none | parsers; sequence numbers for entries of one second | the file is read entry by entry; importing again adds only what is new |
| exec (`exec.go`) | two copiers, a signal forwarder, a timer | run a command without a PTY | both streams in full, the exit code mirrored, and it returns |
| redaction (`internal/redact`, `cmdRedact`) | none | mask an entry in place | no secret in entry or index afterwards |
| diff (`internal/diff`) | none | `Lines`, `Unified` | a shortest edit script, and a patch that applies |
| ANSI strip, HTML (`internal/ansi`, `ansihtml`) | automaton | strip, render | what is left is the visible text, in both the same |
| grep and get_output (`grep.go`, `mcp.go`) | none | hunks around matches; the two ends of a long output | what `grep -A -B` shows; nothing twice, nothing silently missing |
| stats (`stats.go`) | none | group by a key, sparkline | every command counted, in its own bucket |
| upgrade (`upgrade.go`) | the binary on disk | decide, download, verify, rename | always a binary, and never an unverified one |
| web UI, MCP server (`serve.go`, `mcp.go`) | none of their own | read-only queries; JSON-RPC | one answer per request |
| command line (`main.go`, `export.go`, `pick.go`) | none | format what queries return | — |

### How they interact

    user -> shell + hooks --bytes--> PTY --chunks--> parser --events--> Run loop
                                                                          |
                            exec, import, redact, prune, delete --SQL--> SQLite <-- queries,
                                                                          |         web, MCP
                           sync export --segments--> shared tree --> sync import
                                                (a file synchroniser copies it)

* Shell and recorder share nothing but the byte stream; `backscroll off` is a
  mark in it.
* Every recorder, `exec`, `sync`, `prune`, ... is a process of its own on one
  database file. SQLite makes one *statement* atomic; almost no operation uses a
  transaction around its statements (`AddHistory` and each migration do).
* Export and import share only files. Their order in time is up to the
  synchroniser; marks in each database say how far each side has got.

### What is hard

* **Interleaving**: statements of several processes (table and index, export and
  import marks, `user_version`); two integrations' hooks around one command; the
  hangup goroutine and the read loop; `exec`'s copiers, its timer and a signal.
* **Crashes**: between a row and its posting; between a segment and its mark, the
  mark and `meta.json`; with a command open; between two renames of an upgrade.
* **Ordering and delivery**: segments that arrive late, out of order, in part; a
  mark before or after the text that belongs to it; rows that arrive with old times.
* **Stale state**: SQLite gives the id of a deleted newest row out again, and ids
  are index rowids *and* sync sequence numbers; data read before and used after
  another process's write.
* **Boundaries**: the ring of the capped buffer; marks cut between reads; margins
  and wraps of the echo grid; hunks that touch; words that wrap around.

`PROJECT.json` lists each with its line, and the properties aimed at it.

## 2. Modules

| module | models | of |
|---|---|---|
| `ReplicatedHistory` | the abstract promise of sync: journals numbered upwards, replicas that gain each record once | — |
| `SyncLog`, `MCSyncLog` | databases, logs, synchroniser, `sync export` and `sync import` processes | `synclog.go`, `store.go` |
| `SyncLogProofs` | types, provenance, numbering, the marks of export and import, and the refinement | |
| `StoreIndex`, `MCStoreIndex`, `MCIndexScenarios` | rows and postings, one SQL statement per step | `store.go`, `hist.go`, `cmdRedact` |
| `StoreIndexProofs` | types, who owes the index what, redaction | |
| `Timeline` | queries in timeline order, `PruneToSize` round by round | `store.go` |
| `Migrate` | `Open` and `migrate`, statement by statement | `store.go` |
| `Recorder`, `MCRecorderScenarios` | shell, integrations, PTY, what marks do to parser and Run loop | `shell/`, `parser.go`, `record.go` |
| `RecorderProofs` | the recorder in step with the shell | |
| `Feed` | the parser's automaton byte by byte; chunks may be cut anywhere | `parser.go` |
| `EchoLine`, `MCEcho` | the grid, and the line editor that draws on it | `echoline.go` |
| `EchoProofs` | the grid's bounds, and killed lines | |
| `Unquote` | command lines that other programs quote or escape | `unquote.go`, `parser.go`, `exec.go` |
| `CapBuf` | the head-and-tail buffer, byte by byte | `record.go` |
| `Hangup` | the end of a session: read loop and hangup goroutine | `record_unix.go`, `record.go` |
| `Exec` | copiers, destinations, signals, stragglers, grace period | `exec.go` |
| `HistFile` | a shell that writes and trims its history file, and the import | `histimport.go`, `importcmd.go`, `hist.go` |
| `Stats` | groups and sparklines in wrapping words | `stats.go` |
| `Ansi` | `Strip` and `Render` over the same bytes | `ansi/strip.go`, `ansihtml.go` |
| `Grep` | hunks around matches; the cut of `get_output` | `grep.go`, `mcp.go` |
| `Diff` | Myers' search, backtracking, unified hunks | `diff.go` |
| `Upgrade` | decision, download, checks, renames | `upgrade.go` |
| `ToolParts` | `Exec`, `Hangup`, `Migrate` and `Upgrade` side by side | |
| `MCTools`, `MCReaders` | several of these in one run, one part to a behaviour; `MCTools` is `CapBuf`, `ToolParts` and `Feed` | |
| `ToolProofs` | of `MCTools`: the ring and its copies, chunks of any length, upgrades, hangups, `exec`, migrations | |
| `ReaderProofs` | of `MCReaders`: ranks in the timeline, search, walking back, prunes; `get_output`, hunks, sparklines | |
| `TextProofs` | of `MCReaders`: outputs as text and as a page, quoted and escaped command lines, imported histories | |
| `FoldLemmas` | what holds along a sequence, for functions that walk it | |

Parts that share state are composed: `SyncLog` holds the database, the log and the
processes between them; `Recorder` the shell, the stream, the parser's fields and
the loop. Parts that share none are not: `MCTools` and `MCReaders` instantiate
several and a behaviour steps one of them, so that one run covers them. `SyncLog`,
`StoreIndex` and `Timeline` are three views of the one database: what ids and
marks mean for sync, what statements do to the index, what queries see. None needs
the others' variables. `SyncLog` implements `ReplicatedHistory` under the mapping
`replica <- imported` (`ImplementsPromise`).

### SyncLog

`exp[p]` and `imp[p]` are the local variables of `Export` and `Import`, and the
`pc` in them the place in the loop. One action is one SQL statement or one file
operation with the computation around it: `StartExport` reads the mark,
`FetchBatch` is a call of `LocalAfter`, `SkipIgnored` and `AppendRow` one row of
the loop (the latter with its `flush` when the segment is full), `FlushTail` the
flush after the loop, `SaveState` and `SaveMeta` the two ways the mark is saved.
`StartImport` lists directories, `OpenDir` reads a machine's mark and lists its
segments, `SkipSegment`, `ReadSegment`, `ReadTorn`, `InsertRecord`,
`CommitSegment` are the segment loop. `CrashExport` and `CrashImport` forget the
local variables at any point; an error return does the same.

`journal` and `imported` are history variables: what a machine ever recorded, and
what another ever inserted of it. They let deleted rows be told from lost ones.

Left out: redaction at export (idempotent, and it changes no number); the key and
the encryption (a segment is whole, or, under `Torn`, a name without readable
contents); `meta.json` is its last number; the read of the old `meta.json` and the
write of the new one are one step, so are reading a mark and listing a directory;
`.tmp` file and rename are one step (see hazards); `Prune` takes a command number
for its cutoff in time.

### StoreIndex

A posting is a count in `posted[id][text]`: FTS5's `delete` command takes away what
it is told to, so the count can go below zero, as in the real index it then hurts
later matches. `plain = Null` is a row of a binary older than 0.4. `job[p]` is what
process p has in hand between two statements. `trust` is a history variable that
says whether anything the code documents as a cause of drift has happened.

Left out: sizes (`PruneToSize` may prune up to any row), the compression, the cap
on indexed text, what the text is beyond having a secret in it or not.

### Timeline

`Newest` is `ORDER BY started_at DESC, id DESC`, `Where` the filter on times and
origin, `List`, `Get`, `Search` (with `Notes`, its second query, and the merge) and
`PrevSame` the queries. `Begin`, `Measure`, `Pick` and `Cut` are a round of
`PruneToSize`; its locals are variables, since recordings, imports and deletions of
other processes come between its statements. What a row takes of the file
(`foot`) is not what it is reckoned at (`Payload`), as in the code, where a row's
share of the index is in no column. The loop has `Rounds` rounds, 8 in the code. It may end
with a file that is still too large after the last of them: `PruneStops` says that this, a file that
fits, an empty table and rows that another process took are the only ways out; `PruneFits`,
which is what the documentation says, leaves out the first and fails (section 6). Left out: highlighting, the sessions table,
the filters on session, directory and exit code (conjuncts like those modelled),
and that a query shorter than three characters does not match in a trigram index.

### Migrate

A statement is an `Add` (fails on what is there), an `Ensure` (does not) or a `Do`
(moves text). A transaction is `work`, which becomes `db` on commit and is
forgotten on an error, a lock timeout or a death. `ReadVersion` is outside of it,
as in the code. `AloneBelow` keeps processes apart at the versions where the code
goes wrong when they overlap; `MigrateRace.cfg` lifts it (section 6). `VACUUM`
may fail after the last migration, and is then never tried again, which costs
space and nothing else.

### Recorder

The shell writes tokens to a queue and the recorder reads them. What bytes make a
token is the matter of `Feed`; what each *mark* does to the parser's fields and
to Run's variables is modelled here (`Observe`, `MarkD`, `Flush`, `Finalize`).
What integrations write at each hook comes from `shell/` for backscroll's four
snippets and, for the other six, from the sequences the parser's comments and
tests and docs/compatibility.md give (external in the map). Two integrations may
be on at once, their hooks in either order.

A command's number stands for its text. What `ReconstructEcho` makes of an echo is, here,
nothing if it could not follow it (`Legible`); else the text on the grid, which is the
command line if the echo is that line and nothing more, and is `garbled` otherwise: a
background job wrote into the echo, or part of the line is not in it. Such a text is
stored like any other where no mark tells the command's own (`CmdName`, `Garbled`):
it is assumed to match no ignore pattern and not to read `exit` by accident. `name` is then the command line that
it contains, or 0 if what was on the grid is a job's output alone; with an
integration that sends a C for a prompt at which nothing was run (`iterm2`, `vscode`), that makes an entry
for a command nobody ran (`Phantom`). `Attribution` lets these two through and nothing
else; `NoWrongName`, which the documentation says, does not (section 6). `EchoLine` has
what the replay makes of the bytes of an echo.
`WriteFails` loses one token; in the program it is a chunk, which may be many. A
WEZTERM_PROG too long for one OSC is one token that is held back until the next
OSC. Left out: the rule for bash's own `exit` line (record.go:229-245), Ghostty's
snippet for bash reporting 0 for every code, nested recorders, resizing.

### Feed

`p` is the parser: automaton state, the two buffers, and the fields a mark
touches. `FeedFrom` is the loop of `Feed` over a chunk, one `Step` to a byte. Its fast
path hands plain text over as a whole, which matters where the echo meets its cap: so
text is gathered in `text` and passed on by `EmitText` at the next ESC or at the end of
the chunk. `FeedChunk` adds that, the flush at the end and the events. The state is
explored one byte at a time; `ChunkInvariant` then feeds, in every reachable state,
every chunk of two bytes and every text with a sequence in it, whole and cut in
every place. `MaxSeqLen = 1` and `EchoCap = 2` let the limits be met. In the code
an OSC with an ESC in it may outgrow `maxSeqLen` (that path does not look at it);
the bound in `Feed` stops the exploration there. An ESC inside a CSI or OSC does
not start a new sequence, here as in the code: a program killed inside an escape
swallows the mark that follows.

### EchoLine

`ReconstructEcho` with its grid (`Put`, wrap, `EraseInLine`, `EraseInDisplay`,
`InsertLines`, ...) is translated; the other side is a line editor that inserts,
deletes, moves, redraws, wraps at the margin, opens completion menus and a
full-screen picker, draws a right prompt and wipes it when the text comes near, and
is accepted or killed. The editor knows its line, so what is read back can be
compared with what was meant. `EraseWith` and `Tricks` choose how it erases and
which rarer controls it uses. A character is a cell; wide characters are not
modelled.

### CapBuf

A byte is its position in the stream, so that a wrong byte is seen. `Write` is
`capBuf.Write` up to its segment loop, `CopySegment` a turn of that loop, `Kept` is
`Bytes`. `copies` counts the `copy` calls a chunk needs.

### Exec and Hangup

Goroutines are interleaved actions. In `Exec` a byte is its number on its stream:
`wrote` by anyone, `own` by the child, `taken` into the buffer, `shown` on the
terminal. A destination may fail (`PassFails`) or, on descriptors 1 and 2, kill the
process by SIGPIPE before anything is recorded (`PassKills`). `GraceEnds` is
`WaitDelay`: at any time after the child is gone it closes the pipes, whatever the
copiers have taken; `unread` is what was then left in them. `ExecMirrors` says that nothing
but that is lost, of what the child wrote, and that all that was taken is passed on.
When only the copying failed and the child returned 0, 127 is mirrored.
In `Hangup` the kernel's side is the environment: what was written can be read until
the master is closed. `GraceEnds` closes it at any time after the hangup, whether the
shell has heeded it or not and whatever the loop has read; `lost` is what nobody had read.
`HangupStoresRead` says that, while the terminal is there, the pending command is stored with
everything else the shell wrote: the chunk the loop has in hand included, and all of it if
the loop was done, or there was no hangup. So a shell that writes more in its last
three seconds than the loop can take loses the end of its output; the code does not
prevent that, and no property says it does.

### HistFile

A file is a sequence of lines of tokens; `typed` is what the user typed, `file` what
the shell wrote of it in its format (bash with and without time comments, zsh
extended, fish, PowerShell, Nushell text), and the parsers are run on `file`. The
file is trimmed from its front and imported at any point. `SeqFor` numbers the
entries of one second. `WithinSecond = FALSE` lets the shell trim only at the
border of a second; inside one, entries are lost or repeated (`HistTrim.cfg`).
Inputs leave out what a plain bash file cannot tell: a typed line that looks like a
time comment, a quote left open in a comment (`ls # don't`), which the parser takes
to go on, and multi-line entries of a session without `lithist`. Rows a user
deleted come back with the next import. The SQLite histories of Atuin and Nushell
are not modelled.

### Stats, Ansi, Grep, Unquote, Diff

Functions over bounded inputs, each against a second definition. `Stats` computes
in words of `2 * Half` values that wrap around as int64 does; `Half` stands for
2^63 ns, 292 years. `Ansi` has one attribute of SGR, and of `&`, `<` and `>` one;
`Strip`'s backspace takes one byte, of a multi-byte rune only its last. `Grep` takes
lines as matching or not. `get_output` may report fewer omitted bytes than it omits,
because it counts before it cuts at line ends; `CutHonest` says that the two parts do
not meet and together stay within `max_bytes`, that the end is never empty, and that
the count is never more than what was left out. `Unquote` inverts each emitter's quoting;
`\x`, `\u` and `\c` are not among the tokens. `Diff` finds the edit script as
`diff.Lines` does, with recursive functions where the code loops. `Splice` applies hunks as
`patch` does, which takes the line number of an empty range for that of the line before
it. `Unified` prints the number of the line after it (`Header`), so its output is no patch
where a hunk has no line of one text: with no context lines, or when one text is empty.
`DiffRight` leaves these cases out, `DiffPatches` has them and fails (section 6).

### Upgrade

`Decide` (versions compared as numbers; what `semverLess` makes of odd strings is
left out), `Place`, `Fetch` with its checks, `Sanity`, the renames. Any step may
fail, and the process may die after any. On Windows, where a running file can only
be renamed away, one upgrade is under way at a time, and a crash between the two
renames leaves the binary under its `.old` name. `BinaryInPlace`: on Unix the place
is never empty; on Windows the binary is there or moved aside, and an upgrade that
comes to an end leaves the place empty only if it died or could not move the file
back. Files are not synced before the rename, so that a power
failure is not covered.

## 3. Runs

| run | cfg (module) | checks | states |
|---|---|---|---|
| `sync_crowd` | SyncCrowd (MCSyncLog) | `TypeOK`, `ExportComplete`, `NoGap` | 1.0 M |
| `sync_crowd_import` | SyncCrowdImport (MCSyncLog) | `NoGap`, `Faithful`, `ImplementsPromise` | 0.29 M |
| `sync_live` | SyncLive (MCSyncLog) | `EventuallyShared` | 41 k |
| `index` | IndexScenarios (MCIndexScenarios) | `TypeOK`, `NoDrift`, `ScrubbedAlone` | 2.2 M |
| `rec_sessions` | RecSessions (MCRecorderScenarios) | `TypeOK`, `Attribution`, `Complete`, `PausedNotStored`, `KeptIfWritable` | 4.7 M |
| `echo_line` | EchoLine (MCEcho) | `GridOK`, `LineReadBack`, `KilledNotRead` | 1.4 M |
| `tools` | Tools (MCTools) | `TypeOK`, `HeadAndTail`, `AtMostTwoCopies`, `FeedChunkInvariant`, `ExecMirrors`, `ExecReturns`, `HangupStoresRead`, `HangupFlushes`, `MigrateOnce`, `UpgradeInstalls` | 0.31 M |
| `readers` | Readers (MCReaders) | `SearchIsNewest`, `WalksBack`, `PrunedOldest`, `PruneStops`, `ParsedBack`, `ImportedOnce`, `SparksInRange`, `PageShowsText`, `HunksLikeGrep`, `CutHonest`, `ToldBack`, `DiffRight` | 0.29 M |
| `sync_lost_export` | SyncLostExport (MCSyncLog) | `ExportComplete` — violated | |
| `echo_erase` | EchoErase (MCEcho) | `LineReadBack` — violated | |
| `migrate_race` | MigrateRace (Migrate) | `VersionTracks` — violated | |
| `stats_range` | StatsRange (Stats) | `SparksInRange` — violated | |

What each shows, and why its bounds are enough:

**sync_crowd**: two exporters on machine 1, one importer on machine 2, two commands,
rows fetched one at a time, up to two records to a segment, one death anywhere.
This is enough for overlapping segments (one exporter writes 1-1, the other 1-2), a
mark that goes *down* (the slower exporter saves last), a re-run after a crash
between any two writes, deletions of older rows during an export. The exporters
are interchangeable (symmetry). *Shows*: neither mark ever passes a record that is
not where the mark says it is.

**sync_crowd_import**: two importers in one database that also has shell-history
rows. *Shows*: two imports that overlap do not skip, insert each record once, and
take over nothing that was not recorded there; the scheme refines
`ReplicatedHistory`.

**sync_live**: one exporter, one importer, torn files, one death, two commands.
*Shows*: a record gets there, if nobody deletes it first. `MaxId = 5` leaves room
for an id to be used, so the bound never stops the recorder.

**index**: two scenarios in one run. `Crowd`: two processes, two ids, two times, an
old binary, one death, all operations; otherwise one process at work, three rows
over two ids, two deaths. Two ids are enough for an id to be given out again and
for a prune to end between two rows of the same time. *Shows*: table and index
agree unless one of the documented causes of drift has happened, and again after a
reindex; a redaction that overlaps nothing leaves no secret in row or index.

**rec_sessions**: two scenarios. `emitters`: all 5 snippets x 7 integrations that go
together, both hook orders, two commands of each ordinary kind (one line, two lines,
unreadable echo, ignored, `exit`), an empty cycle, background output, shell death
anywhere. `pauses`: three commands, since off-work-on takes three, with full-screen
programs that may die on the alternate screen, and the terminal going away.
`MaxPending = 0` makes the recorder keep up with the shell; since the shell never
looks at the recorder and the recorder sees only the queue, a longer backlog gives
the same entries. *Shows*: each command has one entry, with its own output,
directory and code, whatever marks came twice or not at all, and with its own text if
the stream tells it; the entries of no command have no output.

**echo_line**: a screen six columns wide, lines of up to six characters in two rows
with a continuation, a right prompt at least three columns away, an absolute cursor
move. Six columns make every line that matters wrap at least once. *Shows*: what is
read back is the line that was accepted, and nothing for one killed.

**tools**, one part to a behaviour. *Buffer*: every way of cutting 20 bytes into
chunks of up to 7, for heads of 0, 1, 3 and rings of 0, 1, 2, 3, 5 bytes: each ring is
lapped several times, by chunks shorter than it, just as long, and longer. *Feed*:
see above. *Exec*: two bytes on each stream, a straggler, one signal, the grace period
ending at any time after the child. *Hangup*: three chunks, the hangup at any time, and the close at any time after it. *Migrate*: files of every version, two processes that die and come back, one
at a time below version 2 (`AloneBelow`). *Upgrade*: two upgrades, versions 1 and 2,
on Unix at once. No shared state, so no behaviour is missed by stepping one part.

**readers**, likewise. *Timeline*: three ids, two times and the unknown one, two
texts; `PruneToSize` runs over rows of one text without notes (it reads neither;
`Plain`) and has two rounds (`Rounds`), so that the last one is reached, with rows
arriving between them. *History file*: three entries over
two seconds, all formats. *Stats*: three commands over a range of words, `Half = 128`
and 12 buckets. *Functions*: all inputs of 4 tokens for `Ansi` (and of 3 after four
beginnings that leave the walk inside a sequence or a line overwritten), 7 lines for
`Grep`, 12 bytes for `get_output`, 4 tokens for `Unquote`, 8 lines in both texts
together for `Diff`, with one and two context lines. Three rows are the least among which a newest, an oldest and
one in between differ; the off-by-one mutants show within these lengths.

`CHECK_DEADLOCK FALSE` is set where the system stops: a session ends, a stream is
over, an input is complete. In the sync and index models somebody can always go
on, and deadlock is checked.

Every property of a passing run has a mutant in `PROJECT.json`: a plausible bug in a
mapped definition under which the run finds the property violated.

### Fairness

`FairSpec` (sync_live) has weak fairness on each process's whole export or
import, and on delivery of each machine's files to each other machine. The code
does not schedule itself: `backscroll sync` is run by hand or by cron, and
docs/sync-design.md leaves copying to Syncthing, Dropbox or a git remote. The
assumption is that both are done again and again. Deaths are bounded, so at some
point a run is not interrupted. Recording, deleting, pruning and tearing of files
are not assumed to happen, nor to stop.

`Exec!Fairness`: the goroutines of the process run, the timer of `WaitDelay` goes off,
and a destination takes or refuses what it is given. Nothing is assumed of the child
or of stragglers: `ExecReturns` starts where the child is gone.
`Hangup!Fairness`: the read loop and the timer run. Nothing is assumed of the shell,
which may ignore the hangup and write for ever.

## 4. Proofs

### SyncLogProofs

For all values of the constants that satisfy `SyncAssumption` (any finite or
infinite sets of machines and processes, any capacities, in-order or reordered
delivery, torn files, any number of deaths):

* `TypeCorrect`: `Spec => []TypeOK`. `TypeOK` is inductive by itself.
* `FaithfulCorrect`: `Spec => []Faithful`: a log holds what its owner recorded,
  and a machine holds of another one what that one recorded. `Faithful` is not
  inductive: a segment is made from rows an exporter read earlier, and an inserted
  row from records an importer read earlier. `Sound` adds where each of these
  copies comes from: local rows are in the journal (`LocalRowsRecorded`), exporters
  hold local rows only (`ExportersHoldLocal`), what has been delivered is faithful
  (`ViewsFaithful`), what an importer holds is of the machine it is reading
  (`ImportersHoldForeign`).
* `Refinement`: `Spec => ImplementsPromise` provided `~DeleteNewest`. Journals only
  grow upwards because a new id is above all ids in use and the newest row is never
  deleted; `Numbering` is the invariant that says so, and that an importer's database
  holds at most one row per number. Without the proviso it is false (see
  `SeqIncreases`, section 6).

* `ExportCompleteHolds`: `Spec => []ExportComplete` provided `~DeleteNewest`, the
  proviso without which `sync_lost_export` refutes it. The mark of a database only
  passes what is logged (`MarksLogged`), since what a live exporter will save as its
  mark is covered by the log and by what it has in hand (the invariant `Marks`): rows
  it fetched, the segment it builds, rows above.
* `NoGapHolds`: `Spec => []NoGap` provided also `InOrder`, without which
  `SyncReorder.cfg` refutes it. An importer skips a segment that ends at or below its
  mark; so the directory it lists must show a prefix of the log, and what it has in
  hand must account for every row up to where it is (the invariant `Imports`). The hard case
  are overlapping segments of two exporters: `1-1` and `1-2` may both be there.

Structure: one lemma per process kind (user, export, import, synchroniser), one
step per action in it, and one per conjunct the action touches.

### StoreIndexProofs

For any processes, texts, ids and bounds:

* `TypeHolds`: `Spec => []TypeOK`.
* `NoDriftHolds`: `Spec => []NoDrift`. Between the statements of an operation the index
  and the table do differ. `Owed` (`OwedBy` of some process) says by what, and whose statement is due: a
  row that `AddCommand` has inserted and not posted, rows that delete, prune or redact have
  unposted; each such row is the business of one process. With nobody at work nothing
  is owed. `trust` excludes what breaks this: a death between the two, an old binary,
  an upkeep command that overlaps another operation; a reindex that runs alone
  restores it.
* `ScrubbedHolds`, `ScrubbedAloneHolds`: redact leaves no secret in row or index,
  for one process without rows of older binaries, whatever died before. The index need not
  agree with the table then; but it never holds more than the table does, and
  while an operation is at a row the index holds nothing of it.

### RecorderProofs

For any set of snippets, integrations and kinds of command, any number of commands and
pauses, any backlog between shell and recorder (`RecorderAssumption` only types the
constants):

* `TypeHolds`, `AttributionHolds`, `CompleteHolds`: `Spec => []...` of each.
* `PausedNotStoredHolds`: provided no kind of command switches recording in its midst
  (`"script" \notin Kinds`; with it `RecScript.cfg` refutes the property).
* `KeptIfWritableHolds`: of `SpecScenarios`, whose `emitters` scenario has no failing
  writes; `ScenariosAreRuns` says that its behaviours are behaviours of `Spec`.

None of them is inductive, since shell and recorder are a queue apart. The proof runs
the recorder ahead: what it *will be* once it has read all that is in the queue
(`Now`) is a function of the state, and is in step with the shell (`Synced`: between
commands, at a prompt, inside command n, after it). What the shell writes in one action is one
of a few sequences of tokens (a prompt cycle, the start of a command, its end, text, a
toggle); for each there is a lemma that says where it leads a recorder in each
position (`Leads`), by classes: tokens after which nothing changes, those that open a
command, that name it, that close it. That gives the end of the queue. But the
recorder may be made to stop at any token (the terminal is gone), so that every state
on the way matters too: `Good` says that what is stored there is right, and would be if the
loop ended there. `ShellInv` has what the shell itself keeps (the current command is the last one,
the switch of recording at each moment of the history, the alternate screen). A step
of the shell appends to the queue and keeps what is ahead; a step of the recorder
takes the head and leaves `Now` as it is.

### EchoProofs

For every width and height of the grid, any words, right prompt and bounds
(`EchoAssumption` only types the constants):

* `GridOKHolds`, `KilledNotReadHolds`: `Spec => []...` of each.

A step of the editor writes a sequence of tokens, and `Feed` is a recursive function
along it. `Replay` says what such a function is, `Induct` that there is one, and
`FeedKeeps` the principle the rest is built on: what each token keeps, a sequence of
them keeps. `Screen` types the grid (rows of `Width` cells, at most `MaxRows`, the
cursor on it); that `Apply` stays within it is the bulk of the proof, control by
control. `KilledNotRead` needs to know where the replay is: at a prompt it is open
(`Open`: it reads input, on the main screen) and what the editor draws (`Plain`
tokens, and a full-screen picker that leaves as it came) keeps it so; the `^C` that
the terminal echoes makes the replay give the line up for good (`Over`).

### ToolProofs

**The capped buffer.** For all sets of capacities, chunk lengths and streams (`CapsAssumption`: they are
natural numbers, zero included):

* `CapBufTypes`: `Spec => []TypeOK`, in particular that the start of the ring never
  leaves it.
* `TwoCopies`: `Spec => []AtMostTwoCopies`.
* `HeadAndTailHold`: `Spec => []HeadAndTail`.

None of the three is inductive: between two segments of a write the ring holds part
of a chunk. `Ring` says what it holds then: the fill is what has passed the head, up
to the capacity (`Filled`); read from its start, the cells hold the last bytes
copied so far (`Recent`); the head is the beginning of the stream (`Headed`); and
after one copy of two, the ring is full and starts at cell 0 (`Twice`). What makes it
inductive is that the start only leaves cell 0 once the ring is full: a segment
(`RingSegment`) either fills free cells upwards, or replaces the oldest bytes at
the start, in which case reading from the new start goes round once (`Round`, the
only arithmetic of `%` that is needed).

**The parser.** For any `MaxSeqLen` and `EchoCap` (`ParserAssumption`: they are natural numbers):

* `ChunksSplit`: in any state of the parser, a chunk of any length has the effect of
  its two pieces, wherever it is cut.
* `FeedChunkInvariantHolds`: `SpecTools => []FeedChunkInvariant`, from it and from the
  type of the parser (`ParserTyped`).

The parser of the whole and that of the second piece differ in what they remember: text not
yet passed on, buffers that are no longer read, output not yet handed over. `Twins` says
when two parsers will do the same from here on, `Same` that in addition their events,
with adjoining output joined, show the same (`Shown`). `SameGoesOn` is the heart: a byte
keeps `Same`. It goes by what a byte does (`TextPasses`, `OscEnds`, `SeqPasses`,
`NoneEnds`). The echo is where cutting could matter, as the cap drops it as a whole:
`EchoAddPieces` says that adding two pieces drops it exactly when adding both at once
does. `SeqInduct` carries this along a chunk of any length.

**Tools.** Each part of `ToolParts`, for any bounds:

* `UpgradeInstallsHolds`: any number of upgrades that race, die and roll back.
* `HangupStoresReadHolds`: the command that is open at a hangup is stored with all that was
  read before the PTY was closed, whenever that is.
* `ExecMirrorsHolds`: whenever the grace period ends. The invariant goes by
  phase (`PhaseInv`) and, for each stream, by what its copier has in hand (`CopierInv`).
* `MigrateOnceHolds`: provided `AloneBelow >= 2` (with less, `migrate_race` refutes it), for
  files of versions 0 to 4. What a transaction has done so far is a function of where
  it is and of the version it began with; the version that a process read before it holds
  only while nobody else may commit, which `AloneBelow` gives below 2, and above
  which a second run of a migration fails on its first statement or finds nothing to do.

### ReaderProofs

**The timeline.** For tables of any size and any bounds (`TimelineAssumption` only types the constants):

* `SearchIsNewestHolds`: `Spec => []SearchIsNewest`, the merge of two lists that have been
  cut before.
* `WalksBackHolds`: `Spec => []WalksBack`, that is `GetCounts` and `PrevSameWalks`.
* `PrunedOldestHolds`, `PruneStopsHolds`: `Spec => PrunedOldest`, `Spec => PruneStops`, for
  any number of rounds.

The state's invariant (`TimelineInv`) is little more than types. The matter is in the
order: `Newest` chooses for each position the row with that many newer ones (`Rank`),
so that there must be one (`NoRankMissing`: ranks are below the number of rows, and no
two are alike). A cut list is then the rows of low rank; `TopSame` says that cutting a
set and cutting any part of it that still has those rows give the same list, which is
what `Search` does, and `PrevSameSteps` that the previous run has the next rank.

**Cuts, hunks, sparklines.** These are functions of an input, and their properties hold of
every input made of the part's tokens; that a behaviour's input is (`ReaderTypes`) is the
invariant that carries them into the run.

* `CutHonestHolds`: `SpecReaders => []CutHonest`, by the place of the first and last newline.
* `HunksLikeGrepHolds`: `SpecReaders => []HunksLikeGrep`. The spans are built match by match;
  after each, they are apart, and cover the lines near the matches so far. The marks are
  set by an index that advances over the matches: what it has passed is what lies before
  the line it is at, since both lists ascend.
* `SparksInRangeHolds`: `SpecReaders => [](SpansFit => SparksInRange)`, for words of any
  width, any number of buckets and commands (`SparkAssumption` only types them).
  `SpansFit` says that two starts are so close that their difference times `sparkBuckets` is
  a word: 24 years for the code. Without it the property is false, as `stats_range` shows.

### TextProofs

Of outputs, command lines and histories of any length:

* `PageShowsTextHolds`: `SpecReaders => []PageShowsText`. `Strip` and `Render` read the same
  bytes in lockstep (`Together`): at each iteration they are at the same byte, what the page has flushed
  shows what lies before the start of the last line, and the segments of its line hold
  what comes after. A page is well formed as long as the depth returns to 0 with each flush.
* `ToldBackHolds`: `SpecReaders => []ToldBack`. What the emitter writes of a text is the
  concatenation of what it writes of each character (`Spread`). A reader that is at the
  beginning of such a piece, in the right kind of quotes, comes to its end in as many
  iterations as it takes and has then read the character (`ReadsEach`); the pieces of each emitter are
  gone through one by one. Characters are distinct tokens, and the ones an emitter escapes are those that its
  reader would take for something else.
* `ImportedOnceHolds`: `SpecReaders /\ []ParsedBack => []ImportedOnce`, under two conditions.
  `~WithinSecond`: the shell does not trim between entries of one second, for which `hist_trim`
  refutes it. `MaxEntries <= 1000`: `seqFor` counts up to 999 within a second. `[]ParsedBack`
  stays with TLC, and with it the five parsers; the theorem is about what comes after them. The invariant
  (`HistInv`) says that what was trimmed is of seconds of which nothing is left in the file, so
  that an entry has the same number in each import as among all entries typed
  (`NumberedAlike`), and that the rows are those entries under those numbers (`Sourced`,
  `Covered`); numbers tell timed entries apart (`SeqTells`), so that rows can be counted.

`FoldLemmas` has the inductions: an iteration count is a natural number, and a set of
numbers with 0 and every successor is all of them (`NatInduction` of the library takes an
operator and cannot be used, but its instance for membership in a set can be proved
once); recursive functions on `0..n` and concatenations are then unfolded step by step.

### Only model-checked

* Liveness, which is out of the prover's reach: `EventuallyShared`, `ExecReturns`,
  `HangupFlushes`.
* `LineReadBack`: it compares an interpreter of escape sequences with an editor that
  writes them, over every history of edits.
* `DiffRight`, `ParsedBack`: they compare Myers' search with its backtracking, and the
  parsers of five formats, with a second definition, over texts and files the walk through
  which is not one byte after the other; the inductions of `FoldLemmas` do not fit them as
  they stand.

## 5. Plan

Theorems worth having next: `DiffRight`, `ParsedBack`.

Worth modelling still: the one-shot flags of `backscroll.bash` under its DEBUG trap;
`.tmp` file and rename apart in `SyncLog`, and `sync init`.

## 6. Where code and documentation disagree

Listed in `PROJECT.json` with a run each:

* `sync_lost_export`: after an export, delete the newest row; the next command takes
  its id, which is at the export mark, and is never exported.
* `echo_erase`: nothing unmarks a row that text once wrapped onto; after it has been
  erased row by row, the next line of the command is joined to the one above.
* `migrate_race`: two processes that open a database of version 1: the second, having
  read the version before the first migrated, lowers `user_version` again and then
  fails, and so does every later open.
* `stats_range`: with commands more than 24.4 years apart the product in the
  sparkline's bucket wraps around, and the index leaves the slice.

Stated in the modules, with a configuration of their own that TLC refutes, but not
among the listed runs:

| property | cfg (module) | what happens |
|---|---|---|
| `NoGap` | SyncReorder (MCSyncLog) | a later segment delivered first makes the earlier one be skipped for good, although "out of order can never corrupt anything" (synclog.go:11) |
| `SeqIncreases` | SyncLostExport (MCSyncLog) with `PROPERTY SeqIncreases` | one number for two commands; docs/sync-design.md:68 says "strictly increasing" |
| `SegmentsImmutable` | SyncRewrite (MCSyncLog) | an export re-run after a crash and a deletion replaces a segment; docs/sync-design.md:60 says "immutable once written" |
| `NoResurrection` | SyncResurrect (MCSyncLog) | a death inside a segment, a deletion, and the next import brings the entry back; synclog.go:417 says "re-importing is a no-op" |
| `Scrubbed` | IndexRedactOld (MCStoreIndex) | the old text of a row without `plain_z` stays in the index after redact |
| `Scrubbed` | IndexRedactRace (MCStoreIndex) | redact between the two statements of `AddCommand` |
| `DeletesWhatIsPosted` | IndexRedactRace (MCStoreIndex) with `Procs = {p1}`, `MaxCrashes = 1` | FTS5 is told to delete what was never posted; store.go:832 says it must not be |
| `PlainIsOwn` | IndexRefill (MCStoreIndex) | a reindex fills `plain_z` from output it read before another process changed the row |
| `KeptAtEnd` | RecStdout (Recorder) | a chunk is written to the terminal before it is parsed; when the terminal is gone it is not parsed, so the entry lacks output that had been read; docs/how-it-records.md:58 has the order the other way round |
| `PausedNotStored` | RecScript (Recorder) | `off` and `on` in one command line: what is between them is stored, since the pause is looked at when the command ends |
| `IgnoredNotStored` | RecIgnore (Recorder) | an ignored command whose text nobody tells is stored without a name |
| `NoWrongName` | RecGarbled (Recorder) | a background job writes while the user types, under an integration that does not tell the text: what is on the grid is stored as the command (record.go:257); docs/echo-reconstruction.md:161 says "a wrong command in the database is strictly worse than an unlabeled one" |
| `OutputUntouched` | Tools (MCTools) with `INVARIANT OutputUntouched` | the grace period ends before the copiers have taken what the child wrote: the rest is neither recorded nor shown; exec.go:37 says "Output passes through untouched" |
| `PruneFits` | Readers (MCReaders) with `PROPERTY PruneFits` | the last round (the eighth in the code, store.go:864) leaves the file too large and ends; store.go:855 and the man page (backscroll.1:221) have it delete until the file fits |
| `DiffPatches` | Readers (MCReaders) with `INVARIANT DiffPatches` | an empty range is printed with the number of the line after it (diff.go:198: `@@ -3,0 +3,1 @@` where `diff -U0` has `-2,0`), so that `patch` puts the lines elsewhere; diff.go:111 says "unified diff" |
| `GivesUpQuietly` | EchoInsertLine (MCEcho) | CSI L with the cursor below the last row slices past the end (echoline.go:437) |
| `LineReadBack` | EchoLine (MCEcho) with `Clearance = 1` | a right prompt less than three columns from the text is read as part of it (echoline.go:559) |
| `ImportedOnce` | HistTrim (HistFile) | a file trimmed inside a second: the entries left get other numbers, and one is lost or stored twice (histimport.go:40) |

## 7. Not modelled

* Formatting and front ends (list, show, export, pick, the web page, man pages,
  completions, the tables of stats): they keep no state and print what a query
  returned. `serve.go` and `mcp.go` answer one request at a time from the queries,
  hunks and pages that are modelled; routing, the token, JSON-RPC framing and tool
  schemas are not.
* Encryption, compression, JSON, SQL syntax, FTS5's tokenizer: used as whole.
* ConPTY, raw mode, window size: system calls.
* `sync init` and `sync status`, the search for history files, Atuin's and Nushell's
  databases, the ignore file, the patterns of redaction (which rows hold a secret is
  a choice).
* bash's DEBUG trap: which commands bash calls it for is known of bash alone; the
  snippet is modelled by the marks it writes when its flags do what they say.
* Packaging, demo and site scripts are not part of the program.
