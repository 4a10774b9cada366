# Verification of checkpointctl

checkpointctl is a command-line tool for the archives that container engines
write when they checkpoint a container with CRIU. It shows what is in them
(`show`, `inspect`, `memparse`, `list`), compares two of them (`diff`) and turns
one into an OCI image (`build`). It runs plugins, executables named
`checkpointctl-*`, as subcommands of its own.

This directory holds TLA+ models of the program, TLC configurations that check
them on small instances, and proofs for the TLA+ proof system (TLAPS) that hold
for any instance. `PROJECT.json` lists the components, the runs, the source
lines of every definition, the hazards and the theorems.

    tlc -workers 2 -config MCCheckpointTasks_one.cfg MCCheckpointTasks.tla
    tlapm CheckpointTasksProofs.tla

## 1. The system

checkpointctl keeps no state between runs and starts no goroutine of its own.
What makes it hard is what surrounds it: archives that are gigabytes large and
that other programs replace, temporary directories that must not survive, child
processes, a pipe that it writes and reads itself, global variables that are
replaced and put back, and map iteration in random order.

| Component | Source | State | Operations |
|---|---|---|---|
| Task life cycle | `internal/utils.go`, `internal/container.go` | one temporary directory per archive, the `[]Task` of the caller | `CreateTasks` (stat, scan for `checkpoint/`, `MkdirTemp`, `UntarFiles`), `CleanupTasks` |
| Commands around it | `cmd/show.go`, `inspect.go`, `memparse.go`, `diff.go` | flags (package globals), report in memory, stdout | collect, render, print; `memparse --pid` extracts pages a second time |
| Capture of JSON in `diff` | `cmd/diff.go` `getTaskJSON`, `internal/json.go` | `os.Stdout`, `internal.PsTree`, a pipe | replace stdout by a pipe, render, put back, read once, parse |
| Comparison in `diff` | `cmd/diff.go` | two maps per kind of item, result lists | flatten, compare processes, files and sockets, summary, marks of the tree, the lines of the view |
| `build` | `cmd/build.go`, `internal/oci_image_build.go` | a buildah container, a temporary directory, annotations | buildah `from`, `add`, `config`, `commit`, `rm` |
| Plugins | `cmd/plugin.go`, `checkpointctl.go` | `seen`, the discovered plugins, cobra's command list | walk PATH, ask for a description (500 ms), register, look up, execute |
| Collecting and rendering | `cmd/inspect.go`, `internal/container.go`, `json.go`, `tree.go` | flags, process tree, lists of files and sockets, in memory | flags to required files, open images, walk the processes, JSON, tree, table |
| memparse's output | `cmd/memparse.go`, crit's `mempages.go` | hexdump's `prevAscii`, `isDuplicate` | hexdump of every pagemap entry, search chunk by chunk |
| `list` | `cmd/list.go`, `internal/config_extractor.go` | the table, one temporary directory at a time | glob, extract two dumps, add a row or log |
| Metadata library | `lib/metadata.go` | JSON files | read, write, format sizes |
| `FormatTime` | `internal/utils.go` | none | format times |
| `DiffTasks` and its views | `internal/diff_types.go` | two maps of tasks | compare; no command calls it |
| CRIU image reader | `vendor/.../go-criu/v8/crit` | none | vendored: decode images, process tree, memory |
| Command line | `checkpointctl.go` | cobra's commands | run one command |

How they interact: every command first goes through plugin discovery in `main`.
A command that reads archives calls `CreateTasks` with the files it needs,
defers `CleanupTasks`, renders from the directories and, for sizes and pages,
from the archives again. `diff` calls `CreateTasks` twice, then runs the JSON
renderer of `inspect` with stdout redirected, parses the two documents and
compares them. `list` goes its own way: it extracts the two dumps of one archive
at a time through `ExtractConfigDump`. `build` uses `UntarFiles` for the dumps and leaves everything else
to buildah.

What is hard, and what makes each component correct:

- *Task life cycle.* Archives change between four separate opens; `CreateTasks`
  may fail at any archive and returns nil tasks; commands run in parallel in one
  TMPDIR; removal fails; signals kill. Correct: directories are private, what is
  printed is what was extracted, errors leave no partial answer, directories
  survive only where the code cannot remove them, every command ends, but for a
  `diff` that waits in its pipe.
- *Capture.* Writer and reader are one goroutine. Correct: nothing is cut off,
  stdout and `PsTree` are put back on every path, only the answer is printed,
  the program ends.
- *Comparison.* Map order is random, keys may collide. Correct: each item is
  reported exactly once in the right list, and the printed tree says no more and
  no less than the lists, also where a checkpoint has no process tree.
- *Reports.* The list of files to extract and the readers of these files are
  kept apart and meet through the flags; children come in random order; zombies
  have no images; processes, files and sockets are filtered by different tests.
  Correct: a report fails only for what the archive lacks, shows the processes
  asked for, each once, and every file with its process.
- *memparse.* State crosses rows, entries and chunks; the pages file is extracted
  apart from the pagemap. Correct: a dump has every row at its address or fails,
  a reader of the compact dump gets every row back, a search finds what is there.
- *list.* Archives vanish under it, earlier commands left directories. Correct:
  every file is in the table or list says in the log why not, every row tells of
  one archive, no directory of others is read or removed.
- *Numbers.* Units change at boundaries, then the number is rounded. Correct: what
  is printed is the number, rounded.
- *build.* Five external commands fail independently; the archive is read twice;
  killing the builder does not kill buildah. Correct: nothing is left behind, the
  image is published at most once and success means it was published,
  annotations belong to the content.
- *Plugins.* Files change during discovery; the query is a race of the plugin,
  its descendants, the timer and the pipe. Correct: first on PATH wins, a
  plugin that stays is found whatever happens to the others, a name of `main`'s is
  never a plugin and any other word runs the first plugin discovered that begins
  with it, the user's command is reached.

## 2. The modules

| Module | What it is |
|---|---|
| `CheckpointTasks` | life of a command that reads archives, several invocations |
| `MCCheckpointTasks` | its values for TLC |
| `CheckpointTasksProofs` | all its safety properties |
| `DiffCapture` | the pipe between renderer and parser in `diff` |
| `DiffCaptureProofs` | all its safety properties |
| `DiffCompute`, `MCDiffCompute` | the comparisons of `diff`, `DiffTasks`, their views |
| `ImagePublish` | abstract: what `build` promises about the image store |
| `ImageBuild`, `MCImageBuild` | `CreateImageFromCheckpoint`, several builds on one store |
| `ImageBuildProofs` | all its safety properties, refinement of `ImagePublish` |
| `PluginDiscovery`, `MCPluginDiscovery` | discovery, query, registration, lookup, execution |
| `PluginDiscoveryProofs` | all its safety properties |
| `InspectReport`, `MCInspectReport` | from the flags to the rows of a report |
| `InspectReportProofs` | all its safety properties |
| `MemoryDump`, `MCMemoryDump` | dump of and search in a process's memory |
| `MemparseProofs` | all safety properties of `MemoryDump`, and the sizes of `Numbers` |
| `ListCheckpoints`, `MCListCheckpoints` | `list` |
| `ListCheckpointsProofs` | all its safety properties |
| `Numbers`, `MCNumbers` | `ByteToString` and `FormatTime` |
| `Reports`, `MCReports` | one run of a command: composes the five modules without processes of their own |
| `ReportsProofs` | all safety properties of `DiffCompute`; a run of `Reports` is one of each component |

### CheckpointTasks

One process of `Procs` is one invocation; `pc` is where its goroutine is. The
actions follow the calls: `Start` (cobra's argument check), `Stat`, `Scan`,
`Mkdir`/`MkdirFails`, `Open`, one `Untar` per tar entry, `UntarFails`,
`UntarEnds` (the loop of `CreateTasks`), `Collect` and `PrintReport` for `show`,
`inspect` and `diff`, `MemTable` for plain `memparse`, `MemPages`, `Dump` and
their failures for `memparse --pid` and `--search`, one `Cleanup` per directory,
`Exit`. `Kill` is a signal, `Replace` another program that touches an archive.

- An archive is a record: missing, irregular or a regular file with entries, with
  or without `checkpoint/`, intact or torn after its last entry. An opened file
  keeps the content it had: replacement is by rename, as engines do it. An
  archive that is still being written is a torn one that is replaced later.
- Files are grouped: `dumps` (`spec.dump`, `config.dump`), `images` (CRIU's
  `pstree`, `core`, `pagemap`, `mm`), `pages` (`pages-N.img`), `rootfs` (never
  extracted). A file's content is a version or `broken`.
- `inspect` is `inspect --ps-tree` and `diff` is without `--ps-tree-cmd`, the
  variants that need images. What flags, PIDs, formats and container IDs decide
  is the nondeterministic `Refuse`, and so is what `diff` makes of the JSON.
- `diff` may stop in its pipe: `BlocksInPipe` leaves it `blocked`, where only a
  signal ends it. When that happens is the subject of `DiffCapture`.
- The names of an archive's entries are taken to stay inside the directory:
  `UntarFiles` joins them to it as they are, and engines write no `..`.
- The scan for `checkpoint/` and the second extraction of `memparse --pid` are
  one step each: the program reads one opened file in them, and nobody else sees
  its effects before it is done.
- `owner`, `source` and `stuck` are histories that the properties need.

### DiffCapture

`getTaskJSON` for both checkpoints in `diff`, one action per statement that
matters: `StatPstree`, `OpenPipe` (its error is ignored in the code, so stdout
becomes a nil file), `Render`, `WriteChunk` (one write, as large as the pipe's
room allows), `RenderEnds`, `Restore`, `Read`, `Parse`, then `Compare`,
`PrintDiff`, `Cleanup`. Sizes are in abstract chunks; the real values are 64 KiB
for the pipe and 1 MiB for the buffer.

### DiffCompute

One behaviour per kind of item: processes, files, sockets, and the tasks of
`DiffTasks`. `Flatten` is one call of the recursive closure that flattens the
process tree, with its stack; `FileItem` one assignment to a map; `Find` one
round of a range over a map, in any order; B's map comes first, in `DiffTasks`
A's. `RefuseNil` is the error for nil lists. `Summary`, `Status` and `View` are
what `generateSummary`, `buildProcessStatusMap` and `renderTreeDiff` make of the
lists. A checkpoint without `pstree.img` has no process tree (`NoTree`): nothing is
flattened, and the view falls back to the lists even with `--show-unchanged`. A view
is the set of its lines: their order, which follows the random order of Go's maps,
is left out. So are a memory difference, which is one subtraction, the layout, and
environments, which the code never compares.

### InspectReport

The flags of `inspect`, `diff` and plain `memparse`, as `Expanded` by one
another, decide `RequiredFiles`; `Extracted` is what the archive has of these.
Each reader (`ReadInfo`, `ReadStats`, `ReadPsTree`, `VisitProcess`, `ReadFds`,
`ReadSks`) opens its own files and fails if one was not extracted, so a file that
nobody asked for shows as an error. `VisitProcess` is one call of
`buildJSONPsNode` or `traverseTree`, with children in any order, as the map in
crit's `ExplorePs` gives them. `Branch` is one call of `addPsNodeBranch`, whose
sort does not care for that order. An archive is a process tree with states, who has
sockets, whose environment has a variable without a name, and which groups of files
are missing. `ReportAssumption` asks for a forest: no process of `pstree.img` is its
own ancestor. `Below`, what a report of a process is about, is the smallest set that
has the process and the children of its living members.

### MemoryDump

`DumpRow` is one round of `hexdump`'s loop, with `prev` and `dup` as its
`prevAscii` and `isDuplicate`; `ReadEntry` is `GetMemPages` for a pagemap entry,
which also looks at the page behind the entry; `SearchChunk` one chunk of
crit's search. Memory is rows of bytes in pages of a file, and a pagemap entry
says which pages of the process follow one another in it. `MemoryAssumption` asks
that no page is in two entries (`PagesApart`): CRIU dumps each page of a process
once. It also leaves out the search for an empty pattern, which is no search: with
`--search ""` memparse dumps or prints its table. The file may be a page
short: the dump then fails, the search goes on with the next entry. A regular
expression is a string.

### ListCheckpoints

`Glob`, then for every file `MakeDir`, `ExtractDumps`, `ReadDumps`, `RemoveDir`,
`ListFile`, with the failure of each, and `PrintTable`. `KillList` is a signal,
`ReplaceArchive` an engine that writes or removes an archive. A row holds the
contents of both dumps in place of its columns. A log line says who wrote it
(`LogLine`): `ExtractConfigDump` logs a file that it cannot extract, and `list` logs
every file that ends in an error, that one a second time. `was`, `globbed`, `before` and
`unremoved` are histories.

### Numbers

`ByteToString` and `FormatTime` as operators. What they print is the number it
says: a size in tenths of a unit, a time in microseconds. `Divided` is
`ByteToString`'s loop over `div` and `exp`. `Float64` rounds sizes above 2^53 bytes,
where float64 has gaps (`Spacing`), so that such a size is rounded twice; the
division is exact, since `div` is a power of two. `%.5g` may go either way at a tie.

### Reports

A run of checkpointctl is one command. `Init` picks it and starts its component
from any of its initial states while the others rest; `Work` is a step of that
component, `Meanwhile` what others do to archives and to the process. Since
only one component ever moves, each property of a component is checked on its
behaviours as in a run of its own; `RunsOfEach` proves it. What the composition adds
is `CommandEnds`, with one assumption of fairness for all of them. Of a command only its report is
here: the directories it reads from are in `CheckpointTasks`, and the pipe `diff`
puts in between is in `DiffCapture`.

### ImageBuild and ImagePublish

One action per buildah call and its failure, `MakeTemp`, `Extract` and
`RemoveTemp` for `getCheckpointAnnotations`, the loop over the annotations in any
order with failures that are only printed, the deferred `Remove`. `Kill` may leave
a running `buildah commit` behind (`orphan`), which may still happen
(`OrphanCommit`). `ImagePublish` keeps only targets, images, who published and
what users were told. The mapping forgets annotations, and reads the outcome
off `status` and `pc`: failure is told once `status` is `error`, success once the
deferred removal is done.

### PluginDiscovery

`ReadDir`, `NextDir`, `Entry`, `Stat` are the two loops of `DiscoverPlugins`;
`StartQuery`, `Timeout`, `EndQuery` are `getPluginDescription`; `PluginStep` is
what a plugin and a descendant of it may do; `Register` is one round of `main`'s
loop over the plugins, `Execute` what cobra adds when it executes; `Resolved` is
cobra's lookup; `RunCommand` the end. `InOrder` is the order in which `os.ReadDir`
lists names; the order of the plugins depends on it, and with that which of two
plugins gets a word that both begin with. `FirstWord` is cobra's `Name()`, the first
word of `Use`: `CommandOf` names a plugin's command by it, while `Shadows` compares
the name of the file, as `main` does. `steady` is a history: the plugins that never
changed.
`Change` replaces the files once at any moment. A directory of PATH that cannot be
read equals an empty one. Names are compared after the prefix is cut; a file
without the prefix is a name in `Unprefixed`.

External and modelled from use: buildah's store, the pipe's capacity, signals,
plugins, whoever replaces archives and plugins. cobra's lookup and
the parts of crit that are modelled are mapped to their vendored source.

## 3. The runs

| Run | Instance | What it shows |
|---|---|---|
| `tasks_one` | 1 command of any kind, 2 archives, 4 kinds of content, command lines of 1 or 2 archives, unlimited replacement | `FaithfulOutput`, `NoPartialAnswer`, `EveryRunEnds` |
| `tasks_two` | 2 commands of `show`, `memparse --pid`, `diff`, 1 archive, 3 directories | `TaskDirsPrivate`, `LeakedOnlyByFailedLoad`, `TasksStable` |
| `capture` | pipe 3, buffer 4, JSON up to 5 | `CompleteCapture`, `OutputRestored`, `OnlyTheAnswer`, `FittingDiffEnds` |
| `capture_large` | pipe 3, JSON up to 4 | violation of `DiffEnds` |
| `reports` | one command of any of the five components, see below | `FullDumpExact`, `CompactReadsBack`, `SearchExact`; `WholeArchiveReported`, `SubtreeReported`, `TreeReadsBack`, `FilesWithTheirProcess`; `RowsFromOneArchive`, `OneDirAtATime`, `NoFileHidden`; `DiffIsExact`, `ViewTellsDiff`; `SizeReadsBack`; `CommandEnds` |
| `compute_sockets` | the comparison alone | violation of `NewSocketsShown` |
| `dump_compact` | the memory dump alone | violation of `OnlyDuplicatesLeftOut` |
| `format_time` | the numbers alone | violation of `TimeReadsBack` |
| `build` | 2 builds, 1 archive, 1 image name, 2 containers, 2 annotations | `NothingLeft`, `ContainersApart`, `OneContent`, `PublishesOnce` |
| `build_annotations` | 1 build | violation of `AnnotationsApplied` |
| `plugins` | 2 directories, 7 names (two of two words), 1 change | `FirstInPathWins`, `SteadyPluginsFound`, `EveryNameResolves`, `PatientlyRuns` |
| `plugins_descendant` | 1 plugin | violation of `CommandRuns` |

Each module's type invariant is checked in the first of its passing runs, except
that of `InspectReport`, which is stated in `InspectReportProofs` and proved there.
The instance of `reports`:

- memory: rows of 2 bytes, pages of 2 rows, chunks of 2 pages; 3 pages in one or
  two pagemap entries, each of 5 contents: rows that repeat, that differ in
  unprintable bytes alone, that hold a `?` or a dot of their own, and patterns of 1 or
  2 bytes that lie in a chunk or across two; the file has all pages or
  lacks the last; processes of any state;
- reports: all combinations of the flags of `inspect`, with no PID, one of the
  tree and one that is not, `--all`, the flags of `diff`, and `memparse`; 4 processes
  that fork or form a chain, stopped, zombie or of a state without a name, some of
  them below others without state, with and without bad environments, and archives
  that lack any one group of files;
- list: 2 archives of 5 contents (two whole ones with a dump missing or bad in
  one of them, torn, gone), a replacement at any moment, 2 names for
  directories of which one is taken, an empty directory and a bad pattern;
- comparison: 3 keys, 2 details, 4 process trees or none, up to 2 items a side;
- numbers: a unit of 16 in place of 1024, float64s with gaps from half of the last
  unit on, all sizes to 600, those around every border and around quarters of units,
  where two tenths tie, up to the scale's int64, durations on both sides of theirs.

Why the bounds are enough. An invocation touches the others only through the
names of directories and an archive, so two invocations and one directory more
than one of them holds show every conflict; two archives on a command line are
the first and a later one, which is all the loops distinguish; four contents are
without `checkpoint/`, whole, torn, and one with a repeated name and
with images and pages that do not parse. Without a bound on `Replace` an archive
may differ at each of its opens; the first one then gives directories that lack
files, after a scan that found everything in order. Archives that are missing or
vanish are in `tasks_two`.
Pipe, buffer and JSON keep their order (pipe < buffer < largest JSON).
Two pages to a chunk and three pages make a full chunk, a short one and an entry
that is shorter than a chunk; runs of repeated rows begin and end within a page,
at its border and at that of an entry. Four processes give an inner process with
a sibling and a leaf below a process without state. One directory name that is
free while `list` runs forces it to give each back. Three keys are one on each
side and one shared. Two builders share everything
they can share, the image name included. Two directories of PATH are a first and
a later one. Symmetry (processes, directories, containers, annotations) is used
only in runs without liveness.

Deadlock is checked in the runs of `CheckpointTasks` and `ImageBuild`, where an
archive can always be replaced, so what it says is little. It is switched off in
the others: those programs end, and `diff` may block, which is a finding. That
`reports` ends where it should is `CommandEnds`: a component that got stuck would
violate it.

### Fairness

- `CheckpointTasks`: weak fairness of each invocation's own steps. The operating
  system schedules a started process and its system calls return, except the write of
  `diff` into a full pipe: `EveryRunEnds` lets a `diff` stay `blocked`. Nothing makes
  anybody start a command, send a signal or replace an archive.
- `DiffCapture`: weak fairness of `Next`, the one goroutine there is. A write that
  waits for room in the pipe is not enabled, so fairness does not free it.
- `PluginDiscovery`: weak fairness of checkpointctl's steps and of its timer, none
  of what plugins do or who installs them. `PatientlyRuns` states its own
  assumption: no descendant holds the pipe for ever.
- `Reports`: weak fairness of `Work`, the program's own steps; nothing of
  `Meanwhile`. A goroutine that computes or reads files goes on.
- `ImageBuild` has safety properties alone.

### What the code does otherwise than it says

- `capture_large`: `getTaskJSON` renders into a pipe and reads it only afterwards.
  JSON above the capacity of a pipe blocks `diff` for ever. The 1 MB buffer says
  that more was expected. `FittingDiffEnds` is what does hold.
- `compute_sockets`: the key of `compareSockets` has neither the source address nor
  the state. Of two sockets that differ in these alone one is lost, and a new one
  is reported unchanged. `DiffIsExact` shows the comparison right where keys are
  distinct.
- `dump_compact`: `hexdump` compares the ASCII columns of two rows, in which every
  unprintable byte is a dot, so rows of other bytes vanish as if they repeated.
  `CompactReadsBack` is what does hold: the ASCII column of every row is there.
- `format_time`: `FormatTime` trims zeros of a number without a fraction: 100 ms is
  printed as 1 ms, 10 s as 1 s.
- `build_annotations`: a failed `buildah config` is printed, and the build ends in
  success without the annotation that the documentation promises.
- `plugins_descendant`: the timeout kills a plugin, but `Output` waits for the end
  of the pipe, which a descendant may hold. Every command waits with it.

Met while modelling:

- A plugin whose file name has a space passes the check against shadowing, and
  cobra names its command by the first word. `checkpointctl-show x` is a second
  `show`, `checkpointctl-foo bar` next to `checkpointctl-foo` a second `foo`, and
  neither ever runs, though a comment makes a subcommand of every plugin
  (`checkpointctl.go:35`). `EveryNameResolves` is what does hold.
- A plugin named `help` or `completion` is registered before cobra adds its own, and
  a symbolic link to a directory counts as a plugin.
- `memparse --pid` takes pages from the archive as it is now, which may not be the
  one the images came from, and checks the state of the root process in place of
  that asked for. A search goes on without a word where the pages file ends early.
- `list` logs a file that cannot be extracted twice.
- `--ps-tree-env` speaks of environments in the diff, but `ProcessInfo` has none and
  only command lines are compared (`cmd/diff.go:53`, `:390`).

## 4. What is proved

Every theorem is checked by TLAPS for any values of the constants that meet the
named assumption of the module (`TasksAssumption`, `CaptureAssumption`,
`BuildAssumption`, `MemoryAssumption`, `ListAssumption`, `CompareAssumption`,
`PluginAssumption`, `ReportAssumption`, `NumbersAssumption`, `ReportsAssumption`); TLC evaluates these in
the runs.

**CheckpointTasks.** `TypeCorrect` (`[]TypeOK`) needs `Phase`: what `pc` implies of
the other variables, e.g. that `CreateTasks` has an archive left while it loads, and
that `collect` has a task left to look at; otherwise an index could leave its
sequence. `DirsPrivate` (`[]TaskDirsPrivate`) and `LeaksOnlyByFailedLoad`
(`[]LeakedOnlyByFailedLoad`) share an invariant: every directory an invocation
holds exists, is its own and differs from its others (`Private`); every directory
that exists is held by its owner, stuck, or excused by a kill or a failed load
(`Accounted`); the outcome is not decided while a command works (`Undecided`).
That other invocations are disjoint follows from `owner`, so the proof looks at one
process, the one that moves, and a lemma (`OthersKeep`) carries the rest.

What is in the directories comes on top. `StableTasks`
(`TasksStable`) needs only the invariant above: whoever writes to a directory or
removes one holds it, and nobody else does. `OutputFaithful`
(`[]FaithfulOutput`) and `NoPartialAnswers` (`[]NoPartialAnswer`) rest on an
invariant that follows the data: the directory in work holds the last of the
entries read so far (`Fills`, one lemma about `Extract` and one entry more),
those of the tasks hold all of the archive that was opened for their place on
the command line (`Loads`), so do the items that are collected and printed
(`Answers`), and the outcome says how many there are (`Outcome`). That
the archive is replaced meanwhile does not matter, because an opened file keeps
its content.

**DiffCapture.** `OneReadIsEnough`, `GlobalsRestored`, `AnswerOnly` and
`TypeCorrect` follow from one invariant. `Travelling` says where the JSON is
while it moves: what was written is in the pipe, which never holds more than the
buffer. `Parsed` says which documents are there and with which process tree.
`PipeCapacity <= ReadMax` is the only assumption that matters: 64 KiB and 1 MiB.

**ImageBuild.** `Apart` (`[]ContainersApart`), `TypeCorrect`, and `Refinement`:
`Spec => Publishing!Spec`. Its invariant adds `Phase` (who has published is done
or removing; only they report `ok`; nobody reports before the end) and `Loaded`
(the container holds an archive, the annotations come from a good one). Each
step maps to `Publish`, `Succeed`, `Fail`, `Kill` or a stutter. `LeavesNothing`
(`[]NothingLeft`) adds `Removed`: what is there is about to be removed, could not
be, was lost in a kill, or is a container of a name that another build was given
since. `ContentIsOne` (`[]OneContent`) adds `Dated`: which content was added, and
which one was read for the annotations, until the archive is replaced; of a
published image `Consistent` keeps what `Dated` said when it was committed.

**MemoryDump** (in `MemparseProofs`). `DumpTypeCorrect`, `FullDumps` (`[]FullDumpExact`) and `CompactDumps`
(`[]CompactReadsBack`), for any memory, row and page size. `TypeInv` bounds `pos` and
ties `addr` to it; `ModeInv` keeps the search away from the dump's lines; `FullInv`
says what the dump of the entry in work has so far. `CompactInv` needs more:
`CompactReadsBack` alone does not say that the next repeated row will find the
right line above its asterisk. `TailInv` does: what `hexdump` remembers (`prev`,
`dup`) is what the last lines say: the last line is the row read last or, if `dup`
holds, an asterisk below a row with the same ASCII column. `RowsAscend` (later rows
have higher addresses) lets a line that is appended leave earlier rows where their
reader finds them. `FullDumps` includes that a dump never ends in
success short of an entry.

`SearchesExact` (`[]SearchExact`) starts from what one chunk gives. `ChunkText`: byte
`i` of the buffer is what the process has at the address that the search computes
for it; that needs `PagesApart`, since `getPage` takes the first entry that has a
page. `ScanFinds`: what `FindAllIndex` returns are occurrences, in order, without an
overlap, and every other occurrence in the text overlaps one of them.
`SearchedInv` puts the chunks together. `Passed` says which places have been searched
as a whole: those of earlier entries and those that end before the next chunk
begins. Every result is an occurrence at such a place (`Sound`); later results are
further on (`Ordered`); and, as long as the file has had all pages, an occurrence at
such a place is covered by a result or crosses the border of two chunks
(`Complete`). That an occurrence which begins before a chunk and ends in it does
cross one needs that chunks begin at multiples of their size (`AtChunk`).

**Numbers** (in `MemparseProofs`). `SizesReadBack` (`[]SizeReadsBack`), for any unit from 8 on, any float
that is exact up to 20 units at least, and any size below eight of the largest unit.
`LoopEnds`: after its rounds the loop has the largest unit that the size has one of,
and `exp` is the place of its suffix, which is therefore in the string. `Spaced` bounds
the gaps between float64s, and with `Rounded`, for both roundings, the error follows.
Float64's share is less than a tenth of the unit in all (`10 * Spacing < div`), so the
number before the suffix stays at or below the next unit.

Both proofs are about recursive functions (`Offset`, `FoundFrom`, `Spacing`,
`Divided`). The provers may use the equation of one only if such a function
exists, and the library's theorem for that has an operator for a parameter. So its
existence is proved: by induction on how many places a function is right at, written as
membership in a set of numbers (`AllNumbers`), which itself follows from the least
element of a set (`SmallestNumber`). That takes functions whose domain is bounded, as
those of the modules are.

**ListCheckpoints.** `ListTypeCorrect`, `DirectoriesRemoved` (`[]OneDirAtATime`),
`RowsTrue` (`[]RowsFromOneArchive`) and `NothingHidden` (`[]NoFileHidden`), for any
archives, contents and number of replacements. `DirInv` adds that `dir` is not one of the directories from before;
`RowInv` that what is in `dir`, and then in `row`, came out of one whole content
that was at the path of the file in work: it follows the content from
`ExtractDumps` into the table, while the archive may be replaced at any step.
`Balance` counts: a file is as often queued, in the table and in
`list`'s lines of the log as it was found, with lemmas about how an element more or
less changes such a count. `LogRepeats`: a line of `ExtractConfigDump` is followed by
`list`'s line about that file, or that line is about to come. `LogTrue` says why a
file is on its way to the log.

**DiffCompute** (in `ReportsProofs`). `CompareTyped` (`[]CompareTypeOK`), `DiffExact` (`[]DiffIsExact`)
and `ViewFaithful` (`[]ViewTellsDiff`), for any trees, items and order of the
ranges. `ExactInv` says what the maps file of the items so far (`Filing`) and
that each list has the items of the keys that the ranges have been through and
that belong there, once (`Finding`). It needs no assumption about
keys; only that the maps then stand for the items does. `TreeInv` is the
argument for a traversal: what is listed or on the stack contains the root and,
for a listed process, its children (`Covers`), and lies in every set of processes
that is closed that way (`Within`); with the stack empty both together are
`ProcessesOf`. Without a tree the stack is empty from the start, and so is
`ProcessesOf`.

**Reports.** `RunsOfEach`: a run of `Reports` is a run of each of its five components.
The component that works takes one of its own steps, the others stutter, and at rest a
component is in one of its initial states, which takes that there is one
(`ReportsAssumption`). Hence every theorem about a component holds of the
specification that the run `reports` checks.

**InspectReport.** `ReportTypeCorrect` (types, and no reader opens a file that is
not to be extracted: the first part of the invariant), `WholeReports`
(`[]WholeArchiveReported`), `SubtreeReports` (`[]SubtreeReported`), `TreesReadBack`
(`[]TreeReadsBack`) and `FilesShown` (`[]FilesWithTheirProcess`), for any flags, any
forest of processes and any order of children. `AskedFor` compares, flag by flag,
what the readers open with what `RequiredFiles` lists; for files, sockets, command
lines and environments that needs what `Expanded` does to `psTree` (`FlagsInv`).
`WalkInv` says where the walk down the process tree is: `Traversed` splits the
processes into those visited and those to visit. Each hangs below a visited living
one (`Hangs`), none is there twice (`Once`), the children of the visited are known
(`Covers`) and all are below the start (`Within`). That the walk never comes back is
`NoReturn`: in a forest nobody known has one that is still to visit for a
parent. The tree is a second traversal, of the report's processes, with the same
lemma for its step; what it prints is followed by three more parts of `RowInv`.
`Indented`: whoever waits to be drawn will find its parent as the last line
above that is less indented, and nobody who waits is indented more than one that
comes sooner. `Ascending`: siblings ascend, on the lines, in the queue and across.
`Marked`: files and sockets are those of the lists, which `ListInv` knows.

**PluginDiscovery.** `TypeCorrect` (`[]TypeOK`) follows from `Loops`, which says where
the loops are at each `pc`. `FirstOnPath` (`[]FirstInPathWins`) rests on `SeenOnce` (a
name is seen when its plugin is discovered or about to be asked) and, as long as
nothing changed, `FoundFirst`: every name whose place the loops have passed is
seen (`PassedSeen`), so a name that is not is now at its first place. A change of
the files ends the second part and leaves the first. `SteadyFound`
(`[]SteadyPluginsFound`) holds across changes: a plugin that never changed is still
in its place (`StillThere`), is no directory in the listing (`SteadyListed`), and once
the loops have passed its place its name is discovered or about to be, there or
before (`SteadyKnown`). `NamesResolve`
(`[]EveryNameResolves`) rests on `RegistrationInv`: `main`'s commands are the
built-in ones, then the plugins whose files shadow none of these, in the order of
discovery (`Placed`), no two of one file; cobra appends its own. So the first command
of a word is `main`'s or that of the plugin discovered first. That the lookup
takes the first needs that a set of numbers has a least one (`LeastNatural`, from
the library's theorem on minimal elements).

Every invariant and every action property that the passing runs check is proved.
Only model-checked is liveness (`EveryRunEnds`, `FittingDiffEnds`,
`PatientlyRuns`, `CommandEnds`): TLAPS has no proof rules for fairness here. The
functions behind `FormatTime` (`Fifth`, `Trimmed`) have no proof either: the property
about them, `TimeReadsBack`, does not hold.

## 5. What is not modelled

- The fields of reports: `show`'s columns, mounts, annotations, networks,
  statistics. They are copied from images to the output and nothing depends on
  them. (Of the subnets of a network interface `getPodmanInfo` keeps the last
  address.)
- The sizes of archives (`internal/container.go`): sums over headers of one pass,
  whose opening and failure are in `CheckpointTasks`. They may be of another
  generation of the archive than the dumps and images; `FaithfulOutput` does not
  speak of them.
- Names of entries with `..` in them: see `CheckpointTasks`.
- `plugin list`: it runs discovery once more, with nothing left from the first time,
  and prints what that finds.
- The order of the lines of a diff: it follows Go's maps and differs between runs.
- Layout of trees and tables, JSON encoding, the syntax of regular expressions, the
  decoding of CRIU's images: whether crit accepts a file is an input.
- `WriteJSONFile` overwrites its file in place. No command calls it, and nothing in
  the repository says what a reader may rely on.
- Archives overwritten in place while they are read: engines rename.
- Environments in `diff`: the code has no field to compare.

## 6. Plan

The order was: life cycle of tasks first, because every command rests on it, then
`diff`, `build`, plugins; after that the reports, `memparse`, `list` and the numbers;
then the proofs, component by component, and last the composition. Of the plan
nothing is left. What could follow are the fields of reports (section 5) and, with a
prover that has rules for fairness, the liveness properties.
