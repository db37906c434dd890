# glippy in TLA+

glippy is a formatter, linter and fixer for Go with a language server. These
modules model the parts of it whose correctness depends on order: goroutines
that share a session or a pool, several programs that work on one file or one
cache, calls that fail half way, results that go stale. TLC checks them on small
instances; TLAPS proves their safety properties for every value of the constants.

    tlc -config LspSession.cfg MCLspServer     # one run; see the table below
    tlapm FileReplaceProofs.tla                # the proofs of one module

`PROJECT.json` lists the runs, the mutants that show each property can fail,
the source lines of every definition, and the hazards the properties are for.

## The system

| Component | State it keeps | Operations | What is hard, and what makes it correct |
|---|---|---|---|
| Language server session, `internal/lsp/server.go` | open documents, kept analyses, the running and the pending analysis, queued code actions and formatting, remembered cancellations, queued file changes | message handlers, `completeAnalysis`, `scheduleAnalysis`, `cancelRequest`, `Serve` | Three kinds of goroutine. Requests answered exactly once, about the document they were asked for; diagnostics only of what is open; no file change lost; one analysis at a time; cancellation and every end of the session |
| Language server backend, `internal/cli/lsp.go` | retained package results, changed files, a package session | `AnalyzeWorkspace`, `WorkspaceFilesChanged`, actions | Invalidation by changed files and by dependents, eviction at a bound, changes that arrive during an analysis |
| Snapshots and replacement, `internal/filesystem/replace.go` | a `Snapshot` (identity, mode, size, digest), a temporary file | `ReadWithin`, `Validate`, `Replace`, `CreateWithin` | Other programs between any two calls, failing calls, kill, power loss. Nothing overwritten that was not read, only whole files visible, truthful results |
| Format driver, `internal/cli/run.go` | tasks, prepared outputs, statuses of files | worker pool, prevalidation, sequential replacement, reports | Cancellation during dispatch, failure after some files were replaced: all prepared before the first write, disclosure complete |
| Fixes, `internal/fix`, and the lint driver, `internal/cli/lint.go` | selections, transactions, package analyses | `Coordinate`, `CoordinateAndReplace`, `runLintFix` | Conflicts, selections gone stale after a write, disclosure of partial work |
| Analysis cache, `internal/cache` | entries on disk, shared by processes | `Get`, `Put`, `Prune` | Link, remove and prune of other processes; corrupt entries; conflicts are never hidden |
| Package session and facts, `internal/analysis` | loaded package graph, facts | load, update, waves of facts | Reuse of stale types, fallback to the complete loader |
| Rules, formatter, source model, configuration, baselines, suppressions, changed scope, diff, reports, corpus and release tools | none, or none shared | pure functions of one input | Algorithms; some are worth a reference definition |

The session calls the backend from its analysis worker and from its main loop.
The backend loads packages through the package session and the cache. The format
and fix drivers read a `Snapshot` of each file, compute an output, and call
`Replace`; baselines and `config init` use `CreateWithin`. The server itself
never writes source files.

## Modules

| Module | Models |
|---|---|
| `LspServer` | `internal/lsp/server.go`: the session |
| `LspWorkspace` | `internal/cli/lsp.go`: the analysis of all open documents and the results it retains |
| `FileReplace` | `internal/filesystem/replace.go`: operations on one path, call by call |
| `AtomicReplace` | the contract of such an operation, which `FileReplace` implements |
| `CacheStore` | `internal/cache/store.go`, `prune.go`: goroutines of several processes on one cache directory |
| `FormatWrite` | `internal/cli/run.go`: `glippy fmt --write`, the worker pool and the replacement of the files |
| `FixCoordinator` | `internal/fix/coordinator.go`: which fixes of a file are applied, and what they make of it |
| `FixRun` | `internal/cli/lint.go`, `CoordinateAndReplace`: `glippy lint --fix` over several files |
| `MC*`, `*.cfg` | small instances of each for TLC |
| `LspServerProofs`, `LspRequestProofs`, `LspWorkspaceProofs`, `FileReplaceProofs`, `CacheStoreProofs`, `FormatWriteProofs`, `FixCoordinatorProofs`, `FixRunProofs` | theorems and proofs |

How they fit together: what `LspServer` asks of its backend, one analysis that may
be canceled and notifications of changed files beside it, is what `LspWorkspace`
does. What `FormatWrite` and `FixRun` take as the outcomes of a replacement (done,
stale and nothing happened, failed and perhaps done) are the outcomes `AtomicReplace`
promises and `FileReplace` is proved to keep. The reasons for which `FixRun` lets a
file be left alone are those with which `FixCoordinator` ends.

### LspServer

The reader goroutine is `Reader`: `Read` takes any message the client may still
send and queues it in `readResults`; `ReadCancel` handles `$/cancelRequest` at
once, beside the main loop. The main loop is `MainLoop`: `Selecting` is its
`select`, so an action of `Handle` (one per message), `CompleteAnalysis` (one
per outcome of `completeAnalysis`) or the end of the context is chosen freely
among those that are ready. An analysis goroutine is a member of `running`; its
steps are `WorkerBegin`, `WorkerFinish`, `WorkerAbandon` and `WorkerDrop`.

| State | Code |
|---|---|
| `status`, `ctxDone`, `inputOpen` | where `Serve` is, its context, `readResults` set to nil at the end of input |
| `reading`, `readResults` | the reader goroutine and its channel |
| `initialized`, `shutdown`, `watchingDynamicRegistration` and the rest of `sessionVars` | the fields of `server` of these names |
| `documents`, `analyses`, `published` | `server.documents`, `server.analyses`, and what the client shows as a result of `publishDiagnostics` |
| `analysisGeneration`, `analysisCancel`, `analysisPending`, `running`, `analysisResults` | the fields of these names (`analysisCancel` is the generation it cancels, 0 for nil), the goroutines of `startAnalysis`, the channel |
| `pendingWorkspaceChanges`, `notified`, `told` | the queue of file changes; history: how many changes of each file were handled and how many the backend was told of |
| `pendingAnalysisRequests`, `pendingCancellations`, `answers` | the fields of these names; the answers written |
| `cycle`, `call`, `asked`, `canceledIds` | code actions being served after an analysis, the request whose backend call runs; history: the document each request was about when it was taken, and cancellations accepted |

A handler is one step, because only the main loop changes what it changes. A
request that calls the backend is not: while it is served, the reader cancels and
workers finish. So it is `Begin` (`beginRequest`), `CheckRequest` (the first look at its
context), `CallBackend`, `BackendReturns` (the look after the call), `Respond` and
`FinishRequest` (the deferred `finish`), and the reader may run between any two of them.
A cancellation is honored while the handler will still look (`CheckAhead`); one accepted
after the last look is answered with a result, which `CancellationHonored` leaves out and
Findings tells. `completeAnalysis` serves the queued code actions after the
diagnostics are out, one such call each (`cycle`).

Left out: the wording of messages and the conversion of positions; parts of a
message that was written before the connection failed (a failed write ends the
session, `OutputFails`); the editor's answer to a registration
(`HandleResponse` ignores it as the code does). A notification the server does
not know, such as `$/setTrace`, is `HandleUnavailable` or `HandleUnknown`. The
document that triggers an analysis only picks the text of an error's position
and is left out. The closed channel and `io.EOF` lead to the same branch and are
one message, `eof`. The client never uses an id twice. The backend is external:
a call returns a result, an error, or the cancellation of its own context.

### LspWorkspace

`entries` holds the retained result of each package: its `view` is every content it
was made of, so a result is current when its view is what is there. `expected`,
`documents`, `directories` and `names` are what the code compares before it reuses
one. An analysis takes the pending changes, invalidates, tries each group, analyzes
what cannot be reused, captures the files and stores the results within the two
bounds; it fails or is canceled in between. `ChangeDisk` changes a file and
`FilesChanged` is `WorkspaceFilesChanged`, which may come late, not at all for
unwatched files, or overflow into "everything changed".

A document that does not load, or that no package rule is for, belongs to no group
(`apart`) although every load sees its text in the overlay. A result has the sources of
its own package, and those of what it imports only when a rule needs their syntax
(`WithDependencies`, `Parsed`): only these are compared with the disk, and only their
directories are listed.

What a reused result is current for is `Guarded`. The module files are; so is every source
the result has that no document hides, every document that belongs, or belonged, to a
retained group, and every other file of a package that is retained itself. The rest may
be stale: a document of a group that is not retained (evicted, failed, or in no group at
all), and a file of an imported package that is neither captured nor retained. A file that an
open document hid when a result was made is not compared with the disk after it is closed
(`overlaid`) unless its package is. `docs/editor-integration.md:121-123` limits the
invalidation to open reverse dependants and lines 123-126 speak of captured sources, which
is what is modelled.

The captured files are read after the packages were loaded, so a change between the
two is recorded as what the result was made of. A client that watches files tells
of it; without one the result may be stale. `ResultsCurrent` and `GuardedCurrent`
exempt exactly the paths that changed while the analysis ran and were not told of
since (`touched`). The typed package session below a load is taken to be exact;
`CodeActions`, formatting and the analysis of documents without a package keep no state and
are left out.
`docs/editor-integration.md:119` gives 256 MiB as the bound on accounted sources,
`lsp.go:36` has 128 MiB; the number is a constant here.

### FileReplace and AtomicReplace

`task[p]` says whether operation `p` reads and replaces, reads and validates, or
creates; `pc[p]` is the call it makes next. `entry` is the directory entry of
the path and `content` and `mode` belong to inodes, so a rename, a link, a write
in place, a swap for another file, a removal, a symbolic link and a chmod all
differ, as they do to `os.SameFile`, `Lstat` and `Open`. `validateCurrent` runs
twice in `Replace`, before and after the temporary file is made, as `CheckLstat`,
`CheckOpen` and `CheckBytes`; the second time `temp[p]` is present. Any call
may fail (`CallFails`), with the error the code returns: what the code wraps in
`ErrStale` is "stale", the rest "failed". `Cleanup` is the deferred `Remove`.

`entries` and `durable` hold what is on disk: until its directory is synced a
rename may be undone by `PowerLoss`, and until it is synced a file may hold
any part of what was written.

`unseen[p]` is history: the aspects of the path another program changed since
`p` made the call that looks at them. The code cannot close the window between
its last look and the rename, and `NoChangeOverwritten` says exactly how small
the window is; for `CreateWithin`, which links, there is none.

`AtomicReplace` knows neither inodes nor calls: one step installs the output,
one returns, and other programs change the path in steps of their own that are
counted, so that a step of an operation cannot pass for one of theirs. `Contract`
in `FileReplace` is the refinement mapping. `ErrStale` is what
`fix.CoordinateAndReplace` turns into "not-performed", no error into
"completed" and the rest into "possibly-completed": the contract makes these true.

Left out: hard links, inode numbers that are used again (the digest makes the
reuse harmless), temporary names that exist already (128 random bits, retried),
an editor's own partial writes, and reads that overlap a write in place. Path
resolution and size limits only add ways to fail before anything is written.

### CacheStore

A `Store` is of one process; `StoreOf` gives each goroutine its process. The lock
of a `Store` lets one `Put`, `Prune` or `Close` of the process in at a time, and
nothing excludes other processes. `entry[k]` is the file the key names, with who
published it and when; `temp[p]` is a publication temporary. `Put` loads, repairs
(removes what it found corrupt), writes a temporary, links it, and loads again when
the link fails; `Prune` lists the directory shard by shard, verifies, and evicts the
oldest beyond the two limits. `Kill` ends a process, `Spoil` ruins an entry on disk.
Left out: opening the directory, the digest that makes a key, the counters of
`PruneResult` except what remains. A load is one step, for it reads the one file it
has opened; every key has a shard of its own.

### FormatWrite

`fate` is what reading and formatting each file comes to. The pool is `Main` and
`Workers`: the main goroutine sends indices over an unbuffered channel or sees the
context end, closes the channel and joins the workers; a worker begins, reads,
formats and stores a result or an error. Then the error is selected, all outputs are
prepared, and the files are replaced in order, each after a look at the context. A
replacement has the outcomes `AtomicReplace` allows. It succeeds when the file was
still the one that was read, it reports a stale source, or it fails and leaves the file in
doubt. `Edit` is another program that changes a file before its turn (`edited`), and
such a file is never replaced. A stale source does not need one: a root, a file or a
directory that cannot be looked up or opened is reported as stale too
(`replace.go:252-254`, `269-271`, `324-327`, `334-337`). Nor does a success exclude a
change during the call, between the last look and the rename (`docs/spec/cli.md:609-612`;
`NoChangeOverwritten` of `FileReplace` says how small that window is). So `OutcomeTrue` ties
success to files that were not changed before their turn, and a conflict or a
cancellation to exactly the files before the one the run stopped at.
The outputs may fail in turn; `exit` is the code, what
the output names, and what it calls certain. Check, diff and standard input write no
file and are left out, and so is the wording of the reports.

### FixCoordinator

One file of `Length` characters, each with its place in the input, and a sequence of
selected fixes in their order; an edit deletes what it covers or puts one text of its own
there. `Prepare` refuses fixes one by one, and those that disagree on an import. `edits` is
a set: where the code sorts, `FirstEdit` and `LastEdit` say which one of those that are left
comes next. `Sweep` visits them in the order of their offsets with `active`, the replacement
that reaches furthest, and `insertions`; `Accept` collects the edits of the fixes that are
left and `Splice` makes them from the end of the file; `Conclude` is parsing, import editing,
formatting and the caller's validation, one step that succeeds or rejects every fix. Invalid UTF-8, a safety
that is none of the three and the checks on how an import is bound only refuse more fixes,
and are left out.

### FixRun

One file after the other. `basis[f]` is the set of files that held fixes of this run
when the selections of `f` were made, `result[f]` the same for the findings that will
be reported: a selection is fresh when `basis[f] = changed`. With package rules
(`packageMode`) a fix makes later selections `stale`; `Reanalyze` and `Refresh` come before the next
file, and `Final` once more before the report. The replacement is
`CoordinateAndReplace`: the coordination fails or finds nothing to do, the validation
ends the run, the file is replaced, is reported stale (as in `FormatWrite`, with or without
a change by another program), or is left in doubt. With `--diff` nothing is written, the
fixed texts become an overlay, and a file is looked at even when it keeps its text
(`PreviewStale`, `PreviewFails`). The text report of a run that comes to its end names no
fixed file (`docs/spec/cli.md:410-411`); that of a run that stops does, and so does
every JSON report. Those for GitHub and SARIF (the `integration` reporter) never do, which is
a finding: `ReportTrue` speaks of the other two, `CancellationReportsWrites` of all.

## Runs

| Run | Properties | Shows | Bounds |
|---|---|---|---|
| `lsp_session` | `TypeOK` `AnalysesCurrent` `SingleAnalysis` `Settled` `NewestAnalysis` `NoChangeLost` `NoRequestLost` `ActionsMatchRequest` `CancellationHonored` `PublishCurrent` `EndOfInputAnswersAll` | edits, file changes, code actions, cancellations, faults and foreign messages against analyses that run, are superseded and canceled | eight sessions of 4 to 10 messages and faults; 2 documents, 2 texts, 2 files, 3 ids, queues of 1 or 2; 0.6 million states |
| `lsp_live` | `RequestsAnswered` `DiagnosticsConverge` | under fairness every request is answered and diagnostics settle | 1 document, 1 edit, 1 file change |
| `lsp_cancel_overflow` | `CancelKeepsSession` (violated) | see Findings | memory of 1 |
| `lsp_workspace` | `TypeOK` `GuardedCurrent` `ChangesKept` | no guarded result is stale and no notified change is lost | 2 packages, one of which imports the other without its syntax, 3 files of which one's document may be in no group, 1 module file, 2 changes on disk, 1 changed file by name, 2 entries of 4 bytes; 2.9 million states |
| `lsp_workspace_stale` | `ResultsCurrent` (violated) | see Findings | the same with 1 entry, 1 change and the syntax of what is imported |
| `file_replace` | `TypeOK` `SuccessDurable` `NoTemporaryLeft` `NoChangeOverwritten` `InstalledWhole` `ImplementsContract` | two operations of any kind, another program, failures, kill, power loss | 2 operations, 1 change by another program, 3 contents, 2 modes; 1.2 million states |
| `cache_store` | `TypeOK` `OutcomesTrue` `NoOverwrite` `RepairSparesOwnStore` `PruneKeepsNewest` | what each operation says was so, no valid value is overwritten, a prune keeps the newest | 3 goroutines in 2 processes, 2 keys, 2 values, limits of 1 entry and 2 bytes, 1 spoiled entry |
| `cache_conflict` | `DifferentValuesConflict` (violated) | see Findings | the same, without prune |
| `format_write` | `TypeOK` `PreparedFirst` `FailureIndependent` `Disclosed` `OutcomeTrue` `Terminates` | the pool, the error it reports, disclosure, the end | 3 files of every fate, 2 workers; 0.5 million states |
| `fix_coordinate` | `TypeOK` `SweepFindsClashes` `AppliedWhole` | the sweep against a pairwise definition of a clash, the spliced file against a definition without order: what it is made of, and that it is in order | 4 characters, up to 3 of 28 fixes |
| `fix_run` | `TypeOK` `ReportTrue` `ReportCurrent` `FreshSelections` | stale selections, reports, partial failure | 3 files, 2 changes by other programs; 0.4 million states |
| `fix_disclosure` | `CancellationReportsWrites` (violated) | see Findings | the same |

Why the bounds are enough. Each of the `Sessions` gives the number of messages of each
kind, and TLC starts in all of them; the channels hold one message instead of
sixteen and the queues one or two entries instead of 1024, so that "full" and "over the
limit" happen within a few messages. With two documents, one is edited while the other is
analyzed; two generations are needed for one to supersede the other, and `didOpen`,
`didChange` and `didClose` give up to four; the two texts tell an analysis of the old text
of a document from one of the new. Two requests are needed for one to
fill the queue and one to find it full. In `file_replace` the second operation is itself another
program that renames or creates, so with `MaxEdits = 1` up to two changes meet
the first one; two of the three contents have one size, so the size alone does
not tell them apart. In `cache_store` two goroutines share a lock and a third does not,
which are the two relations goroutines can have. Retained results need an importer and an
imported package for invalidation to pass from one to the other, and one too many for
eviction; with two changes on disk and one changed file by name, the second change the client
tells of overflows into "everything changed", or meets the first while an analysis has it
taken. What each file may be in an editor (`Opened`) and may change to on disk (`Saved`) is
bounded so that each file differs in one way only: the imported one is open, closed, edited or
removed, its neighbour appears or disappears, the importer is edited, the module file
changes. Three files give a file before, at and after the one that fails or is
fixed, and fewer workers than files make a worker take a second index. A clash is between
two fixes; the third is the one a wrong sweep forgets. Ids, documents, files,
operations and goroutines that play the same part are symmetric where a cfg says so; the run
with liveness properties uses no symmetry.

Deadlock is not checked: a session ends, an operation or an invocation returns.

Fairness is assumed in two runs. `lsp_live`: weak fairness of the main loop and of
the analysis goroutines. `format_write`: weak fairness of the main goroutine and of each
worker. The Go scheduler runs every goroutine that can run, the
handlers and tasks have no unbounded wait of their own, and reads, formats,
replacements and backend calls are assumed to return. Nothing is assumed of the
client, the reader, other programs or the end of the context.

## Findings

`lsp_cancel_overflow`. `cancelRequest` remembers each cancellation whose request
is not in progress, also of requests that were answered, and forgets none of
them. When `maximumPendingCancellations` are remembered, the next cancellation of
a request that waits is an error and ends the session, although
`docs/spec/cli.md:141-143` says that canceling an active request must not. In practice
an editor has to send 1024 late cancellations in one session.

`cache_conflict`. Two processes find the entry of a key corrupt (`store.go:244`). One
removes it and links its value; the other, which found the same, removes that valid
entry and links its own. Both succeed with different values, although
`docs/spec/cache.md:55-56` wants a conflict. `RepairSparesOwnStore` shows that it takes
two processes, and `NoOverwrite` that no link ever replaces a value.

`lsp_workspace_stale`. The text of an open document of another package is neither
compared with the disk (`lsp.go:553`) nor, when that package has no retained result
of its own, with the documents (`lsp.go:743`). After an eviction or a failure a result outlives
the open text it was made of, against `docs/spec/cli.md:97` and `111-112`. `GuardedCurrent`
says what a retained result is never stale for.

`fix_disclosure`. A run of `glippy lint --fix` with the GitHub or SARIF reporter that is
canceled, or fails, after it replaced files names none of them: `reportLintFixFailure` hands
it to `reportIntegrationOutput` with the findings and the error only (`lint.go:2755`).
`docs/spec/cli.md:390-391` says that cancellation "reports earlier confirmed writes", and
`docs/decisions/0006-lint-fix-and-suppression-boundaries.md:132-133` that cancellation and
reporting failures disclose the replacements; neither makes an exception for a reporter.

Two more disagreements are not runs of their own. A cancellation that the reader accepts
after the handler's last look at its context (`server.go:1060` when there is nothing to call,
`1083`, `1180`) and before `finish` (`1207-1212`) is followed by a result, against
`docs/spec/cli.md:141-143`; the result is already on its way, and `LspServer` has the window
between `BackendReturns` and `FinishRequest`. And a file over the size limit counts as severity 5
when the error of the pool is selected but exits with 2 (`run.go:755`); before a file
that cannot be read, the invocation exits with 2 instead of 5, against
`docs/spec/cli.md:581-582`. `FailureIndependent` states the choice as the code makes it.

## Proofs

All theorems rest on the `ASSUME`s of the modules they are about and on nothing else.

`LspServerProofs` (finite bounds that are naturals, budgets of sessions that are
naturals, `Nil` outside the data sets):

- `TypeCorrect`: `Spec => [](TypeOK /\ CallReady)`. `CallReady` says that a request
  in progress is one that was asked, with its document remembered.
- `SessionCorrect`: `Spec => [](NoChangeLost /\ NewestAnalysis /\ AnalysesCurrent)`, and
  `FileChangesKept`, `KeptAnalysesCurrent` for two of them alone.
- `PublishesCurrent`: `Spec => PublishCurrent`, an action property.

The inductive invariant is `CurrentInv`, the conjunction of `TypeOK`, `CallReady`
and the three safety invariants. They need each other: that a publication takes
every handled file change into account follows from its generation being the
newest (`NewestAnalysis`); a new worker starts with all changes told only because
whatever was not told is queued behind the active analysis (`NoChangeLost`), which
`completeAnalysis` delivers and then reschedules; and a publication is of the
present text because each edit starts a generation. The proof has one lemma for
each part of `TypeOK` and each operator that several handlers share (`Schedule`,
`Start`, `RejectPending`, `QueuedChanges`, `Complete`), and then one step per action.

`LspRequestProofs` goes on from there (`SessionInv` is `CurrentInv` with two more parts):

- `OneAnalysisAtATime` (`SingleAnalysis`) and `SettledDiagnostics` (`Settled`);
- `RequestsKept` (`NoRequestLost`), `AnswersMatch` (`ActionsMatchRequest`),
  `CancellationsHonored` (`CancellationHonored`), `EndAnswersAll` (`EndOfInputAnswersAll`).

`WorkInv` follows the one analysis: there is one goroutine, or one result that waits, or neither
(`Alone`), and neither when no analysis is active (`Inactive`); a pending request is the newest
and waits for an older one (`PendingLast`); while documents are open, work that is not the newest has
a successor, in queued file changes or in the pending request (`Succeeded`). So whatever
a completion does not publish is analyzed again, and `Settled` follows when nothing is active.
`RequestInv` says where a request is: the places it can wait in (the channel, the queue behind the
analysis, the cycle, the call in progress) hold each identifier once, are disjoint, and are
together with the answered ones what was sent (`Placed`), so each handler moves a request from one
place to one other; those that wait were asked about the document that is open now
(`AskedCurrent`); and a cancellation accepted while the handler still has a check
ahead (`CheckAhead`) is remembered until the request begins and is then the end of its context
(`CancelMarked`); a later one may still be followed by a result.

`LspWorkspaceProofs`, for any packages, imports, files, documents and limits:
`TypeCorrect` (`TypeOK`, with the two bounds on what is retained), `ToldChangesKept`
(`ChangesKept`), `ReuseCurrent` (`GuardedCurrent`). `WorkspaceInv` follows a content from the
disk to a reused result. An entry compares with the disk whatever its result took from there, and
may miss only paths that changed under an analysis (`EntriesInv`, `Behind`); such a path is one
the client has yet to tell of or has told of (`ToldInv`). Once the next analysis has
invalidated, what it spared is open, retained and as it was (`InvalidInv`); so are the results, the
reused ones because everything they import was spared too (`ResultsInv`), and the entries that
will replace the retained ones (`NextEntriesInv`). Eviction needs that a set of entries within
both bounds exists: taking one after the other away ends, for they are finitely many
(`SurvivorsKept`).

`FileReplaceProofs`, for any number of operations, contents, modes and changes by
others:

- `TypeCorrect` (`[]TypeOK`, whose point is that what the path names is whole),
  `SuccessIsDurable`, `TemporariesRemoved`;
- `InstallsWhole` and `OverwritesNoChange`, the two action properties;
- `Implements`: `Spec => ImplementsContract`, the refinement of `AtomicReplace`.

The inductive invariant is `ReplaceInv`. An inode is `Public` when it is, or was, at
the path; every public inode is whole, and so is whatever a power loss may leave of it
(`PathsPublic`). A temporary inode is not public until it is installed (`TempPrivate`),
so preparing it disturbs nobody, and it is whole, synced and has its mode before
that (`TempReady`). For each operation there is what it has read and at which step
(`SnapPublic`, `SnapTaken`), what its last checks found unless `unseen` says somebody
changed it (`SourceChecked`), and that no entry a power loss may leave is older
than what it made durable (`EntriesNewer`). Steps come in three kinds that share a
lemma each: those that only read (`QuietStep`), those that prepare the temporary inode
(`PreparedStep`), and those of other programs (`ElsewhereStep`). The refinement then
needs no new invariant: each call is shown to be `Take`, `Install`, `Return` or
`Crash` of the contract or to leave all of its variables alone (`NextRefines`).

`FormatWriteProofs`, for any number of files and workers: `TypeCorrect`,
`AllPreparedFirst` (`PreparedFirst`), `ErrorDeterministic` (`FailureIndependent`),
`DisclosureComplete` (`Disclosed`), `OutcomesTrue` (`OutcomeTrue`). `WriteInv` says of the pool that every
index that was sent has a result, an error, or a worker that has it (`Accounted`), and of the
replacement that between two files what is written, what the run knows and what the statuses
say agree (`InStep`). The selected error exists because a set of naturals has a least member.

`FixRunProofs`, for any number of files: `TypeCorrect`, `SelectionsNeverStale`
(`FreshSelections`), `ReportsTrue` (`ReportTrue`), `FindingsOfFinalFiles` (`ReportCurrent`).
`RunInv` says that unless they are marked stale the selections still to come are from
an analysis of everything the run has changed, and that the statuses up to the file
at hand are what was done.

`CacheStoreProofs`, for any number of goroutines, processes, keys, values and limits (finitely
many keys, for the spoiled entries are counted): `EntriesWellTyped` (`TypeOK`),
`ValidValuesStay` (`NoOverwrite`), `OutcomesWitnessed` (`OutcomesTrue`), `OwnStoreSpared`
(`RepairSparesOwnStore`), `PrunesOldest` (`PruneKeepsNewest`). `CacheInv` has three parts beside the types: the lock lets no two
goroutines of a `Store` run together unless both read (`Exclusive`); a temporary
has the whole value of its own `Put` (`TempOwn`), so a link that succeeds publishes what
the `Put` was asked to; and a valid entry in the place of one that is about to be repaired
was published by another process (`RepairOthers`), which the lock alone can keep true.
What other goroutines see of a step is `Moves`, and one lemma (`MovesInv`) shows that a
step of one goroutine keeps the parts of the others. For `Prune`, `ScanInv` says that a key is
at one place of the scan, in a shard to be listed, among the names, listed, or a candidate
(`ScanShape`), and that unless something was published or spoiled meanwhile, every entry
behind the scan is valid and a candidate as it was listed (`ScanCovers`): when all shards are
read, no file is missing among the candidates that are sorted and counted. The bytes of a set of
files are a fold of the community modules, of which the proof shows first that its
recursive function exists (`SumExists`), then that a part is no larger than the whole
(`BytesMonotone`).

`FixCoordinatorProofs`, for a file of any length, any number of fixes and any edits they may
have: `TypeCorrect` (`TypeOK`), `SweepExact` (`SweepFindsClashes`), `AppliedExactly`
(`AppliedWhole`). `CoordinateInv` says of the sweep that the active replacement is one that was
visited and reaches at least as far as every visited replacement which the edits to come can still
meet (`SweepInv`), and that the fixes marked so far are those with a clash among the visited edits
(`FoundInv`). The step is one lemma for an insertion and one for a replacement: when an
edit clashes with any visited replacement it clashes with the active one, and that one, if it is
not the same, clashes with the other, whose fix was therefore marked before (`BothCover`).
`TextInv` then needs that no two edits of the accepted fixes clash: of two such the earlier
ends where the other begins, or before (`Apart`), so the edit made last is before all that
were made, what is in front of its end is still the input, and the splice adds its text and
takes away the characters it covers, no others (`EditedPieces`, `EditedInOrder`).

Only model-checked: liveness (`RequestsAnswered`, `DiagnosticsConverge`, `Terminates`), which is
out of the prover's reach. Every other property of the passing runs is a theorem. The modules
proved about have no recursive definitions. Where the code sorts, the model names what comes
next by a `CHOOSE`, and the proof shows that there is such a thing. Induction is by the least
counterexample (`LeastNumber`, `BySize`), because the induction theorems of the library take an
operator.

## Plan

What is left:

- The package session's generation counter (`package_session.go:127-220`): a load that ends
  after an invalidation must be neither stored nor returned.

## Not modelled

Components with status `not_modelled` in `PROJECT.json` have a reason each, and the
notes of those with status `partly` say what is left out. In
short: the rules, the type checker's loading and the formatter's translation of syntax
are sequential functions of Go syntax trees, which a model could only restate; parsing,
rendering and discovery are data and I/O; the corpus runner and the release tools
are not part of the shipped program. These are most of the source: a rule, a printer of a
syntax node or a decoder is long and keeps no state between calls, and a model of it
would be the same code in another notation. The share of lines the modules stand for is
therefore small, and it is the share in which several actors meet.

The package session is the one component with state and concurrency that has no module: what
decides there is whether an incremental type check equals a full one, which is a property of
`go/types`; the few steps around it are in the plan.
