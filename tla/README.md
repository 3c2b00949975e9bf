# A TLA+ model of freemkv-engine

freemkv-engine turns discs into images and MKV files. Most of what can go
wrong in it goes wrong over time: a pass is stopped, a mount hangs, the process
dies, the next run resumes from what the files say. These modules state what the
engine promises there, check it with TLC on small instances, and prove with
TLAPS, for every size, the part that matters most.

Paths below are relative to the repository; line numbers are those of the
modelled commit. `PROJECT.json` maps every definition to its lines.

## The system

| part | source | state it keeps | model |
|---|---|---|---|
| sweep and patch passes, their consumer threads, the mapfile commit | `recovery/mod.rs`, `sweep.rs`, `patch.rs`, `mapfile.rs` | the image, the mapfile on disk, the map in the consumer's memory, the queue, the revocation flag, the commit lock | `Capture` (two threads and the files); `Sweep` and `Section` (what the producers read) |
| mapfile ranges | `mapfile.rs` | sorted byte ranges with a status, running statistics | `Ranges`, which `Sweep` shows to implement `SectorMap` |
| copy dispatch, the multi-pass loop | `mod.rs` `copy_titled`, `multipass.rs` | passes so far, what the last one found, wedged, halted | `Recovery`; its promotion also in `Capture` and `Sweep` |
| read-error policy | `read_error.rs` | retry counters, jump multiplier, wedge count | `ReadPolicy`, driven by `Sweep` |
| section recovery | `patch.rs`, `section_recover.rs` | still-bad ranges per tier, handler walks, dead and wedge streaks | `Section` |
| decrypted-name rename | `names.rs` | the undo file, the image's directory sectors | `NamesUndo` |
| cancellation | `engine_halt.rs`, `run.rs`, `mux.rs` | Stop inputs, sticky flag, bridge and watcher threads | `Titles`; one flag in the other modules |
| verified remux | `remux.rs` | partial file, lock, target | `Publish` |
| title loop | `mux.rs` | titles done, failed, skipped | `Titles` |
| planner, selection, streams, preflight | `plan.rs`, `selection.rs`, `streams.rs`, `preflight.rs` | none | not modelled (pure) |
| keys, image opening, speed, metadata, drive, reporting | `keys.rs`, `image.rs`, `speed.rs`, `metadata/`, `drive*.rs`, ... | none that another part reads | not modelled (wrappers, HTTP, display) |

`plan.rs` takes the artifact lock of the image and calls `multipass.rs` or
`run.rs`; those call `copy_titled`, which runs a sweep (`sweep_linked`) or a
patch (`patch_linked`). A pass opens the mapfile and the image, moves both into
a consumer thread (libfreemkv's `Pipeline`), reads the disc on the calling
thread and sends what it learns through a bounded queue. At the end it closes
the queue and joins. The passes of one recovery share nothing but the files,
and, when a join gave up, the consumer thread that is still running. After the
last pass the multi-pass loop promotes what is still damaged to `Unreadable`,
`names.rs` renames the decrypted files in the image, and `mux.rs` or `remux.rs`
writes the titles.

What is hard here: two threads of one pass, threads of several passes, a kill
between any two file operations, images that change between runs, failures of a
write, an fsync or a rename, a Stop that must end a wait on a hung thread. What
makes each part correct:

* passes: the mapfile never promises data the image lacks (`SavedBacked`,
  `CompleteHonest`, `ClosedDurable`), never forgets recovered blocks
  (`ConfirmedKept`, `NewestWins`), and every pass ends (`StopReturns`, `PassEnds`);
* ranges: every operation equals its per-sector definition, statistics included
  (`Implements`), in one gapless list of maximal runs (`Sweep`'s `TypeOK`);
* dispatch and multi-pass loop: no promotion after a Stop, no loss unreported
  (`GivenUpAtEnd`, `HonestVerdict`, `CleanTrue`), no image of two discs or modes
  (`OneSource`, `OtherDiscKept`), nothing recovered is lost (`ProgressKept`), no
  false "complete" (`CompleteTrue`), and every run ends (`RunEnds`);
* read-error policy and section recovery: bounded work per block (`SweepEnds`,
  `EndsAnyway`), no sector left without a verdict, no verdict on a sector that was
  not tried (`SweptTrue`, `Accounted`);
* rename: at every crash point what the passes have not lost of the image is the old or
  the new one, or its undo file says how to get back (`OldOrNew`), and a reported rename
  lasts (`RenamedTrue`);
* cancellation and titles: a cancel reaches the work, watchers end with it
  (`StopAndWorkEnd`, `NoneAfterStop`), outcomes are true (`OutcomeTrue`, `FailedGone`);
* remux: nothing unverified under the target's name, nothing verified lost
  (`TargetWhole`, `OwnFile`, `KeptStays`, `ForeignStays`, `ResultTrue`, `NothingLeft`),
  and it returns (`RemuxEnds`).

`PROJECT.json` lists the hazards behind these, each at its line.

## Capture

`Capture.tla` is one disc image of `N` blocks, its mapfile, and up to `MaxPass`
passes over it. Correspondence:

| variable | in the code |
|---|---|
| `held`, `ilen` | which blocks of the image hold the disc's data; the file's length |
| `stable` | blocks of `held` that a power loss would leave (set by `sync_all`) |
| `saved`, `writer`, `lock` | the mapfile on disk, who wrote it, `with_commit_lock` |
| `cur`, `kind`, `fresh`, `prod`, `todo`, `halt`, `end`, `res` | the newest pass: its producer's position, regions left, the halt token, the `CopyResult` |
| `pc`, `site`, `item`, `queue`, `mem`, `dirty`, `due`, `disowned` | per pass: where its consumer is and why it writes the map, the item in hand, the channel, `Mapfile` with its `dirty`, `persist_due()` and `disowned` |

Actions follow the code in order. Opening a sweep: `StartSweep` (the resume
decision), `Unlink`, `OpenMap`, `CreateMap`, `OpenImage`, `SetLen`, or `OpenFail`;
a patch opens in one step, `StartPatch`, since it changes no file before its
consumer exists. The producer: `Produce`, `DoneReading`, `HaltSeen`, `Abort`,
`ConsumerGone`, `Stall`. The join: `Join`, or `Abandon`, which revokes the map.
The consumer: `Take`, `Write`, `WriteFail`, `FillStopped`, `Sync`, `Record`, then
the mapfile write in its three observable steps `Acquire` (lock, first look at
the revocation), `TmpDone` (temporary file, second look) and `Rename`;
`DropSink` is the drop of a failed consumer, whose map flushes itself; `Close`
the end of the queue. From outside: `Tick` (a flush interval passes), `Stop`,
`Kill`, `CutImage`, and `Promote` (`multipass.rs`).

Abstractions. A block stands for a range the passes treat alike; its content is
"the disc's data" or not. `NonScraped` is never written by the engine and is
folded into the damaged statuses. The gates that compare the map's identity,
mode and size with the job end in a fresh sweep or a refusal: `StartSweep`
chooses a fresh sweep freely, and a refusal changes nothing. A power loss is not
an action; `stable` says what one would leave, and `ClosedDurable` is about it.
The mapfile's temporary file and directory fsync are one step with the rename.
Left out: progress snapshots (`StatsRequest`), outputs that are no regular file,
images longer than the disc, mapfile scopes, and a damage jump's gap fill, which
is one fill per block here. `Promote` loads and writes in one step. `CutImage`
happens only with no consumer alive: it is what a user does between runs.
The artifact lock admits one pass at a time, so passes of other processes
appear as further passes after a `Kill`.

`MCCapture.tla` adds a VIEW that forgets what a consumer had in memory once it has
ended and a newer pass exists: nothing reads it any more.

### Runs

| run | instance | question | states |
|---|---|---|---|
| `resume` | 2 blocks, queue 2, 3 passes, nobody abandoned | do the map and the image stay in step through failures, Stops, kills, cut images, promotions, and does every pass end? | 0.8 M |
| `abandon` | 1 block, queue 1, 2 passes, joins may give up | does Stop return, and does a late writer stay off the newer map? | 0.5 M |
| `unsynced`, `stalemap`, `latefill` | as small as the case allows | three claims of comments and tests, refuted | violations |

Why these bounds: two blocks let one be good while another is filled, queued or
promoted; two queue slots let an item wait behind the one in hand; three passes
allow a sweep, a patch and a resume. Abandonment is a matter of two passes: the
abandoned one and the one that took over; `stalemap` and `latefill` need a third to
have something to lose. `resume` was also run with 3 blocks, queue 1 and with 4
passes (6.7 M and 4.5 M states) without an error.

Fairness. `Spec` assumes of the engine that a pass that can see Stop sees it
(`HaltSeen`: `send_bounded` and every pause poll the token) and that a join ends
one way or the other (`Teardown`: `finish_with_halt` has a window). Nothing is
assumed of the consumers: they may hang in a write for ever, and `StopReturns`
holds all the same. `LiveSpec`, for `PassEnds`, adds that reads return and that
consumers run: no mount hangs. What `resume` checks of safety does not depend on it.
Neither assumes that a Stop comes, or a tick.

## Recovery

`Recovery.tla` is one image path over a sequence of runs: each has a disc in the
drive and a set of options (`Jobs`), and is either the multi-pass loop
(`multipass.rs` `recover`) or one dispatched copy (`copy_titled`, used by the CLI's
`one_pass` and by `single_pass`). Where `Capture` looks inside one pass, here a
pass is its opening decisions, one step per block, and how it ended.

| variable | in the code |
|---|---|
| `map` | the mapfile: its disc identity, its raw/decrypt stamp, a status per block; or none, or one that does not parse |
| `img`, `ilen` | what each block of the image holds (a disc in a mode, or zeros); its length |
| `drive`, `job`, `runs` | `disc`, `MultipassOpts` with the job's mode and titles, runs so far |
| `pc`, `resume`, `attempt`, `passes`, `last`, `scope`, `halted` | where the run is, and `recover`'s locals of those names (`last`: `last_good` and its siblings; `scope`: `mux_scope_bad`) |
| `todo` | blocks the patch pass has yet to settle |
| `stop` | where the run was when Stop was pressed (the code only sees that it was) |
| `faulted` | whether a patch pass of this run ended on a transport fault (the loop forgets it) |
| `res` | the result: `MultipassResult` or `CopyResult`, severity reduced to Clean or not |

Actions: `StartRun`; `Dispatch` (`copy_titled` from its first look at the map);
`OpenSweep` (the gates on identity, mode and length, removal or resumption, the
stamps), `SweepBlock`, `SweepEnds`, `SweepFails` (with the host's retry); `LoopTop`
(cap, Stop, convergence), `OpenPatch`, `PatchBlock`, `PatchEnds` (the exits at the
bottom of the loop), `PatchFails`; `Verdict` (the halted exit) and `Promote`
(promotion, loss gate, result). From outside: `Stop`, `Kill`, `LoseFiles`.

Abstractions. What happens between two file operations is `Capture`'s subject: a
pass here writes image and map together, an opening is one step, and writers
outlive no pass. A sweep goes through its blocks in order, a patch in any order.
Lost playback is a number of blocks, the tolerance too; a title whose extents are
unknown has no blocks. Of the damage tiers only Clean is kept. The end of a sweep
needs every block tried: skipped sectors of an unsettled rename are left out, as
are staged images (scoped maps), maps without identity or mode, which older
versions wrote, and discs of another capacity, which the gates treat like
another mode. The map may fail to be read wherever the code reads it, and to be
saved where the promotion saves it.

### Its runs

| run | instance | question | states |
|---|---|---|---|
| `recovery` | 3 blocks, 2 discs, 3 runs, six option sets | are the results true and the files consistent, through Stops, kills, lost files, changed discs, modes and options? | 0.6 M |

The option sets are those the front ends use: the engine's defaults for an ISO, the
CLI's two copies (one of them raw), the server's (two sweep attempts, carry on
after a failed patch or a wedge, resume decided by the host), a tolerant raw rip,
and one whose title has no extents. Three blocks let one be recovered, one damaged
and one not yet tried, and let a title of one block differ from the disc. Three
runs allow a first run, a change (disc, mode, options, lost files), and a run that
trusts what the second left; two discs are enough to confuse them.

Fairness: `WF_vars(Run)` for `RunEnds` only. A run is a thread; each of its steps
waits at most for a drive command with a timeout, or for a join with a window
(`Capture`'s `StopReturns` is about the latter). Nothing is assumed of Stop, of how
a read ends, or of the host.

## Ranges, the read policy and the sweep

`Capture` says what becomes of an item once it is sent; these modules say what a
sweep sends.

`Ranges.tla` is the run list of `mapfile.rs`, as operators: `Created`, `Loaded` (a
foreign map with gaps), `Record` (the splice: `Window`, `Pieces`, `Coalesced`) with
`Recount` (its incremental counters), `Promoted`, and the arithmetic passes plan with:
`Merged`, `Intersected`, `Subtracted`, `Snapped`. Bytes are counted in units, several
to a sector, because a foreign map's ranges may end inside a sector. The code's lists
are sorted and their ranges disjoint: a list is the set of its runs here, its order that
of their positions, and what coalescing leaves of the runs of one status are the
longest ranges (`RangesOf`) of the units they cover.

`ReadPolicy.tla` is `read_error.rs`: `ForSweep`, `OnSuccess`, and `HandleReadError`, which
gives each class of failure its action (retry, skip, jump, abort) and the counters
afterwards. Pause lengths and counters that are only logged are left out; good reads
are counted up to `ZoneWindow` only. A sweep's fast-jump threshold is 1, so every
failure that is skipped jumps, and neither the damage window nor the outer counter
of a patch context decides anything.

`Sweep.tla` composes them into passes over one map. `map`, `counts` and `scope` are
`Mapfile`'s fields; `job` is `SweepOptions`; `todo` the regions not yet begun, `region` what
is left of the one being read, from the cursor on; `ctx` the `ReadCtx`; `slow` the drive's speed; `open` is a history
variable, the sectors the pass was to read. `Begin` plans a pass (resume, scope, skipped
ranges), `NextRegion` takes the lowest region and snaps it to sectors, as the loop over
`regions` does; then one action per answer of the drive: `ReadGood`, `ReadRetried`,
`ReadSkipped`, `ReadJumped`, `ReadAborts`, `ReadFails`; and `JumpCutShort`, `SendFails`,
`Halts`, `Completes`. From outside: `Stop`, and `GiveUp` (the promotion). Any block but a
region's last may be cut short: the unit grid of an encrypted file is libfreemkv's.
An item is recorded when it is sent.

`SectorMap.tla` is the abstract specification: a map is a function from units to
statuses whose counters are computed anew, a pass rewrites whole sectors to Finished or
NonTrimmed, and only sectors that had, when it began, a unit it was asked for and
nobody had tried. `Implements` is the refinement, checked and proved: `status` is the status of the run
that holds the unit, `scope` the units within the scope, `counts` the counters as `stats`
corrects them. It fails if a splice loses a byte, if a counter drifts, if a jump leaves
its region, or if a resumed or scoped pass touches a sector that was settled. Two
untried ranges in one sector make it read twice by one pass, hence "when it began".

| run | instance | question | states |
|---|---|---|---|
| `sweep` | 5 sectors of 4 units, blocks of 2, one retry of each class, 2 passes | does the run list stay a true map, and does a completed pass leave nothing untried? | 102 k |

The maps: a new one, and two a foreign tool left, with gaps and ranges that end inside
sectors, two untried ones in one sector. A mapfile whose last line ends elsewhere than
the disc is swept afresh by the code (`MapFilesAssumption`); one with overlapping lines
is refused (`Loadable`). The scopes: all, or four extents that overlap and share
sectors, one past the end of the disc; `Limit` bounds how far. Five sectors hold a
block, a jump past it and a jump the region cuts off; two passes are a sweep and its
resumption. Fairness: `WF_vars(Step)` for `SweepEnds`, that is, reads and sends return.
`SweepEnds` is about the retries: the retry counters of a block are reset by a success
and by what is no retry, never by a retry of another class. (The comment at
`read_error.rs:55` says "on any other response"; the code leaves the count alone on a
bridge retry, and a mutant that resets it loops for ever.)

## Section recovery

`Section.tla` is a patch pass over damaged ranges: `PatchCtx::run` (largest range
first, tiers breadth first, or one flat chain), `recover_section`, `run_handlers` and all
six techniques. A section begins as one range and only loses sectors, so its
still-bad ranges are the maximal runs of a set.

| variable | in the code |
|---|---|
| `bad` | the `SubRanges` of each section |
| `written`, `residue` | sectors sent as `Recovered`, as `NonTrimmed` |
| `tier`, `sec`, `pc`, `todo` | where `run` and `run_handlers` are; handlers of the chain left |
| `h` | the running handler's locals: ranges left (a bisection's stack), offset, phase, failures, the island it grows |
| `dead`, `wedge`, `speed` | `unproductive`, `wedge_streak`, `cur_speed` |
| `stop`, `latch` | the op's cancellation; the pass latch a chain reads it from |
| `chain`, `ended` | the `HandlerOutcome`; how the pass ended |

`Wanted` is the span a handler reads next, `After` where it is afterwards; `ReadGood`,
`ReadBad`, `ReadWedge` and `ReadEnds` are the outcomes of `read_span_as`, each with the
whole effect on streaks, bad set and sink; `HandlerHalts`, `HandlerYields` (dead streak
or deadline) and `HandlerDone` end a handler. `LeaveSection` is the tail of
`recover_section`: the fatal error first, then the residue, then the report, then
the outcome. Scores are measured rates: `NextHandler` takes any order. The clock is
free: a deadline passes at any check, or never. FUA and timeouts change only how a drive
answers, which is free too. The disc's capacity is known here; with a source that does
not know it, an oscillation primes past the end as well.

| run | instance | question | states |
|---|---|---|---|
| `section` | sections of 2 and 4 sectors at the ends of a disc of 8, batches of 2, yield after 3, wedge abort after 2 | is every sector accounted for, and does the pass end? | 1.0 M |

The rosters are shorter than the code's (`build_tier_handlers`), which has the same
techniques several times with other read parameters: two scouts, one sweep, three
specialists, each technique once. `SectionAssumption` says that the damaged ranges share
no sector, as those of a map whose entries end on sectors do: `PatchCtx::run` snaps each
range on its own (`patch.rs:847`), so two ranges of a foreign map that share a sector
would make two sections that share it. Such passes are outside this module; `Sweep` has
the foreign maps. Four sectors let a bisection find an island, halve at its edge and
keep two ends, and a jump skip something; a yield above `JumpAfter` lets it jump at all;
the wedge streak of two spans sections. Fairness: `WF_vars(Step)`, reads and sends
return; no deadline is assumed, so `EndsAnyway` says that the walks themselves are
finite.

Where a Stop makes the sink drop a span it says Ok; the span leaves the bad set and
the comments (`section_recover.rs:165`, `patch.rs:55`) say the chain ends Halted. If it
was the last bad sector the chain ends Complete, and it is the report behind it that
ends the pass halted. Without a progress reporter (`mode.reports` false), the pass then
counts as complete; the map still has the sector damaged. `Finishes` says exactly that.

## Decrypted names

`NamesUndo.tla` is the rename of the directory of a decrypted image (`names.rs`): each
of `Pages` is a sector and its mirror. A sector's content is the set of versions its
bytes come from, so that a torn write is a set of two.

| variable | in the code |
|---|---|
| `img`, `safe` | the image's directory sectors; what a power loss leaves of them at worst |
| `done`, `owed` | sectors the mapfile calls Finished; those of them saved with no sync of the image since |
| `hurt`, `stale` | history: Finished sectors a pass has lost again; the image was begun beside an older undo file |
| `undo`, `usafe` | `<image>.names-undo`: pending or committed, the old bytes, the sectors it filled; and what a power loss may bring back |
| `late` | the sector an abandoned consumer has yet to write |
| `pc`, `caller`, `todo`, `back`, `said` | where the rename or the settling is, who asked for it, sectors left, what was reported |

A run: a pass starts (`StartFresh`, `StartResumed`), settles what an earlier rename left
(`Settle`, `Restore`, `Reset`, `Drop`), reads (`ReadSector`; `SaveMap` behind a sync or
`SaveUnsynced` with a fill's record; `PassEnds`, or `Abandon` and a `LateWrite` of data or of a
fill's zeros); then the rename: `Plan`, `WriteUndo`, `Write`, `Sync`, `Verify`, `Mark`,
`Commit`, `Dropped`. `Kill` and `PowerLoss` strike anywhere, and every step may fail.

| run | instance | question | states |
|---|---|---|---|
| `names` | 1 page and its mirror, 4 runs, 2 discs | are the names old or new at every moment, and does a reported rename last? | 146 k |

Four runs allow a first rename, a crash, a settling that crashes too, and a run that
trusts the result; `names` holds for 6 runs, and for two pages with 2 runs. There is
no liveness here and no fairness. Saving the map syncs the folder and so makes the undo
file's removal or creation last. A lost map makes the pass fresh. An image replaced
by one of another length has its undo file dropped and is not a case here.

Findings 1 and 3 below reach this part: a sector saved as Finished with no sync may be
blank or torn after a power loss, and an abandoned fill may zero a sector that a
resumed pass has recorded. Both happen here, and no rename can bring such a sector back:
it is neither old nor new. `OldOrNew` speaks of the Finished sectors outside `hurt`, which
holds exactly those two kinds, until a pass reads the sector again or a plan finds the
disc's names in it. What it does say of the rest is that such a sector spoils nothing
else: the rename does not take place while a Finished directory sector is not what it
should be, no rollback spreads it, and from the plan on nothing is lost any more. A
rename that follows a pass comes behind that pass's closing sync, so that `owed` is
empty there. `RenamedTrue` has no such exception.

`OldOrNew` also leaves out images begun while an earlier image's undo file was still there
(`stale`). The comment at `names.rs`' caller (`mod.rs:962`) says such a file "no longer
matches the new image, and settling drops it"; ripping the same disc again gives an
image that does match, and the settling restores what is already there. It takes
further faults for that to do harm, which the model does not claim to exclude.

## Titles and cancellation

`Titles.tla` is `mux.rs`' loop over an image's titles and the threads that carry a Stop:
`EngineHalt` (`op`, `asks`, `seen`), the bridge beside the one key resolution, and the
watcher beside each mux, which also hands the sink what the mux reports.

| variable | in the code |
|---|---|
| `asked`, `n`, `written`, `failure`, `outcome` | the selection and its policy; `title_loop`'s locals; the result |
| `op`, `asks`, `seen`, `token` | the caller's token, `Sink::should_cancel`, the sticky view, the work's token |
| `helper`, `done`, `last` | where the bridge or watcher is, the flag that ends it, its last round |
| `sent`, `heard`, `noted` | reports in the channels, those the sink has heard, whether the file's name is known |
| `result`, `file`, `ended` | how the work ended, what is at each destination |

Actions of the muxing thread (`Main`): `AskKeys`, `KeysJoin`, `Conclude`, `NextTitle`,
`Refuse`, `StartMux`, `MuxJoin`, `MuxDone`, `Remove`, `Decide`; of the helper: `Bridge`'s and
the watcher's rounds (`Look`, `DrainOpened`, `DrainBytes`, `Poll`, `Wake`). The mux and the
key resolution are libfreemkv's: they take as long as they like, end in any way, panics
included, and say "halted" only when their token is cancelled. From outside: `StopOp`,
`SinkAsks` (a front end may take a Stop back), `Swap` (another file under the name).

| run | instance | question | states |
|---|---|---|---|
| `titles` | at most 2 titles, 1 progress report per mux | are outcomes true, are failed files gone, does a Stop hold and end the run? | 0.3 M |

Two titles are what a policy can treat differently: the feature and another, one failed
and one to go on with. One report and the opening are enough to be left in a channel.
One prober asks at a time, so a look at the halt is one step. The second channel (flush
positions) behaves as the first and is folded into it. `run_episodes` never passes
failures over when titles were named. A file swapped between the check and the unlink
is what the code documents as its limit. Fairness: the two threads run, and work whose
token is cancelled ends; other work need not end.

The watcher drains its channels one after the other, so the sink may hear progress
before the opening, though `mux.rs:526` says the opening "precedes every write-progress tick".

## Verified remux

`Publish.tla` is `remux.rs` from the lock to the last guard, for remuxes beside each other
and beside a program that knows no lock. Names are told from files: a file that is
removed lives on for who has it open.

| variable | in the code |
|---|---|
| `dir` | the file under each name |
| `left` | the files a power loss may leave under it: all it led to since the folder was synced |
| `whole`, `synced` | files that are complete; whose bytes are durable |
| `lock`, `armed` | `<target>.lock`; the guards (`PartialFile`, `DeleteOnDrop`) |
| `job`, `pc`, `said`, `tries` | target, replace, staged; where the remux is; its result; kept names tried |
| `ours` | `keep_at`'s identity of its placeholder |
| `stopped`, `hung`, `foreign` | the halt; workers that do not return; the other program has written |
| `landed`, `before`, `caught` | history: it renamed its file; it ran before the last power loss; the other program's file came into its hands |

Actions: `Start`, `Acquire`, `Clear`, `MuxOpens`, `MuxDone`, `DurableSync`, `Verify`, the staged
copy (`CopyClear`, `CopyDone`, again sync and verify), `Recheck`, `Commit`, `Land`. Where no
rename without replacing exists the file is kept: `Reserve` creates the placeholder, `Identify`
asks by name which file that is, `KeepAt` renames over it; if that fails `Unkeep` looks at
the name once more and `Unreserve` unlinks it, each a step of its own, with the other
program between any two. Then `Unwind` drops the guards one at a time in the code's order.
Each step may also `Fails`, `Halts`, `Hang` (then `GiveUp`), or `AcquireTimesOut`.

| run | instance | question | states |
|---|---|---|---|
| `publish` | 2 remuxes of one target, neither replacing, or one replacing and staged; 1 short name | does the target stay whole, do kept files and the other program's stay, is nothing left, does each remux end? | 0.7 M |
| `sweeps` | as small as the case allows | a claim of the changelog, refuted | violation |

Two remuxes are a race, for the lock and the partial's name; a second kept name lets one be
passed over. A remux that is over is never looked at again but for its result: the
VIEW of `MCPublish.tla` forgets the rest of it. Two targets, whose remuxes meet at the short
names without a common lock, are in the theorems, and `KeptStays` and `ForeignStays` were
also run with them (1.7 M states up to swapping them) without an error. Fairness: each
remux's own steps, giving up and timing out included; not failures, hangs, Stops or kills.

What a power loss leaves. Every change of the folder, creation, rename and unlink, is in
doubt until the folder is synced, and only a landing syncs it (`sync_parent`, which may
fail). Names fall back independently of each other, so that a rename may be there
under both names or under neither, which is more than most file systems do. Hence what
the two properties say of it: `KeptStays` promises the file under the reported name until
the power fails, and after that only that the name leads to nothing false; `NothingLeft`
likewise. `sweeps` shows what the first of these means for the user.

What the other program may do: write one file, once, at a target or a kept name, empty
or not. `ForeignStays` names the cases in which it goes: replaced by a remux told to
replace; under a placeholder made before it came; or removed by a remux in whose hands it
came (`caught`): between `Unkeep`'s look and `Unreserve`'s unlink, or, being empty too, between
`Reserve` and `Identify`. These two gaps are in the code (`remux.rs:676-681` and `664-671`),
though the comment at `remux.rs:661` says that only the empty file the call created is
removed, and `CHANGELOG.md:79` that only a writer before the rename loses its file. A
remux claims `<target>.partial` whole: `Clear` removes what is there and the guard is
armed before `create_new` (`remux.rs:919`), so a program that writes
under that name loses its file; `ForeignStays` is about the other names.

The artifact lock, the mux and the verification are libfreemkv's; a mux either hangs and
is given up, or returns; removing a partial file is assumed to succeed, that of a
placeholder is not.

## Findings

1. `unsynced`: `mapfile.rs:520` says a saved map never marks unsynced sectors
   Finished. Only good data asks `persist_due` and syncs; the record of a fill or
   of a patch's residue persists whatever good records came before it. After a power
   loss the resumed sweep skips those blocks. The same tick between the question
   and the record has that effect for good data.
2. `stalemap`: `mod.rs:961` says a fresh sweep must start from an empty mapfile.
   Its `remove_file` does not take the commit lock, so the rename of an abandoned
   consumer can put the old map back before `open_or_create` looks.
3. `latefill`: `sweep_tests.rs:255` says an abandoned fill must not zero what the
   resumed pass recovers. The revocation is checked before each chunk; a chunk
   whose write hangs past the abandonment lands anyway.
4. `sweeps`: `CHANGELOG.md:79` says a retry never sweeps the kept output. Its rename is
   not followed by a sync of the folder (`remux.rs:951`); after a power loss the output may
   be at `<target>.partial` again, which the next remux of the target removes.

The second and third need a consumer that outlives its pass, hence `CanAbandon`. With it,
`SavedBacked` fails too, through the same two steps; what holds with it is
`NewestWins`, `StopReturns` and the types.

## Proofs

TLAPS checks the theorems below for every value of the constants; the only hypotheses
are the named assumptions on constants in the modules (sizes are naturals, placeholders
such as `NoMap` are no member of what they stand out from, options are of their type,
and the two about inputs named above, `MapFilesAssumption` and `SectionAssumption`). TLC
evaluates each of them on a run. The theorems of a module are in `<Module>Proofs.tla`,
one lemma per action under them.

| module | theorem | property | assumes |
|---|---|---|---|
| `Capture` | `TypeCorrect` | `TypeOK` | |
| | `NewestWinsAlways` | `NewestWins` | |
| | `SavedBackedAlways` | `SavedBacked` | `~CanAbandon` |
| | `CompleteHonestAlways` | `CompleteHonest` | `~CanAbandon` |
| | `ConfirmedKeptAlways` | `ConfirmedKept` | `~CanAbandon` |
| | `ClosedDurableAlways` | `ClosedDurable` | `~CanAbandon` |
| `Recovery` | `TypeCorrect` | `TypeOK` | |
| | `OneSourceAlways`, `CompleteTrueAlways` | `OneSource`, `CompleteTrue` | |
| | `HonestVerdictAlways`, `CleanTrueAlways` | `HonestVerdict`, `CleanTrue` | |
| | `ProgressKeptAlways`, `OtherDiscKeptAlways`, `GivenUpAtEndAlways` | the three action properties | |
| `Sweep` | `TypeCorrect` | `TypeOK` | |
| | `SweptTrueAlways` | `SweptTrue` | |
| | `SpendsAlways` | `Spends`, stated beside its proof | |
| | `Refines` | `Implements` (the refinement of `SectorMap`) | |
| `Ranges` | `RecordFacts`, `RecountFacts` | what a splice returns and counts | |
| `Section` | `TypeCorrect`, `AccountedAlways` | `TypeOK`, `Accounted` | |
| `NamesUndo` | `TypeCorrect`, `RenamedTrueAlways`, `OldOrNewAlways` | `TypeOK`, `RenamedTrue`, `OldOrNew` | |
| `Titles` | `TypeCorrect`, `OutcomeTrueAlways`, `FailedGoneAlways`, `NoneAfterStopAlways` | `TypeOK`, `OutcomeTrue`, `FailedGone`, `NoneAfterStop` | |
| `Publish` | `TypeCorrect`, `TargetWholeAlways`, `OwnFileAlways`, `KeptStaysAlways`, `ResultTrueAlways`, `NothingLeftAlways`, `ForeignStaysAlways` | `TypeOK` and the six properties of those names | |

Every invariant and every action property a passing run checks is thus proved; in each
module an inductive invariant `IInv` is what the steps keep, and the properties follow.

**Capture.** *Types*: `TypeInv` adds to `TypeOK` that a pass at work has a number in range.
*NewestWins*: `OwnerInv`: a consumer that is not revoked is the newest pass's, and one
between its temporary file and its rename holds the lock with nobody newer having
written since. The lock is why: revocation alone would not do, since it may come right
after the second look. *SavedBacked* is not inductive. `BackInv` strengthens it: while a
pass works, the map on disk is behind the map in memory, which is behind the image;
every queued item and the one in hand are about different blocks, none of them Finished
in memory nor left to read, so that no fill can reach a recovered block; while a pass
opens, the map was removed, or the image was found as long as the map needs; and held
blocks lie within the image's length. `ConfirmedKept` and `CompleteHonest` follow from it.
*ClosedDurable* needs `DurableInv` on top: a consumer in a synced close writes no more to
the image, and a map that is neither dirty nor revoked is the one on disk.

**Recovery.** `ControlInv`: a run works on a map of its disc and mode, has no result
before it ends, and a fault that must end it has ended it. `SweepInv`: a sweep about to
discard a loadable map was told to, or dispatch found it of no use. `ImageInv`: what is
Finished lies within the image, except where a dispatched patch has yet to look; past the
sweep nothing is untried, unless the run was halted; and the record the loop keeps of
the last pass claims nothing that is not Finished any more, so that a verdict drawn from
that record understates what was recovered, never what was lost.

**Ranges.** `Exact` is the invariant of the run list: runs share no unit, cover the image,
and no two neighbours have one status. `RecordFacts` is the comment of `splice` as a
theorem: the runs outside the window end before it or start after it by at least a unit,
so coalescing the window alone keeps the whole list maximal. `RecountFacts`: the
window's difference is the whole list's, for every counter, the number of bad runs
included, since window and rest share no run and no unit. `RangesOfFacts` and
`CoalescedFacts` say that the longest ranges of a set partition it; the induction they need
is over natural numbers, and is a least-element argument (`LeastOf`).

**Sweep.** `MapInv`: the list is exact and the counters are a full count's. `AskedInv`: every
sector with an untried unit the pass was asked for is open. `PlanInv`: what is left of
the region is whole sectors, all of them open; regions to come lie in open sectors; and
every untried unit of an open sector lies in one or the other. `DoneInv`: a complete pass
left none. `PaceInv`: the retries of a block never exceed the budgets used up, which is what
bounds them, and the long jump and the slow speed belong to a zone. `Refines` maps every
action to a step of `SectorMap` or to a stutter: what `ReadGood`, `ReadSkipped`,
`ReadJumped` and `JumpCutShort` have in common is `Advance`, the recording of a first part
of the region, and that is a `Mark`; `CountedAre` says that the counters as `stats` corrects
them are those of the abstract map. `Spends` is what is proved of termination: regions to
come, then what is left of the region, then the retries left, in this order, get fewer with
every step, and each is bounded.

**Section.** `WalkOK` says where a technique may stand: its ranges stay in its section, an
offset in its range, a bisection's island within the range it probes; a cache-prime walk
has no still-bad sector right before a range, so that what it primes is never a sector the
pass is to recover. `Claims` is inductive given that; `SentInv` says whose residue was
sent; `DropInv` that a section is left for the next with nothing dropped, where the
pass reports its progress: `Finishes` needs it because it is the report that ends a stopped
pass.

**NamesUndo.** `RenameInv` holds of every image: an undo file was recorded from the disc's
names; a new main sector can be taken back by both copies of the undo file (the visible one
and the one a power loss brings back), or never will be; a reported rename took in every
sector. `NamesInv` holds of an image not begun beside an earlier image's undo file
(`~stale`): every Finished sector holds what its undo file recorded, or the new version, and a
rollback moves all of them to the disc's names. It speaks of `Held`, the Finished sectors
outside `hurt`, and lets what is `owed` a sync differ on the disk; that nothing is owed where
the rename writes its undo file (`PlaceInv`), and that no name of the disc is in an image
of another (`DiscInv`), is what lets `Plan` start from any state of `hurt`.

**Titles.** `HelperInv` is the point: the watcher's last round begins after the mux has
ended, so what the mux had opened is noted before the join returns; hence `FileInv`, and that
a title that failed leaves nothing. `LoopInv` says which titles were passed over and why.

**Publish.** Per remux, by where it is: it holds its target's lock while it works or has a
file to remove (`LockOK`), its guards are for its own partial files (`ArmedOK`,
`GuardedOK`), what is at its names is its own (`OwnOK`), and bytes are synced before they
are verified, verified before they are renamed (`BytesOK`). `TargetInv`: what may be
at a target, now or after a power loss; `KeptInv`: a kept name is one remux's from its
placeholder on, until the power fails; `CaughtInv`: what a remux takes for its placeholder is
that, or it was caught.

Only model-checked: liveness (`StopReturns`, `PassEnds`, `RunEnds`, `SweepEnds`, `EndsAnyway`,
`RemuxEnds`, `StopAndWorkEnd`; fairness and ENABLED are out of the prover's reach) and the four
refutations. The theorems of `Capture` that assume `~CanAbandon` rest on `BackInv`, which
`CanAbandon` breaks: `SavedBacked` is then false (see Findings).

## Not modelled

* `plan.rs`, `selection.rs`, `streams.rs`, `preflight.rs`: choices made in one go from
  values; no state, no failure of a step in between.
* `image.rs`, `keys.rs`: they order probes and key sources of other crates and keep nothing.
* `speed.rs`, `outcome.rs`, `presentation.rs`, sinks: display.
* `metadata/`: requests to a web service and text matching.
* `drive*.rs`, the whole-disc reader: wrappers over libfreemkv.
* Of modelled parts: the text format of the mapfile, staged (scoped) images in
  `Recovery`, `EngineOutcome`'s mapping, progress snapshots, handler scores.

## Plan

What is left, in this order:

1. The bounded work behind `EndsAnyway`, as `Spends` states it for the sweep: a step of a
   technique shortens what its walk has left, so that only fairness is left to TLC.
2. `Capture`: an abstract mapfile (a durable map behind an image) that `Capture` without
   abandonment implements, with the refinement proved from `BackInv`.
3. `Section` for ranges of a foreign map that share a sector.
