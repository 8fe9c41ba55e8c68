# fofimon: a TLA+ model of its file and folder monitor

fofimon watches directories with inotify and reports, for every file and
directory of interest, what became of it since the monitor was started:
created, deleted, modified or temporary. Its core, the class `FofiModel` with
its event source `INotifierSource`, has to reconstruct that from two imperfect
views, listings of directories that change while they are read and a queue of
events that may be late, stale, contradictory or lost. These modules model
that reconstruction, and the program around it, and state what it gets right
and where it does not.

All paths below are relative to the repository (`src/fofimodel.cc` is written
`fofimodel.cc`, and so on).

## 1. The system

| Component | State | Operations | Modelled by |
|---|---|---|---|
| Results of a directory (`fofimodel.cc`) | `m_aWatchedResults`, `m_aExisting`, `m_bHasInconsistencies` | `onFileModified()`, `addExistingContent()`, `createImmediateChildren()`, `start()`, `stop()` | `ResultLife`, `FileResults` |
| Tree of watched directories (`fofimodel.cc`) | `m_aToWatchDirs` with `m_bExists`, `m_nWatchedIdx`, `m_aExisting` | the directory branches of `onFileModified()`, `initialCreateToWatchDir()`, `createImmediateChildren()` | `DirTree`, `TreeMoves` |
| Renames (`fofimodel.cc`) | `m_aOpenMoves` | RENAME_FROM, RENAME_TO, `traverseRename()`, the timer `onCheckOpenMoves()` | `FileMoves` (files), `TreeMoves` (directories) |
| `INotifierSource` | `m_aWatchItems`, `m_aFreeWatchIdxs` | `addPath()`, `removePath()`, `renamePath()`, `clearAll()`, `dispatch()` | `Inotify`, `WatchMap`, `NotifierSource` |
| Zones and gap fillers (`fofimodel.cc`) | `m_aDirectoryZones`, `m_aToWatchFiles`, owner, depth and pinned names of a ToWatchDir | `addDirectoryZone()`, ..., `initialSetup()` | `ZoneSetup` |
| Filters (`fofimodel.cc`) | the filters of a zone | `isFilteredOut()` | `ZoneSetup`; a constant elsewhere |
| Session (`fofimodel.cc`) | `m_nEventCounter`, the limits, `m_oAbortSignal` | `calcToWatchDirectories()`, `start()`, `stop()` | partly: `FileResults`, `ZoneSetup`, `Main` |
| Command line and main loop (`main.cc`, `evalargs.cc`) | the zones being described, the output files, what standard input and the event buffer hold | evaluating the arguments, the main loop, the prints | `Main` |
| Paths (`util.cc`) | none | `getPathDepth()`, `getPathDirName()`, `FileStat` | `Paths`; `DirTree` |
| Output format, build, tests, scripts | none that outlives a call | | not modelled, section 7 |

How they interact. The main loop calls `INotifierSource::dispatch()` while the
inotify descriptor is readable; that hands each event, synchronously, to
`FofiModel::onFileModified()`, tagged with the index of the ToWatchDir that
holds the watch. `onFileModified()` may add, remove and hand over watches and
list directories while events go on being queued. A timer of the same loop,
every millisecond, calls `onCheckOpenMoves()`. Results are reported with
`m_oWatchedResultActionSignal`, which the program prints; a limit reached while
running is reported with `m_oAbortSignal`, which quits the loop, as the end of
standard input does. The program has one thread: all concurrency is
with *other processes*, which change the file system between any two system
calls, and with the kernel's queue between the two.

What is hard, and what makes each part correct:

* *Listings race with changes.* A watch is added before its directory is
  listed, so a change may be seen twice and must never be seen not at all. What
  is known must agree with the disk once the events are handled
  (`ExistenceIsRight`), and what a result says of the beginning of the run must
  be true or flagged (`TypeIsRight`, `OriginIsRight`).
* *Directories appear in directories.* Scans, CREATE and DELETE events of the
  same directory overlap; every directory of the zone must end up with the
  watch of its present inode (`EveryDirectoryWatched`, `WatchedEventually`), and
  the assertions of the code depend on it (`AssertionsHold`).
* *Rename halves.* The two events of a rename are paired by cookie, interleave
  with those of other renames and race with a timer (`ExistenceIsRight`,
  `OldMeansOld`, `MovesAreClosed` of `FileMoves`).
* *A watch moves with its directory.* The kernel's watch follows the inode; the
  slot has to follow to the ToWatchDir of the new path, for every directory in
  the one that was moved, and the results with it (`WatchesMoveAlong`,
  `WatchesAreRight`, `ExistenceIsRight`, `OtherAssertionsHold` of `TreeMoves`).
* *Slots are recycled* while events that name them are in the queue
  (`SlotsAreSound`, `ImplementsMap`).
* *The queue is bounded*: events are lost, which should be reported
  (`OverflowIsReported`, refuted).
* *Zones overlap*, what they name may not exist yet, and they share gap fillers
  (`AppearanceIsNoticed`, `ZonesAreCovered`, `OwnersAreClosest`, ...).
* *The listener* is told from six places in the code (`ListenerUpToDate`,
  `ListenerMissesLittle`).
* *The loop has priorities*, and prints into what it watches: the events go before
  standard input, and what is printed may be an event (`ControlDEnds`). An output
  file is opened anew for every print, and may fail to open (`OutputIsWhole`).
  Zones are described by options in sequence, with one variable for all of them
  (`ZonesAsWritten`).

`PROJECT.json` lists each hazard at its line, with the properties that cover it.

## 2. The modules

**ResultLife** holds the pure operators: `OnEvent(r, act, known)` is what an
event does to a WatchedResult (`fofimodel.cc:990-1166`), `OnScan(r)` what the
scan of a new directory does (`:602-652`), `Emits` and `ScanEmits` whether the
listener hears of it. Of the recorded actions only the `m_bImmediate` flag of
the last one is ever read back, so that flag is all that is kept. A result not
added yet is `NoResult`.

**FileResults** is one directory with its files, over several runs. `Start`
finds it present and lists it with `addExistingContent()`; `StartAbsent` and
`DirectoryAppears` are the run in which it is made later and listed with
`createImmediateChildren()`. A listing is a step per `readdir()` (`ReadName`)
and one per `lstat()` (`HandleListed`), with changes by others in between. `Stop`
leaves the kernel's queue as it is, as `clearAll()` does.

**DirTree** is a tree of directories, and files, in one zone. The recursion of
the listings is explicit: `stack` holds the calls under way, each at one of five
stages. It begins in `start()`, just after the base directory was given its
watch. A listing takes a snapshot at `opendir()`; looking up each name is a step
of its own. A watch that the kernel has dropped with its inode is
`kernelWd[d] = 0` while `wd[d]`, the ToWatchDir's, may still name it.

**FileMoves** is files in watched directories of their own, so that the halves
of two renames may interleave. `MoveFile` queues the first half, `FinishMove` the
second, as the kernel does; `MoveOut` and `MoveIn` have only one half to queue. The
timer, 200 microseconds against a poll of a millisecond, is left
nondeterministic: any open move, with all older ones, may be settled at any
moment. That includes the behaviours in which RENAME_TO is late.

**TreeMoves** is directories that are renamed with all that is in them, within
a zone, out of it, into it, over each other, and from one zone to another, whose
depth and filters may differ (zones inside one another are not modelled there).
A child that is filtered out on one side only is where the three loops of
`traverseRename()` part ways (`MoveChild`). `fofi` is the state of
`FofiModel` and of the kernel's watches in one record; `Traverse` is
`traverseRename()`, with its recursion over the children (`MoveChild`), the
hand-over of watches (`HandedOver`) and the scan of what it had not known of at
the destination; `Scan` is `createImmediateChildren()`. All are functions from
one state of `fofi` to the next, since a handler here is one step.

**Main** is `fofimonMain()`: a step per argument, the definition of what to watch,
a step per print, and the main loop with its two sources of different priority,
a step per event handled and one per character read from standard input. It has
`FofiModel` reduced to what the program can tell of it.

**Inotify** is the kernel's side as `INotifierSource` uses it. **NotifierSource**
is its table of WatchItems with the free list; slots are counted from 1 and 0
stands for the index -1. **WatchMap** is what it promises: a map from directories to
watches, an event going to the directory that holds its watch when it is read.
`ImplementsMap` is the refinement, with `watchOf` read from the table.

**Paths** has paths as sequences of names, and `getPathDepth()` as the code
computes it, from strings: of a name only its length and which others it begins
matter. **ZoneSetup** is the configuration of zones and single files, and
`initialSetup()` as its three loops: the gaps to zones, the gaps to files, the
directories in the zones. `addPath()` and the limit are part of it, and so are the
ways in which `createINotifyWatch()` fails to get a watch: a directory that is
missing or that the user may not read (`denied`) leaves its ToWatchDir without one,
and is passed over; the kernel without room for it (`NoRoomInGap`, and the like in
`CreateToWatchDir`) ends `start()` with what was made so far; a path that `addPath()`
takes for one in a fake file system fails an assertion, which ends the program (stage
`aborted`).

`FileResults`, `DirTree`, `FileMoves` and `TreeMoves` share `ResultLife`;
`NotifierSource` and `WatchMap` share `Inotify`. Each of the first four has the
part of the kernel it needs built in: composing them with `NotifierSource` would
multiply their states by those of a table that `ImplementsMap` shows to be a map.
The MC modules give the constants values for TLC; the modules with proofs are
`ResultLifeProofs`, `FileResultsProofs`, `DirTreeProofs`, `WatchedProofs` (the
longest proof about `DirTree`), `FileMovesProofs`, `NotifierSourceProofs`,
`ZoneSetupProofs` and `MainProofs`.

### Abstractions common to several modules

* ToWatchDirs and results are keyed by path instead of index; `m_aExisting` is a
  set of names without the removed ones. Lists of children and of indices follow
  from these and are left out.
* `dispatch()` reads a batch of events into a buffer and hands them on one by one;
  but for `Main`, the model reads one event per step from the queue. Nothing but
  the length of the queue distinguishes the two.
* The kernel merges an event with an equal one at the end of the queue; so do
  `FileResults`, `DirTree`, `FileMoves` and `Main`.
* IN_IGNORED of `inotify_rm_watch()` is left out, for `dispatch()` skips it. That
  of a removed inode is modelled by `Inotify`.
* Ghost variables (`lost`, `hasty`, `overtaken`, `atStart`, and `skipped` and
  `unveiled` of `TreeMoves`) do not influence any step. They delimit what can be
  promised at all: with events lost, nothing; `hasty`, `overtaken`, `skipped` and
  `unveiled` say exactly which history is to blame for the rest (section 4).
* `ClearAll` merges `stop()` with the clearing of the ToWatchDirs by the next
  `start()`. Nothing reads them in between.
* A failure of `addPath()` in `NotifierSource` leaves the table as it is, that is a
  stuttering step. Its precondition, an inode that has no watch, is what
  `AssertionsHold` of `DirTree` establishes, as long as nothing is moved.

## 3. The runs

| Run | Question | Properties |
|---|---|---|
| `FileResults` | Are results right, whatever listings and changes interleave, in two runs? | `TypeOK`, `IInv`, `ExistenceIsRight`, `TypeIsRight`, `ListenerUpToDate`, `ResultsOnlyGrow`, `CatchesUp` |
| `NotifierSource` | Does the recycled table implement the map? | `TypeOK`, `SlotsAreSound`, `ImplementsMap` |
| `NotifierSource_overflow` | Is a lost event reported? | `OverflowIsReported`: **no** |
| `DirTree` | Is a tree that changes while it is listed known and watched? | `TypeOK`, `ExistenceIsRight`, `EveryDirectoryWatched`, `OriginIsRight`, `AssertionsHold`, `ListenerMissesLittle`, `WatchedEventually` |
| `DirTree_user` | The same for a user other than root, at the maximal depth, with a file | `ExistenceIsRight`, `WatchInv` |
| `DirTree_phantom` | Does what is said to exist exist, as that kind of thing? | `NoPhantomFiles`: **no** |
| `FileMoves` | Do interleaved renames and the timer end in the state of the disk? | `TypeOK`, `ExistenceIsRight`, `OldMeansOld`, `MovesAreClosed` |
| `TreeMoves` | Do watches and results move along with directories? | `TypeOK`, `OtherAssertionsHold`, `ExistenceIsRight`, `WatchesAreRight`, `OldMeansOld`, `WatchesMoveAlong`, `WatchedEventually` |
| `TreeMoves_assertions` | Do the other assertions hold, too: does a scan only add watches to directories without one, and may a directory go to a zone with other filters? | `AssertionsHold`: **no**, and **no** |
| `ZoneSetup` | Does `start()` watch what it should, under the right zone? | `TypeOK`, `AppearanceIsNoticed`, `ZonesAreCovered`, `NothingElseIsWatched`, `OwnersAreClosest`, `SingleFilesAreReported` |
| `ZoneSetup_regex` | Also with regular expressions? | `ZonesAreCovered`: **no** |
| `Main` | Are zones as written, outputs whole, and does the program end? | `TypeOK`, `ZonesAsWritten`, `OutputIsWhole`, `ControlDEnds` |

With two workers `TreeMoves` takes between two and three minutes, each of the other
runs about one or less.

### Bounds

* `FileResults`: a watched and a filtered file, a queue of two, two runs. Two
  runs are what it takes to have stale events; two queued events of a file to
  have it deleted and created again behind a listing. The proofs lift all bounds
  but the finiteness of a state.
* `NotifierSource`: three directories, four descriptors, a queue of three: every
  order of freeing two slots and using them again, with an event of each. The
  directories are interchangeable in every action and property, hence SYMMETRY;
  the run has no liveness property.
* `DirTree`: a directory in a directory of the zone, made three times in all,
  a queue of three: enough for each to vanish and return during one scan, and to
  overlap with a scan of its parent. `DirTree_user` puts a file beside a directory
  beyond the maximal depth.
* `FileMoves`: two watched names and a filtered one, two renames, a queue of
  two. Two renames suffice for two open moves, a chain, and a rename back.
* `TreeMoves`: two directories that always exist, `z` and `y`; a directory `q` with a
  file may be in `z`, in each of two directories of `z`, or in one of `y`. There are
  four ways to begin, and seven sets of zones: `z` alone, with and without filters
  that exclude `q` or its file; and `z` and `y`, with the same depth, with a depth that
  makes the directories of `z` leaves and not that of `y`, and with the filters of `y`
  only, so that a rename in either direction meets a child filtered out on one side.
  Three changes, each of which may be a rename, make a rename over what came of
  a rename, a rename into a new directory, and a rename away and back with a
  change of the content between. The queue of five is rarely full.
* `ZoneSetup`: three nested zones (one may have either of two depths), two
  single files, every disk of a tree of seven directories, five ToWatchDirs, so that
  some configurations fit and others reach the limit at each place that checks
  it; two calculations, with the configuration changed between them. Names have
  two characters but for one, that begins with the name of the fake file system and
  has three. No other name begins another: what `getPathDepth()` makes of them is
  described at the end of section 4. Two directories, one of which leads to a zone,
  may be unreadable.
* `Main`: every list of up to three of the options that describe zones, and of up
  to two of any kind, which is what it takes for an option to reach the wrong
  zone, to be taken for an argument, or to lack one. The main loop runs with two sets
  of outputs, one of them into the watched directory, one file of others', a queue of
  two and lines of two characters: one read by `getchar()` and one left over.

`FileMoves` and `DirTree_user` have the CONSTRAINT `NothingLost`, which does not
explore what follows the loss of an event. Nothing is promised then. For
`MovesAreClosed` it means that behaviours that lose events are cut off; the
property is about the other ones.

`DirTree`, `TreeMoves` and `Main` are checked without deadlock detection: once the
bound on changes is reached and all is handled, or a failed assertion or the
end of the program has stopped it, they have nothing left to do. All other
systems always can go on, and are checked for deadlock; `ZoneSetup` has a step that
changes nothing after a failed assertion (`Aborted`).

### Fairness

`WF(Listing)` and `WF(EndSetup)`: a listing is a synchronous call that ends, having
finitely many names. `WF(Dispatch)`: the main loop calls `check()` and `dispatch()` of
a source while its descriptor is readable. `WF(Timer)`: the timer connected in the
constructor (`fofimodel.cc:69`) is never disconnected, and an open move is
eventually too old. No fairness is assumed of other processes.

Two remarks. `INotifierSource` has a higher priority than the timer, so that
others who never stop may keep the timer from being called: `WF(Timer)` assumes that
at some time they let the queue be empty, which all models but `Main` do by their
bounds. `Main` has the priorities in its guards (`OnStdin` needs an empty
queue), only assumes `WF(Program)`, and says `<>quiet` in `ControlDEnds` instead. In
`TreeMoves` the two conditions are stated of the queue and of the open moves
(`Reads`, `Settles`): the steps are the same, and TLC does not have to compute
`Traverse` to know whether they are enabled.

## 4. What the checks show

*Within its limits the reconstruction is right.* For files of a directory,
whether it is there or appears later, a file is known to exist exactly when it
does, once its events are handled and none was lost, and flagged results aside
the reported type is right, for root. The tree is known, flagged results aside, at
any depth, unless a directory is made again before its removal was read; under that
condition it is watched, for root whatever was flagged. Renames settle, in
whichever order, unless an event of a name overtakes an open move of it. When a
directory is renamed, its watch and those of everything below it go to the new
path without a gap, or go away, and what it holds is known there, also in another zone
with another depth, and with other filters as long as they do not let through what the
first ones did not. The
table of watches never confuses directories. The zones get what was asked for,
for exact names no one of which begins with another, as far as directories may be read
and except below the depth of an inner zone. The program defines the zones
as its arguments say, loses nothing it prints to a file it could open, and ends
when it is told to, although it may print into a directory it watches: that this
does not go on for ever rests on `onFileModified()` not reporting changes of a file
that has a result (the mutant `EmitsAll` shows it).

*Where the limits are*, the violation runs show (each checks one sentence of the
repository's comments, quoted in `PROJECT.json`, "findings"):

1. `dispatch()` skips IN_Q_OVERFLOW: its descriptor, -1, is in the table only as
   that of a free slot, and then it has no action bit. `hasQueueOverflown()`
   never becomes true.
2. A directory that vanishes between `readdir()` and `fstatat()` of a scan is
   recorded as a created *file*, and stays one.
3. `calcFiltersRegex()` compiles the regular expressions of a *copy* of the
   filters, and `isMatchedByFilters()` takes not to match for a match: a regular
   expression excludes everything, or includes everything.
4. A directory moved into a new one is scanned under its new path before its
   rename is read: `addPath()` gets the descriptor it already has in the table, and
   its assertion fails. The properties of `TreeMoves` are about what happens in a
   build with assertions, which ends there; without them, the table would have
   two slots of one descriptor.
5. A directory that goes to a zone with other filters, with a child that was there at the
   start, excluded at the source and not at the destination: the third loop of
   `traverseRename()` (`fofimodel.cc:1544-1569`) has no path to give for the source, and
   the assertion at `:1289` fails, although the comment at `:950` speaks of such zones.

4 and 5 are both counterexamples to `AssertionsHold`, as short as each other. TLC stops
at one of them; with `AddPathFindsNoWatch` or `RenamedChildHasPath`, of which the
property is made, as the invariant it shows the one or the other. `OtherAssertionsHold`,
which holds, is the rest.

Three more disagreements between code and documentation are in the models, and the
properties leave them out:

* `setDirectoryZone()` goes on to the outer zone where the inner one is too shallow, so
  that the inner zone shadows nothing, against the example at `fofimodel.h:188-191`.
  It takes a directory below the inner zone's depth that gets a ToWatchDir at all,
  as that of a single file does. `OwnersAreClosest` says nothing of such directories
  (`Shadowed`).
* What is a fake file system is decided by two comparisons, of whole paths for the
  filters and of the beginning of a string in `addPath()`: a directory `/sysroot` in a
  zone at `/` fails the assertion at `fofimodel.cc:832`, and so does a single file in
  `/proc`, which nothing refuses. `ZoneSetup` has that step (`Abort`), and its
  properties are about the setups that are completed.
* `--exclude-all` makes two filters by the exact name ".*" (`main.cc:377-387`) where the
  usage text says it is the same as two regular expressions (`:89-90`).
  `ZonesAsWritten` leaves open what the option stands for (`ExcludesAll`), and is about
  the filters that are named one by one.

What the ghost variables delimit, each found as a counterexample to the property
without it:

* `hasty`: a directory removed and made again before the CREATE is handled is
  watched by that CREATE; the DELETE of the old one then removes the watch of the
  new one (`fofimodel.cc:1254`). Until the second CREATE is handled, changes in it
  are missed, and nothing is flagged.
* `overtaken`: an open move that waits for the timer is applied after later events
  of the same name (`:1619`): a file moved out and created again ends as deleted,
  and nothing is flagged.
* `skipped`: the scan of a destination leaves out the names the traversal has
  visited, among them those believed to be gone (`:1592`); one of them that is there
  again, its CREATE having come to a directory that had moved, is never found.
* `unveiled`: a file or directory made while running where a filter excludes it is in no
  list of its directory. If the directory goes to a zone that does not exclude it, the
  watch is handed over and nothing is scanned (`:1594`), so it stays unknown there, and
  a directory unwatched. If it was there at the start, finding 5 comes first.

Seen while reading, with no run of their own:

* a MODIFIED result of a directory is never emitted (`fofimodel.cc:1248`, the
  exception in `ListenerMissesLittle`); a file replaced by a rename counts as
  created (`:1342`);
* a zone's own pinned names are never read, against `main.cc:81-82` and
  `fofimodel.h:80`;
* `getPathDepth()` compares prefixes of strings (`util.cc:180`): "/AA" is in the zone
  "/A", and gets its owner; for the zone "/" it counts "/a/b" with a one-letter "a"
  one level too low; `addDirectoryZone()` refuses "/processes" because of "/proc";
* usage names `--live-events` (`main.cc:94`), the code `--live-actions` (`:209`);
  `--max-results` is stored and never used;
* in JSON, the separators between results are never printed (`bFirst` is never
  cleared, `:629-633`), a detailed result is printed twice, and nothing says that the
  run was aborted;
* two outputs to one file truncate each other's beginning: `OutputIsWhole` is
  stated for files that one output alone goes to;
* after the abort signal the events that are in the buffer are still handled,
  although `fofimodel.h:309` asks to stop immediately; and while events never cease,
  neither Control-D nor the timer is looked at (`ControlDEnds` needs `<>quiet`);
* an empty word for a path is only stopped by an assertion (`main.cc:239`, `:248`,
  `evalargs.cc:103`); in a build without, a zone "" counts as none begun;
* a number given as "nan" passes the bounds of `evalIntArg()` and is converted,
  which is undefined (`evalargs.cc:70`).

## 5. What is proved

All theorems are about the same modules TLC checks, for every value of the
constants that the named assumptions admit: those on the types of the constants and
on bounds; in `DirTree` that the directories form a tree (`TreeAssumption`: each
nonempty set of them has one whose parent is not in it) and that the model has
nothing below the children of the directories at the maximal depth
(`DepthAssumption`); in `Main` that the argument lists are lists of words in which an
output option is followed by an option or by the name of an output file
(`ArgListsAssumption`). Where a theorem needs more, its statement says so, and the MC
module asserts the same of its instance.

**FileResultsProofs**: for any sets of files, any queue and any number of runs,
`TypeCorrect`, `Invariance` (`[]IInv`), `ExistenceCorrect` (`[]ExistenceIsRight`) and
`TypesCorrect` (`[]TypeIsRight`). `ExistenceIsRight` speaks of the moment when nothing
is queued, which tells nothing of the moment before. The inductive invariant
reads the queue as a chain: every event tells something of the file before and
after the change it announces (`Before`, `After`). `LastPendingInv` ties the end of
the chain to the disk: the youngest queued event of a file leaves it as it is now.
`KnownInv` says that a file without a queued event is known already or will be
seen by the listing, and `FirstPendingInv` ties the beginning of the chain to the
start of the run: until a file has a result, its oldest queued event finds it as it
was then. `OriginInv` carries that through all transitions of a result;
`ListingInv`, `FreshInv` and `DescriptorsInv` say that listing, a directory made while
running and the descriptors of earlier runs do not interfere. Sending an event
extends the chain at its end, handling one removes its first link: the lemmas
about pending events say how that moves the first and the last one.

`ListenerCorrect` (`[]ListenerUpToDate`) and `ResultsGrow` (`ResultsOnlyGrow`) need an
invariant of their own, `ReportInv`: what the listener heard last is the type of the
result, because the steps that are not emitted are those that leave the type as it
was (the lemmas about `Emits`), and a result with the `m_bImmediate` flag says that the
file exists. **ResultLifeProofs** has the lemmas about the transitions of a
result that all of these use.

**DirTreeProofs**: for any tree of directories and files, of any depth,
`TypeCorrect`, `WatchInvariance` (`[]WatchInv`) and `AssertionsCorrect`
(`[]AssertionsHold`). That no directory is watched twice is not a matter of the step
that watches it: the call that will do so was pushed earlier, and others go on in
between. `StackInv` says that only the innermost call has not yet come to walk through
its directory, and that the one about to watch has a ToWatchDir that exists;
`SetupInv` says that `start()` meets every directory once: the calls under way are for
different directories, what they have still to do has no ToWatchDir
(`AheadIsNew`), and no directory has one before the directory it is in. While
running, the watch of a directory that is reported as created again is given up
before the call is made (`EnterStep`), and the last conjunct, that a ToWatchDir that
exists has no result that denies it, follows since only a deletion makes a result
say so, and that marks the ToWatchDir.

`ListenerCorrect` (`[]ListenerMissesLittle`) needs that only results of things that
exist are `m_bImmediate` (`HeardInv`). `OriginCorrect` (`[]OriginIsRight`),
`ExistenceCorrect` (`[]ExistenceIsRight`) and `WatchedWhenCalm` rest on `CalmInv`, which
says how tree, watches and queue belong together as long as nothing was lost, nothing
was found inconsistent and no directory was made again before its removal was
read (`Calm`): a ToWatchDir whose watch the kernel dropped has the removal in the
queue (`StaleInv`), and until that is read the directory is gone (`RemovalInv`); what happened in it is
read before (`OrderInv`); and whatever is watched or listed has a watched parent
(`ParentsInv`). `OriginInv` follows the first that is heard of a name, as in
`FileMoves` below, through the listings: what was there is still there or its
removal waits to be read, what came during `start()` was told of, and a directory that
is scanned during the run has no child that was there. `ExistenceInv` follows the last:
the last queued event of a name says whether it is there (`LastInv`); a name with no
event is known, or a call under way will find it (`KnownInv`, `WalkInv`); and a
directory without a watch in one that has one will get it from a call or from its
queued CREATE (`ComingInv`). That *every* existing directory is watched when the stack and
the queue are empty follows by `TreeAssumption`: of those that were not, one would have
a watched parent.

**WatchedProofs**: `WatchedCorrect` (`[]EveryDirectoryWatched`), again for any tree. Here
results may be flagged, and then nearly all of the above is no longer kept: the watch of a
directory that is reported as created again is given up, with events of that
watch still in the queue, which will be skipped; a removal may be among them, so that
`StaleInv` fails, and so does `ParentsInv`. What can go wrong is this: a
directory with a ToWatchDir that is reported as created is watched anew only
if its result is not `m_bImmediate` (`CreatedAgain`); if it is, the watch its ToWatchDir
has is taken to be good. `ScannedInv` says that it is: the watch of a directory which
a scan has found, and no event told of since, is the kernel's, or its removal waits to be
read and will not be skipped. To keep that, no watch may be given up above such a
directory. A scan gives up the watch of what it finds only if that was never reported
at all, and then nothing in it was scanned (`NewsInv`); an event does so only when a
directory that no event told of is reported as created, and then nothing below it
was told of either (`AnewInv`). These follow from what the queue says of directories, which
`QueueInv` puts down: what waits about a directory begins with its creation, if that
waits at all (`CreateInv`), and ends with its removal if it is gone (`GoneInv`); nothing
waits about one that came to be in a directory without a watch (`SeveredInv`); a
directory that an event told of is there or going, and its creation does not wait to
be read (`ConfirmedInv`); and before the creation of a directory is read, whatever
was below an earlier one of that name has gone (`AnewInv`, over all that is
`Below`, which is defined as a least set since recursion could not be used). The calls
under way list directories in one another (`Chained`), so that what a call gives up is
not being listed by another, and each lists a directory that is watched or going
(`ListedInv`). `SteadyInv` is the conjunction, with `ComingInv` from above, and is
inductive without `hasInconsistencies`; `EveryDirectoryWatched` follows as before.

It is stated for root. For other users an ATTRIB may be handled as the CREATE of a
directory that was not just made, and `CreateInv` then does not say what it should:
a watch could be given up below which removals wait to be read. Whether that can
leave a directory without a watch for good is open; it would take a tree of at least
four levels. `WatchedWhenCalm` holds for all users.

**FileMovesProofs**: `TypeCorrect`, `OldCorrect` (`[]OldMeansOld`) and
`ExistenceCorrect` (`[]ExistenceIsRight`), for any number of names and renames. `OldInv` follows what is first heard of a file: until it has a
result, its first queued event, the move of it that is open, or the disk when
nothing is queued, says it was there only if it was, except for a file renamed to
it, whose second half is queued or yet to come. `ExistenceInv` follows what is last
heard: unless a second half is yet to come, the last queued event of a name agrees
with the disk, and with none queued its result does, or a move of it is open and it is
gone. `overtaken` is what the step of the timer needs: an open move it settles would
otherwise undo what later events of the same name said.

**NotifierSourceProofs**, for any number of directories and descriptors:
`TypeCorrect`, `SlotsCorrect` (`[]SlotsAreSound`) from `IInv`, which adds that queued
events name descriptors that were given out, and `Implements` (`ImplementsMap`).
Each action maps to the action of `WatchMap` of the same purpose. The step that needs
the invariant is `Dispatch`: the first slot found by `findEntryByWatch()` is the
only one, and its tag is the directory whose slot it is.

**ZoneSetupProofs**, for any tree, zones, filters, files and limit: `TypeCorrect`;
`SetupInvariant` (`[]SetupInv`), and from it `FilesCorrect`
(`[]SingleFilesAreReported`) and `AppearanceNoticed` (`[]AppearanceIsNoticed`), with no
hypothesis; `OwnersCorrect`
(`[]OwnersAreClosest`) for names that `getPathDepth()` does not confuse
with the base paths of zones (`NamesAreApart`); `ZonesCovered`
(`[]ZonesAreCovered`) and `OnlyTheseWatched` (`[]NothingElseIsWatched`) if besides no
filter is a regular expression (`FiltersAreExact`). These hypotheses are the limits of
section 4, and the run `ZoneSetup_regex` shows what happens without the last;
no hypothesis on unreadable directories, on the kernel's room or on fake file systems is
needed, since what they do is part of the steps. `SetupInv` says how far each stage has come:
the gaps of the zones, then the files, that it was through with are filled, every
ToWatchDir has one for its parent, in which it is not filtered out, and what is
pinned leads somewhere. `IInv` adds that each owner is the closest zone (`OwnersInv`), that
of the way to a directory still to be watched a part is about to be visited
(`CoverInv`), and that nothing was added without a reason (`OnlyInv`). The way down
from a zone's path, and the choice of the closest zone, are inductions on the length of
a path; they are done over sets of numbers, which have a least one (`LeastNumber`,
`NumberInduction`), since the library's theorems with an operator parameter cannot
be used.

**MainProofs**: `TypeCorrect`, `ZonesCorrect` (`[]ZonesAsWritten`) and `OutputCorrect` (`[]OutputIsWhole`), for any argument lists, outputs
and files, however often these cannot be opened. `OutputInv` adds that `m_bCreated` of
an output is set exactly when something was printed to its file, and that nothing is
printed while the arguments may still change where an output goes; `BufferInv`, that
events are handled, and so live actions printed, in the main loop only.

`ZonesCorrect` compares what the evaluation leaves, one option at a time with one
variable for the zone begun, with a reading of the whole list by positions. `ParseInv`
says that after some number of words, which end where an option may begin, the zones
so far are those that the words read describe, each with the depth and the filters that
belong to it among them; an option that is read next belongs to the last zone
(`OwnStep`) or begins one. The hypothesis is that no zone is given an empty path
(`PathsAreNamed`), which `main.cc` asserts (`:248`). That there is such a reading,
a set of the positions at which options begin, is a lemma of its own (`StartsAre`),
again by a least number.

Model-checked and not proved:

* `TreeMoves`: its recursive operators, on which the recursion over the children
  rests, are not taken by the proof system.
* The liveness properties `CatchesUp`, `WatchedEventually`, `MovesAreClosed` and
  `ControlDEnds`: fairness is about ENABLED, which is out of its reach.

## 6. Faithfulness, module by module

* `FileResults`: `addExistingContent()` asks whether a name still exists,
  `createImmediateChildren()` does not; the model keeps the difference. A user
  other than root may see a file appear by its permissions, so an ATTRIB of a file not
  known is handled as CREATE (`Effective`). That is why `TypeIsRight` is stated for
  root or for directories made while running: created and chmodded before the
  listing, and deleted during it, a file ends as temporary for others.
* `DirTree`: permissions, limits on watches, and directories that are renamed are
  left out. A name is always a directory or always a file; the kind a vanished
  name is *taken* for is modelled.
* `FileMoves`: directories are not renamed; the entries of `m_aOpenMoves` keep name
  and cookie, and form a set, since the search by cookie and the timer's test by age
  do not depend on their order. RENAME_TO with both sides filtered out returns
  before it closes the open move (`fofimodel.cc:946`), so does the model.
* `TreeMoves`: nothing happens in the middle of a handler, and the two halves of a
  rename are queued together, the others being `DirTree`'s and `FileMoves`' matter.
  The build is one with assertions: a step that fails one is recorded in
  `failed`, and nothing is dispatched after it. The children of a scan and of a
  traversal are visited in one fixed order, which nothing depends on. Root's
  ATTRIB and MODIFY events are left out: they do not concern names. Directories
  filtered out, and those at the maximal depth, have no ToWatchDir, as in the code.
* `Main`: of `FofiModel` there is left whether `start()` fails, when it aborts, and
  which of the events of files in one watched directory it emits. The whole queue is
  read at once, as into the buffer of `dispatch()`. Others' files are missing at
  first. Standard input is typed a line at a time. Words are compared, not taken
  apart: which of them have dashes or slashes, or are numbers, are constants.
* `ZoneSetup`: the disk does not change during a calculation, that being the matter
  of `DirTree`. The zones of a stage are tried in any order, not in that of their names
  as in the code: which directories exist when the limit strikes depends on it,
  nothing else. Filters on the whole path (`bApplyToPathName`) are left
  out. Regular expressions are a set of names they describe.

## 7. What is not modelled

* What a `start()` or a scan that fails half-way leaves behind: its watches in
  `INotifierSource`, their events in the queue, and `m_nEventCounter`. The program
  exits then (`Main`), so that only another client of the classes could meet it.
* `cleanupPath()`, `getRealPathIfPossible()`: string processing and symbolic
  links, at configuration time.
* The text and the JSON that are printed, the build, the tests and the
  scripts: sequential, or pure output, without state that outlives a call. The
  tests' `FakeSource` is an event source with no kernel behind it.
* The vendored JSON library, `nlohmann/json.hpp`, which is six sevenths of the
  repository's lines and none of its logic. Of the program's own lines, those of
  `fofimodel.cc`, `inotifiersource.cc`, `main.cc` and `evalargs.cc` are modelled but for
  messages, accessors and the parts above; what is left is `printout.cc`, and most of
  `util.cc` and of the headers.

## 8. What is left

* A composition of `TreeMoves` with the interleavings of `DirTree`: renames in the
  middle of a scan. Its states are out of TLC's reach with the queue and the depth
  either needs.
* A refinement of an abstract tree, in which a rename is one step, by
  `TreeMoves`: it would say for every moment what `ExistenceIsRight` and
  `WatchesAreRight` say for the settled ones.
* `EveryDirectoryWatched` of `DirTree` for users other than root, in trees of four
  levels (section 5).
* Proofs about `TreeMoves`, whose `InZone`, `Scan` and `Traverse` would have to be
  recursive functions for that: first `OtherAssertionsHold`, then `OldMeansOld`.
