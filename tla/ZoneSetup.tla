------------------------------- MODULE ZoneSetup -------------------------------
(***************************************************************************)
(* Which directories FofiModel watches.  Directory zones and single files   *)
(* are added and removed while it does not run; calcToWatchDirectories()    *)
(* and start() then make a ToWatchDir of every directory that leads to a    *)
(* zone or a file, existing or not, and of every existing directory in a    *)
(* zone.  start() adds the watches as well, and both give up at the limit.  *)
(* To add a watch may fail, in three ways: see createINotifyWatch() below.   *)
(*                                                                         *)
(* The disk does not change meanwhile: that is the matter of DirTree.       *)
(***************************************************************************)
EXTENDS Paths

CONSTANTS Tree,       \* the directories there may be, "/" among them
          AllZones,   \* the directory zones that may be added
          AllFiles,   \* the single files that may be added
          FakePaths,  \* INotifierSource::invalidPaths()
          Secret,     \* the directories the user may have no right to read
          MaxDirs,    \* m_nMaxToWatchDirectories
          MaxSetups   \* bound: how often directories are calculated or a run is started

\* A filter on names, FILTER_EXACT or FILTER_REGEX, by the names it describes
Filter == [exact: BOOLEAN, names: SUBSET Names]

DirectoryZone == [path: Tree, maxDepth: Nat,
                  dirIncludes: SUBSET Filter, dirExcludes: SUBSET Filter,
                  fileIncludes: SUBSET Filter, fileExcludes: SUBSET Filter]

ASSUME TreeAssumption ==
    <<>> \in Tree /\ Tree \subseteq Seq(Names) /\ \A p \in Tree : Upwards(p) \subseteq Tree
ASSUME ConfigAssumption ==
    /\ \A z \in AllZones : z \in DirectoryZone
    /\ AllFiles \subseteq [dir: Tree, name: Names]
    /\ FakePaths \subseteq Seq(Names)
    /\ Secret \subseteq Tree
    /\ MaxDirs \in Nat \ {0}
    /\ MaxSetups \in Nat

VARIABLES
    disk,       \* the directories that exist
    denied,     \* those of them that the user may not read
    zones,      \* m_aDirectoryZones
    files,      \* m_aToWatchFiles
    running,    \* m_nEventCounter > 0
    stage,      \* what initialSetup() is doing: see TypeOK
    todo,       \* the zones or files of this stage that are still to come
    toVisit,    \* directories read by initialCreateToWatchDir() and still to come
    dirs,       \* m_aToWatchDirs, by path
    setups      \* how often initialSetup() has been called

config == <<disk, denied, zones, files, setups>>
vars   == <<disk, denied, zones, files, running, stage, todo, toVisit, dirs, setups>>

\* "owner" is the path of the owner zone, if any, as a set.
ToWatchDir == [owner: SUBSET Tree, depth: Nat, leaf: BOOLEAN, exists: BOOLEAN, watched: BOOLEAN,
               pinnedDirs: SUBSET Names, pinnedFiles: SUBSET Names]

TypeOK ==
    /\ disk \subseteq Tree
    /\ denied \subseteq disk
    /\ zones \subseteq AllZones
    /\ files \subseteq AllFiles
    /\ running \in BOOLEAN
    \* "aborted": an assertion has failed
    /\ stage \in {"idle", "zone gaps", "file gaps", "create", "aborted"}
    /\ todo \subseteq AllZones \cup AllFiles
    /\ toVisit \subseteq disk
    /\ DOMAIN dirs \subseteq Tree
    /\ \A p \in DOMAIN dirs : dirs[p] \in ToWatchDir
    /\ setups \in Nat

Init ==
    /\ disk \in SUBSET Tree
    /\ <<>> \in disk /\ \A p \in disk : Upwards(p) \subseteq disk
    /\ denied \in SUBSET (Secret \cap disk)
    /\ zones = {}
    /\ files = {}
    /\ running = FALSE
    /\ stage = "idle"
    /\ todo = {}
    /\ toVisit = {}
    /\ dirs = << >>
    /\ setups = 0

-----------------------------------------------------------------------------
(* Zones and files are added and removed.                                   *)

Stopped == stage = "idle" /\ ~running

\* addDirectoryZone() refuses a path that is in use, or in a fake file system.
AddDirectoryZone(z) ==
    /\ Stopped
    /\ \A y \in zones : y.path # z.path
    /\ \A f \in FakePaths : ~StringBeginsWith(z.path, f)
    /\ zones' = zones \cup {z}
    /\ UNCHANGED <<disk, denied, files, running, stage, todo, toVisit, dirs, setups>>

RemoveDirectoryZone(z) ==
    /\ Stopped
    /\ z \in zones
    /\ zones' = zones \ {z}
    /\ UNCHANGED <<disk, denied, files, running, stage, todo, toVisit, dirs, setups>>

AddToWatchFile(f) ==
    /\ Stopped
    /\ f \notin files
    /\ files' = files \cup {f}
    /\ UNCHANGED <<disk, denied, zones, running, stage, todo, toVisit, dirs, setups>>

RemoveToWatchFile(f) ==
    /\ Stopped
    /\ f \in files
    /\ files' = files \ {f}
    /\ UNCHANGED <<disk, denied, zones, running, stage, todo, toVisit, dirs, setups>>

-----------------------------------------------------------------------------
(* Filters and owners.                                                      *)

\* isMatchedByFilters(): the expressions of a zone are compiled in a copy of its
\* filters; those of the zone match nothing, and not to match counts as a match.
Matched(filters, n) == \E f \in filters : f.exact => n \in f.names

PassesFilters(includes, excludes, n) ==
    /\ includes = {} \/ Matched(includes, n)
    /\ ~Matched(excludes, n)

OwnerZones(dir) == {z \in zones : z.path \in dir.owner}

\* isFilteredOutSubDir() for p, whose parent's ToWatchDir is "parent"
FilteredOutSubDir(parent, p) ==
    /\ NameOf(p) \notin parent.pinnedDirs
    /\ \A z \in OwnerZones(parent) :
          p \in FakePaths \/ ~PassesFilters(z.dirIncludes, z.dirExcludes, NameOf(p))

FilteredOutFile(parent, n) ==
    /\ n \notin parent.pinnedFiles
    /\ \A z \in OwnerZones(parent) : ~PassesFilters(z.fileIncludes, z.fileExcludes, n)

\* Mutant: the first zone in the order of names wins.
OwnersOutermost(p) ==
    LET candidates == {z \in zones : PathDepth(p, z.path, z.maxDepth) >= 0} IN
    {z \in candidates : \A y \in candidates : StringSize(z.path) <= StringSize(y.path)}

\* setDirectoryZone(): the zones are tried in the reverse order of their names,
\* of those that p's string begins with the longest first.
Owners(p) ==
    LET candidates == {z \in zones : PathDepth(p, z.path, z.maxDepth) >= 0} IN
    {z \in candidates : \A y \in candidates : StringSize(y.path) <= StringSize(z.path)}

\* A new ToWatchDir
Owned(p) ==
    LET owners == Owners(p)
        depth  == IF owners = {} THEN 0
                  ELSE CHOOSE d \in 0..Len(p) : \E z \in owners : d = PathDepth(p, z.path, z.maxDepth)
    IN  [owner |-> {z.path : z \in owners}, depth |-> depth,
         leaf |-> \A z \in owners : depth = z.maxDepth,
         exists |-> p \in disk, watched |-> FALSE, pinnedDirs |-> {}, pinnedFiles |-> {}]

-----------------------------------------------------------------------------
(* initialSetup(), by calcToWatchDirectories() or by start().               *)

\* It asserts that "/" has a ToWatchDir in the end: something must be configured.
Setup(run) ==
    /\ Stopped
    /\ zones # {} \/ files # {}
    /\ setups < MaxSetups
    /\ setups' = setups + 1
    /\ running' = run
    /\ dirs' = << >>
    /\ stage' = "zone gaps"
    /\ todo' = zones
    /\ UNCHANGED <<disk, denied, zones, files, toVisit>>

CalcToWatchDirectories == Setup(FALSE)

Start == Setup(TRUE)

\* addPath() refuses p, whether it exists or not.
InFakeFS(p) == \E f \in FakePaths : StringBeginsWith(p, f)

\* addPath() succeeds, if the kernel has room for one more watch: it does not for
\* ENOENT and EACCES, which leave the ToWatchDir without a watch.
Watchable(p) == p \in disk \ denied /\ ~InFakeFS(p)

\* createINotifyWatch() for the directories "new" fails its assertion (fofimodel.cc:832):
\* a zone filters out what is a fake file system by its whole path, and addPath() refuses
\* what begins like one; and nothing refuses the directory of a single file.
Asserts(new) == running /\ \E p \in new : InFakeFS(p)

\* Those of the new directories "new" that get a watch
Watching(new) == {p \in new : running /\ Watchable(p)}

\* The directories above and including p that have no ToWatchDir yet
Gap(p) == Upwards(p) \ DOMAIN dirs

Room == MaxDirs - Cardinality(DOMAIN dirs)

\* The name to pin in q, if the directory below it on the way to p is new
Pinned(p, q, new) == {p[k] : k \in {i \in DOMAIN p : i = Len(q) + 1 /\ SubSeq(p, 1, i) \in new}}

\* Mutant: a directory that has a ToWatchDir already does not pin the way down.
WithGapUnpinned(p, new) ==
    [q \in DOMAIN dirs \cup new |->
        IF q \in new
        THEN [Owned(q) EXCEPT !.pinnedDirs = Pinned(p, q, new), !.watched = q \in Watching(new)]
        ELSE dirs[q]]

\* "dirs" with ToWatchDirs of "new", the gap to p, and the way to it pinned
WithGapFilled(p, new) ==
    [q \in DOMAIN dirs \cup new |->
        IF q \in new
        THEN [Owned(q) EXCEPT !.pinnedDirs = Pinned(p, q, new), !.watched = q \in Watching(new)]
        ELSE IF q \in Upwards(p)
        THEN [dirs[q] EXCEPT !.pinnedDirs = @ \cup Pinned(p, q, new)]
        ELSE dirs[q]]

\* initialFillTheGaps() runs into the limit: it begins with the deepest directory,
\* and comes to add watches only when all are made.
GapTooLong(p) ==
    LET made == {q \in Gap(p) : Len(p) - Len(q) < Room}
    IN  /\ Cardinality(Gap(p)) > Room
        /\ dirs' = [q \in DOMAIN dirs \cup made |->
                       IF q \in made
                       THEN [Owned(q) EXCEPT !.pinnedDirs = Pinned(p, q, made)]
                       ELSE dirs[q]]

\* The exception ends in start() or calcToWatchDirectories(), which forget nothing.
GiveUp ==
    /\ running' = FALSE
    /\ stage' = "idle"
    /\ todo' = {}
    /\ toVisit' = {}
    /\ UNCHANGED config

Abort ==
    /\ running' = FALSE
    /\ stage' = "aborted"
    /\ todo' = {}
    /\ toVisit' = {}
    /\ UNCHANGED dirs /\ UNCHANGED config

\* The kernel has no room (ENOSPC, ENOMEM) for the watch of a directory in the gap
\* to p, when those above it have theirs.
NoRoomInGap(p) ==
    LET filled == WithGapFilled(p, Gap(p)) IN
    \E q \in Watching(Gap(p)) :
        dirs' = [d \in DOMAIN filled |->
                    IF d \in Gap(p) /\ Len(d) >= Len(q)
                    THEN [filled[d] EXCEPT !.watched = FALSE] ELSE filled[d]]

\* initialFillTheGaps() for the directory of a zone or of a file
FillTheGaps(p, e, filled) ==
    \/ GapTooLong(p) /\ GiveUp
    \/ /\ Cardinality(Gap(p)) <= Room
       /\ \/ NoRoomInGap(p) /\ GiveUp
          \/ Asserts(Gap(p)) /\ Abort
    \/ /\ Cardinality(Gap(p)) <= Room
       /\ ~Asserts(Gap(p))
       /\ dirs' = filled
       /\ todo' = todo \ {e}
       /\ UNCHANGED <<running, stage, toVisit>> /\ UNCHANGED config

FillZoneGaps(z) ==
    /\ stage = "zone gaps"
    /\ z \in todo
    /\ FillTheGaps(z.path, z, WithGapFilled(z.path, Gap(z.path)))

\* Mutant: the file's name is not pinned.
FillFileGapsOnly(f) ==
    /\ stage = "file gaps"
    /\ f \in todo
    /\ FillTheGaps(f.dir, f, WithGapFilled(f.dir, Gap(f.dir)))

\* The file's name is pinned in its directory.
FillFileGaps(f) ==
    /\ stage = "file gaps"
    /\ f \in todo
    /\ FillTheGaps(f.dir, f,
                   [WithGapFilled(f.dir, Gap(f.dir)) EXCEPT ![f.dir].pinnedFiles = @ \cup {f.name}])

NextStage ==
    /\ todo = {}
    /\ \/ stage = "zone gaps" /\ stage' = "file gaps" /\ todo' = files
       \/ stage = "file gaps" /\ stage' = "create" /\ todo' = zones
       \/ stage = "create" /\ toVisit = {} /\ stage' = "idle" /\ UNCHANGED todo
    /\ UNCHANGED <<running, toVisit, dirs>> /\ UNCHANGED config

\* Mutant: a leaf of the zone is entered.
SubdirectoriesOfAny(p, dir) ==
    IF p \in denied THEN {} ELSE {q \in disk : q # <<>> /\ ParentOf(q) = p}

\* The directories initialCreateToWatchDir() reads in p; it ignores that it may not.
Subdirectories(p, dir) ==
    IF dir.leaf \/ p \in denied THEN {} ELSE {q \in disk : q # <<>> /\ ParentOf(q) = p}

\* Mutant: the base path itself is listed with its subdirectories.
CreateZoneWithDot(z) ==
    /\ stage = "create"
    /\ z \in todo
    /\ toVisit = {}
    /\ toVisit' = Subdirectories(z.path, dirs[z.path]) \cup {Append(z.path, ".")}
    /\ todo' = todo \ {z}
    /\ UNCHANGED <<running, stage, dirs>> /\ UNCHANGED config

CreateZone(z) ==
    /\ stage = "create"
    /\ z \in todo
    /\ toVisit = {}
    /\ toVisit' = Subdirectories(z.path, dirs[z.path])
    /\ todo' = todo \ {z}
    /\ UNCHANGED <<running, stage, dirs>> /\ UNCHANGED config

\* initialCreateToWatchDir() comes to p, the subdirectory of one it has entered.
CreateToWatchDir(p) ==
    LET parent  == dirs[ParentOf(p)]
        known   == p \in DOMAIN dirs
        dir     == IF known THEN dirs[p] ELSE Owned(p)
        new     == IF dir.watched THEN {} ELSE {p}
        skipped == FilteredOutSubDir(parent, p) \/ (known /\ dir.owner # parent.owner)
        With(watched) == [q \in DOMAIN dirs \cup {p} |->
                             IF q = p THEN [dir EXCEPT !.watched = watched] ELSE dirs[q]]
    IN  /\ p \in toVisit
        /\ \/ /\ skipped
              /\ toVisit' = toVisit \ {p}
              /\ UNCHANGED <<running, stage, todo, dirs>> /\ UNCHANGED config
           \/ /\ ~skipped
              /\ known \/ Room > 0
              /\ ~Asserts(new)
              /\ dirs' = With(dir.watched \/ p \in Watching(new))
              /\ toVisit' = (toVisit \ {p}) \cup
                     (IF running /\ ~dirs'[p].watched THEN {} ELSE Subdirectories(p, dir))
              /\ UNCHANGED <<running, stage, todo>> /\ UNCHANGED config
           \/ /\ ~skipped
              /\ known \/ Room > 0
              /\ \/ Watching(new) # {} /\ dirs' = With(FALSE) /\ GiveUp
                 \/ Asserts(new) /\ Abort
           \/ /\ ~skipped /\ ~known /\ Room <= 0
              /\ GiveUp /\ UNCHANGED dirs

\* stop(): the ToWatchDirs stay, the watches do not.
Stop ==
    /\ stage = "idle" /\ running
    /\ running' = FALSE
    /\ UNCHANGED <<stage, todo, toVisit, dirs>> /\ UNCHANGED config

-----------------------------------------------------------------------------

Configure ==
    \/ \E z \in AllZones : AddDirectoryZone(z) \/ RemoveDirectoryZone(z)
    \/ \E f \in AllFiles : AddToWatchFile(f) \/ RemoveToWatchFile(f)

InitialSetup ==
    \/ \E z \in AllZones : FillZoneGaps(z) \/ CreateZone(z)
    \/ \E f \in AllFiles : FillFileGaps(f)
    \/ \E p \in Tree : CreateToWatchDir(p)
    \/ NextStage

\* Nothing follows a failed assertion.
Aborted == stage = "aborted" /\ UNCHANGED vars

Next ==
    \/ Configure
    \/ CalcToWatchDirectories
    \/ Start
    \/ InitialSetup
    \/ Stop
    \/ Aborted

Spec == Init /\ [][Next]_vars

-----------------------------------------------------------------------------
(* Properties.  The reference for the depth of a path is its length, and for *)
(* a filter the names it describes.                                          *)

Covers(z, p) == IsPrefix(z.path, p) /\ Len(p) - Len(z.path) <= z.maxDepth

\* Of the zones whose depth reaches p, the one with the closest base path, if any
Closest(p) ==
    {z \in zones : Covers(z, p) /\ \A y \in zones : Covers(y, p) => Len(y.path) <= Len(z.path)}

Passes(includes, excludes, n) ==
    /\ includes = {} \/ \E f \in includes : n \in f.names
    /\ \A f \in excludes : n \notin f.names

\* The directories on the way to a zone or a file
OnTheWay == UNION ({Upwards(z.path) : z \in zones} \cup {Upwards(f.dir) : f \in files})

Started == running /\ stage = "idle"

(* What the names, the filters and the files have to be like for some of the  *)
(* properties: where the code compares the beginnings of strings, they are    *)
(* beginnings of paths (see PathDepth); no regular expressions.              *)
NamesAreApart ==
    /\ \A p \in Tree : \A b \in {z.path : z \in AllZones} :
          StringBeginsWith(p, b) => IsPrefix(b, p)
    /\ (\E z \in AllZones : z.path = <<>>) => \A p \in Tree : Len(p) > 1 => Size[p[1]] > 1

FiltersAreExact == \A z \in AllZones : \A f \in z.dirIncludes \cup z.dirExcludes : f.exact

(* Whatever is missing on the way to a zone or to a file, and whatever its     *)
(* neighbours' filters exclude, is noticed when it appears: every ToWatchDir  *)
(* has one for its parent, which does not filter it out, and is watched when  *)
(* it exists and may be read.                                                *)
AppearanceIsNoticed ==
    Started => \A p \in DOMAIN dirs :
        /\ dirs[p].watched <=> p \in disk \ denied
        /\ p # <<>> => ParentOf(p) \in DOMAIN dirs /\ ~FilteredOutSubDir(dirs[ParentOf(p)], p)

\* p belongs to z, and the directories from z's base path down to it may be watched
\* and, as far as they lead to p, read
Wanted(p, z) ==
    /\ z \in Closest(p)
    /\ \A k \in Len(z.path)..(Len(p) - 1) : SubSeq(p, 1, k) \notin denied
    /\ \A k \in (Len(z.path) + 1)..Len(p) :
          LET q == SubSeq(p, 1, k) IN
          /\ z \in Closest(q)
          /\ Passes(z.dirIncludes, z.dirExcludes, NameOf(q))
          /\ q \notin FakePaths

(* calcToWatchDirectories(): "ToWatchDir objects are created for each existing *)
(* directory in the zones", with the zone and the depth it has in it.  This    *)
(* holds for filters by exact names; the run ZoneSetup_regex refutes it for   *)
(* regular expressions.                                                      *)
ZonesAreCovered ==
    Started => \A z \in zones : \A p \in disk :
        Wanted(p, z) => /\ p \in DOMAIN dirs
                        /\ dirs[p].owner = {z.path}
                        /\ dirs[p].depth = Len(p) - Len(z.path)

(* No other directory is watched: one that does not lead to a zone or a file  *)
(* exists, belongs to the zone of its parent and passes its filters.         *)
NothingElseIsWatched ==
    Started => \A p \in DOMAIN dirs \ OnTheWay :
        \E z \in Closest(p) :
            /\ p \in disk
            /\ dirs[ParentOf(p)].owner = {z.path}
            /\ Passes(z.dirIncludes, z.dirExcludes, NameOf(p))

\* A zone inside another one does not reach p, which the outer one would.
Shadowed(p) ==
    \E z \in Closest(p), y \in zones : IsPrefix(y.path, p) /\ Len(z.path) < Len(y.path)

(* "If a watched directory is within two or more (overlapping) zones, the one *)
(* with the base path closest to it is its owner zone", and one that is in no *)
(* zone has none, so that only its pinned names are reported.  This holds as   *)
(* long as no name begins with that of its neighbour: see PathDepth.  Nothing *)
(* is said here of what an inner zone shadows: by fofimodel.h:183-192 it is in *)
(* no zone, but setDirectoryZone() goes on to the outer one.                 *)
OwnersAreClosest ==
    Started => \A p \in DOMAIN dirs :
        ~Shadowed(p) => dirs[p].owner = {z.path : z \in Closest(p)}

(* A single file is reported wherever it is, whatever the filters say.        *)
SingleFilesAreReported ==
    Started => \A f \in files :
        f.dir \in DOMAIN dirs /\ ~FilteredOutFile(dirs[f.dir], f.name)

-----------------------------------------------------------------------------
(* Why these hold: from Setup() on, until the run or the calculation is over, *)
(* each step leaves the ToWatchDirs there are with their owners, and adds some *)
(* whose parents are there.                                                  *)

Active == stage \notin {"idle", "aborted"} \/ running

\* The configuration is one that the methods accept, and each stage works off its part.
ConfigInv ==
    /\ \A p \in disk : Upwards(p) \subseteq disk
    /\ \A y, z \in zones : y.path = z.path => y = z
    /\ \A z \in zones : \A f \in FakePaths : ~StringBeginsWith(z.path, f)
    /\ stage \in {"zone gaps", "create"} => todo \subseteq zones
    /\ stage = "file gaps" => todo \subseteq files
    /\ stage \in {"idle", "aborted"} => todo = {}
    /\ stage # "create" => toVisit = {}
    /\ Active => zones # {} \/ files # {}

\* Every ToWatchDir but that of "/" has one for its parent, in which it is not
\* filtered out; what is pinned leads to a zone or a file.
WaysInv ==
    \A p \in DOMAIN dirs :
        /\ dirs[p].watched <=> running /\ Watchable(p)
        /\ running => ~InFakeFS(p)
        /\ Upwards(p) \subseteq DOMAIN dirs
        /\ p # <<>> => ~FilteredOutSubDir(dirs[ParentOf(p)], p)
        /\ \A n \in dirs[p].pinnedDirs : Append(p, n) \in OnTheWay

\* The zones that were come to have a ToWatchDir.
GapsInv ==
    /\ stage = "zone gaps" => \A z \in zones \ todo : z.path \in DOMAIN dirs
    /\ stage # "zone gaps" => \A z \in zones : z.path \in DOMAIN dirs

PinnedInDir(f) == f.dir \in DOMAIN dirs /\ f.name \in dirs[f.dir].pinnedFiles

\* The single files that were come to are pinned.
FilesInv ==
    /\ stage = "file gaps" => \A f \in files \ todo : PinnedInDir(f)
    /\ stage \in {"create", "idle"} => \A f \in files : PinnedInDir(f)

\* The owner is the closest zone, and the depth is counted from its base path.
OwnersInv ==
    \A p \in DOMAIN dirs :
        /\ dirs[p].owner = {z.path : z \in Closest(p)}
        /\ \A z \in Closest(p) : dirs[p].depth = Len(p) - Len(z.path)
        /\ dirs[p].leaf <=> \A z \in Closest(p) : Len(p) - Len(z.path) = z.maxDepth

\* What is visited is below a ToWatchDir that is no leaf.
VisitInv == \A p \in toVisit : /\ p # <<>>
                               /\ ParentOf(p) \in DOMAIN dirs
                               /\ ~dirs[ParentOf(p)].leaf

\* The way to whatever is to be watched in a zone is about to be visited at one place,
\* until it was all visited.
CoverInv ==
    running /\ stage \in {"create", "idle"} =>
        \A z \in zones \ todo : \A p \in disk :
            Wanted(p, z) => \/ p \in DOMAIN dirs
                            \/ \E k \in (Len(z.path) + 1)..Len(p) : SubSeq(p, 1, k) \in toVisit

\* Nothing that does not lead to a zone or a file was added for another reason.
OnlyInv ==
    \A p \in DOMAIN dirs \ OnTheWay :
        \E z \in Closest(p) :
            /\ p \in disk
            /\ dirs[ParentOf(p)].owner = {z.path}
            /\ Passes(z.dirIncludes, z.dirExcludes, NameOf(p))

SetupInv == ConfigInv /\ (Active => WaysInv /\ GapsInv /\ FilesInv /\ VisitInv)

IInv == SetupInv /\ (Active => OwnersInv /\ CoverInv /\ OnlyInv)

=============================================================================
