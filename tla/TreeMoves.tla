------------------------------- MODULE TreeMoves -------------------------------
(***************************************************************************)
(* Renames of directories, with all that is in them, within a zone, into it, *)
(* out of it and from one zone to another, that may have a different depth    *)
(* and different filters.  A watch belongs to an inode and goes with it; the   *)
(* slot of the watch has to be handed over to the ToWatchDir of the new path,  *)
(* in step with the results of everything below.                            *)
(*                                                                         *)
(* start() has returned, and its queue is empty.  Handlers are atomic here:  *)
(* what other processes may do in the middle of a scan is DirTree's matter,  *)
(* and how the two events of a rename interleave with others FileMoves'.     *)
(***************************************************************************)
EXTENDS Naturals, Sequences, SequencesExt, FiniteSets, FiniteSetsExt, ResultLife

CONSTANTS Bases,      \* directories that always exist; some are base paths of zones
          Dirs,       \* paths of the other directories
          Files,      \* paths of files
          Starts,     \* what there may be at the start: sets of paths
          Zones,      \* the zones there may be: see ZonesAssumption
          MaxQueue,   \* max_queued_events
          MaxChanges  \* bound: how often other processes change something

AllDirs == Dirs \cup Bases
Nodes   == Dirs \cup Files

ASSUME PathsAssumption  == \A n \in Nodes : n # <<>> /\ \A b \in Bases : ~IsPrefix(n, b)
ASSUME BasesAssumption  == \A b, c \in Bases : IsPrefix(b, c) => b = c
ASSUME KindsAssumption  == Dirs \cap Files = {} /\ Bases \cap Nodes = {}
ASSUME StartsAssumption == Starts \subseteq SUBSET Nodes
\* The depth of each zone, by its base path, and the paths that isFilteredOut() rejects
ASSUME ZonesAssumption  == \A s \in Zones : /\ DOMAIN s.maxDepth \subseteq Bases
                                          /\ s.maxDepth \in [DOMAIN s.maxDepth -> Nat]
                                          /\ s.excluded \subseteq Nodes
ASSUME BoundsAssumption == MaxQueue \in Nat /\ MaxChanges \in Nat

\* An inode is 0 where there is no directory.
LastInode == Cardinality(AllDirs) + MaxChanges

VARIABLES
    inode,      \* inode[d]: the inode of the directory d
    files,      \* the files that exist
    queue,      \* the inotify queue
    lost,       \* ghost: an event was dropped, the queue being full
    changes,    \* how often something was changed; also the cookie of the last rename
    zones,      \* the zones, of Zones
    fofi,       \* FofiModel, and the watches of INotifierSource: see Fofi
    openMoves,  \* m_aOpenMoves
    overtaken,  \* ghost: an event of a path was handled before an open move of it
                \* or of something below it
    hasty,      \* ghost: a directory came to a path where another was still to be handled
    unveiled,   \* ghost: a file or directory that was filtered out came, with the
                \* directory it is in, to where it is not
    atStart     \* ghost: the files and directories that existed at the start

outside == <<inode, files, queue, lost, changes, hasty, unveiled>>
vars    == <<inode, files, queue, lost, changes, hasty, unveiled, zones, fofi, openMoves, overtaken, atStart>>

Event == [wd: Nat, name: {Last(n) : n \in Nodes}, dir: BOOLEAN,
          act: {"create", "delete", "from", "to"}, cookie: Nat]

OpenMove == [path: Nodes, cookie: Nat, filteredOut: BOOLEAN]

\*   watchOf    the watch the kernel has on an inode, 0 if none
\*   lastWd     the last watch descriptor given out
\*   toWatch    "none" without a ToWatchDir, else by its m_bExists
\*   wd         the watch the ToWatchDir holds, 0 if none
\*   existing   m_aExisting of all ToWatchDirs, without those m_bRemoved
\*   results    the WatchedResults
\*   flagged    m_bHasInconsistencies
\*   skipped    ghost: a scan left out a file or directory nobody had told of
\*   failed     the assertions that have failed
Fofi == [watchOf: [0..LastInode -> Nat], lastWd: Nat,
         toWatch: [AllDirs -> {"none", "exists", "gone"}], wd: [AllDirs -> Nat],
         existing: SUBSET Nodes, results: [Nodes -> WatchedResult], flagged: BOOLEAN,
         skipped: BOOLEAN, failed: SUBSET {"addPath", "onFileModified", "traverseRename", "sFromPath"}]

TypeOK ==
    /\ inode \in [AllDirs -> 0..LastInode]
    /\ files \subseteq Files
    /\ queue \in Seq(Event)
    /\ lost \in BOOLEAN
    /\ changes \in 0..MaxChanges
    /\ zones \in Zones
    /\ fofi \in Fofi
    /\ openMoves \in Seq(OpenMove)
    /\ overtaken \in BOOLEAN
    /\ hasty \in BOOLEAN
    /\ unveiled \in BOOLEAN
    /\ atStart \subseteq Nodes

ParentOf(n) == Front(n)

Children(d) == {n \in Nodes : ParentOf(n) = d}

Present == {d \in AllDirs : inode[d] # 0} \cup files

Leaf(d) == \E b \in DOMAIN zones.maxDepth :
    IsPrefix(b, d) /\ Len(d) - Len(b) = zones.maxDepth[b]

\* Directories that get a ToWatchDir when they exist
RECURSIVE InZone(_)
InZone(d) ==
    \/ d \in DOMAIN zones.maxDepth
    \/ d \in Dirs \ zones.excluded /\ InZone(ParentOf(d)) /\ ~Leaf(ParentOf(d))

ZoneDirs == {d \in AllDirs : InZone(d)}

Reportable(n) == n \notin zones.excluded /\ ParentOf(n) \in ZoneDirs

\* The directories, numbered
FirstInodes == FoldSet(LAMBDA d, f : f @@ (d :> Cardinality(DOMAIN f) + 1), <<>>, AllDirs)

Started ==
    LET watched == {d \in ZoneDirs : inode[d] # 0} IN
    [watchOf  |-> [i \in 0..LastInode |-> IF \E d \in watched : inode[d] = i THEN i ELSE 0],
     lastWd   |-> Cardinality(AllDirs),
     toWatch  |-> [d \in AllDirs |-> IF d \in watched THEN "exists" ELSE "none"],
     wd       |-> [d \in AllDirs |-> IF d \in watched THEN inode[d] ELSE 0],
     existing |-> {n \in Nodes : n \in Present /\ ParentOf(n) \in watched},
     results  |-> [n \in Nodes |-> NoResult],
     flagged  |-> FALSE,
     skipped  |-> FALSE,
     failed   |-> {}]

Init ==
    /\ zones \in Zones
    /\ atStart \in Starts
    /\ inode = [d \in AllDirs |-> IF d \in atStart \cup Bases THEN FirstInodes[d] ELSE 0]
    /\ files = atStart \cap Files
    /\ queue = <<>>
    /\ lost = FALSE
    /\ changes = 0
    /\ fofi = Started
    /\ openMoves = <<>>
    /\ overtaken = FALSE
    /\ hasty = FALSE
    /\ unveiled = FALSE

-----------------------------------------------------------------------------
(* Other processes.                                                         *)

\* The event of n for the watch on the directory it is in, if there is one
EventOf(n, act, cookie) ==
    LET d == ParentOf(n)
        w == IF d \in AllDirs THEN fofi.watchOf[inode[d]] ELSE 0
    IN  IF w = 0 THEN <<>>
        ELSE <<[wd |-> w, name |-> Last(n), dir |-> n \in Dirs, act |-> act, cookie |-> cookie]>>

\* The kernel queues these events, as long as there is room.
Post(events) ==
    LET all == queue \o events IN
    /\ queue' = SubSeq(all, 1, Min({MaxQueue, Len(all)}))
    /\ lost' = (lost \/ Len(all) > MaxQueue)

Change ==
    /\ changes < MaxChanges
    /\ changes' = changes + 1
    /\ UNCHANGED <<zones, openMoves, overtaken, atStart>>

\* It is still queued that something came to n.
Announced(n) == \E e \in ToSet(EventOf(n, "create", 0)) : \E i \in DOMAIN queue :
    queue[i].wd = e.wd /\ queue[i].name = e.name /\ queue[i].act \in {"create", "to"}

\* Places where something can be made: in a directory that exists
Place(n) == n \notin Present /\ (ParentOf(n) \in AllDirs => ParentOf(n) \in Present)

MakeDir(d) ==
    /\ Change
    /\ Place(d)
    /\ inode' = [inode EXCEPT ![d] = Cardinality(AllDirs) + changes + 1]
    /\ hasty' = (hasty \/ Announced(d))
    /\ Post(EventOf(d, "create", 0))
    /\ UNCHANGED <<files, fofi, unveiled>>

Empty(d) == Children(d) \cap Present = {}

\* The watch goes with the inode.
RemoveDir(d) ==
    /\ Change
    /\ d \in Present /\ Empty(d)
    /\ inode' = [inode EXCEPT ![d] = 0]
    /\ fofi' = [fofi EXCEPT !.watchOf[inode[d]] = 0]
    /\ Post(EventOf(d, "delete", 0))
    /\ UNCHANGED <<files, hasty, unveiled>>

CreateFile(f) ==
    /\ Change
    /\ Place(f)
    /\ files' = files \cup {f}
    /\ Post(EventOf(f, "create", 0))
    /\ UNCHANGED <<inode, fofi, hasty, unveiled>>

DeleteFile(f) ==
    /\ Change
    /\ f \in files
    /\ files' = files \ {f}
    /\ Post(EventOf(f, "delete", 0))
    /\ UNCHANGED <<inode, fofi, hasty, unveiled>>

\* The path of n after d has become e
Rebase(n, d, e) == e \o SubSeq(n, Len(d) + 1, Len(n))

\* Bound: what may be in d may be in e too.
Fits(d, e) == \A n \in Nodes : IsPrefix(d, n) => Rebase(n, d, e) \in Nodes

\* n is in the directory d, in a directory of a zone that filters it out; in e it
\* is not filtered out.
Unveils(n, d, e) ==
    /\ n # d /\ IsPrefix(d, n)
    /\ n \in zones.excluded /\ ParentOf(n) \in ZoneDirs
    /\ Reportable(Rebase(n, d, e))

\* rename(2) of d to e; an empty directory at e is replaced, which is no event of e.
MoveDir(d, e) ==
    /\ Change
    /\ d \in Present
    /\ ~IsPrefix(d, e) /\ ~IsPrefix(e, d)
    /\ Fits(d, e)
    /\ Place(e) \/ (e \in Present /\ Empty(e))
    /\ inode' = [n \in AllDirs |->
                    IF IsPrefix(d, n) THEN 0
                    ELSE IF IsPrefix(e, n)
                         THEN IF Rebase(n, e, d) \in Dirs THEN inode[Rebase(n, e, d)] ELSE 0
                    ELSE inode[n]]
    /\ files' = {n \in files : ~IsPrefix(d, n)}
                    \cup {Rebase(n, d, e) : n \in {f \in files : IsPrefix(d, f)}}
    /\ fofi' = [fofi EXCEPT !.watchOf = [@ EXCEPT ![inode[e]] = 0]]
    /\ hasty' = (hasty \/ Announced(e))
    /\ unveiled' = (unveiled \/ \E n \in Present : Unveils(n, d, e))
    /\ Post(EventOf(d, "from", changes + 1) \o EventOf(e, "to", changes + 1))

Environment ==
    \/ \E d \in Dirs : MakeDir(d) \/ RemoveDir(d)
    \/ \E f \in Files : CreateFile(f) \/ DeleteFile(f)
    \/ \E d, e \in Dirs : MoveDir(d, e)

-----------------------------------------------------------------------------
(* Watches, results and scans: functions from one state of fofi, s, to the   *)
(* next.                                                                    *)

\* Mutant: the ToWatchDir does not learn of its watch.
AddWatchOnly(s, d) ==
    IF inode[d] = 0 THEN s
    ELSE [s EXCEPT !.watchOf[inode[d]] = s.lastWd + 1, !.lastWd = @ + 1]

\* addPath(): the kernel answers with the watch that the inode already has.
AddWatch(s, d) ==
    IF inode[d] = 0 THEN s
    ELSE IF s.watchOf[inode[d]] # 0 THEN [s EXCEPT !.failed = @ \cup {"addPath"}]
    ELSE [s EXCEPT !.watchOf[inode[d]] = s.lastWd + 1, !.wd[d] = s.lastWd + 1, !.lastWd = @ + 1]

\* removePath(), if d is watched
RemoveWatch(s, d) ==
    [s EXCEPT !.wd[d] = 0,
              !.watchOf = [i \in DOMAIN @ |-> IF @[i] = s.wd[d] THEN 0 ELSE @[i]]]

\* The result of n becomes "new".
Put(s, n, new) ==
    LET old == s.results[n] IN
    [s EXCEPT !.results[n] = new,
              !.existing = IF old = NoResult THEN @ \ {n} ELSE @,
              !.flagged = @ \/ (new.inconsistent /\ ~old.inconsistent)]

Flag(s, n) == Put(s, n, [s.results[n] EXCEPT !.inconsistent = TRUE, !.immediate = FALSE])

CreatedAgain(s, n) == s.toWatch[n] = "exists" /\ ~s.results[n].immediate

\* The result of a directory whose creation is reported; it may be known already.
Created(s, n, new) ==
    IF CreatedAgain(s, n) /\ s.results[n] = NoResult
    THEN [new EXCEPT !.type = "modified", !.inconsistent = TRUE] ELSE new

\* n has been reported as created: a directory gets a ToWatchDir, is watched and
\* scanned.  "again" tells that it was taken to exist already.
RECURSIVE Scan(_, _, _)
Enter(s, n, again) ==
    IF n \in Files \/ (s.toWatch[n] = "none" /\ Leaf(ParentOf(n))) THEN s
    ELSE LET marked  == [(IF again THEN RemoveWatch(s, n) ELSE s) EXCEPT !.toWatch[n] = "exists"]
             watched == IF marked.wd[n] = 0 THEN AddWatch(marked, n) ELSE marked
         IN  IF watched.wd[n] = 0 THEN watched ELSE Scan(watched, n, {})

Discover(s, n) ==
    LET new == OnScan(s.results[n]) IN
    IF n \in zones.excluded THEN [s EXCEPT !.existing = @ \cup {n}]
    ELSE IF n \in Files THEN Put(s, n, new)
    ELSE Enter(Put(s, n, Created(s, n, new)), n, CreatedAgain(s, n))

\* createImmediateChildren(), but for the children in "except"
Scan(s, d, except) ==
    FoldSet(LAMBDA n, t : Discover(t, n), s, (Children(d) \cap Present) \ except)

-----------------------------------------------------------------------------
(* traverseRename(): "from" or "to" is NoPath when that side is not watched  *)
(* or is filtered out.                                                      *)

NoPath == <<>>

\* Mutant: a directory or file that leaves is always one that was there at the start.
MovedFromForgetful(r) ==
    [type |-> "deleted", inconsistent |-> r.inconsistent \/ (r # NoResult /\ ~Exists(r)),
     immediate |-> FALSE]

MovedFrom(r) ==
    IF r = NoResult
    THEN [type |-> "deleted", inconsistent |-> FALSE, immediate |-> FALSE]
    ELSE [type |-> GoneType(r), inconsistent |-> r.inconsistent \/ ~Exists(r), immediate |-> FALSE]

MovedTo(r) ==
    [type |-> PresentType(r), inconsistent |-> r.inconsistent, immediate |-> FALSE]

\* The two results of the file or directory itself
Reported(s, from, to) ==
    LET t == IF from = NoPath THEN s ELSE Put(s, from, MovedFrom(s.results[from])) IN
    IF to = NoPath THEN t ELSE Put(t, to, MovedTo(t.results[to]))

Forgotten(s, d) == [s EXCEPT !.existing = @ \ Children(d)]

\* Mutant: the watch of a directory that was replaced is kept.
PreparedWatched(s, to) ==
    IF to = NoPath THEN s
    ELSE IF s.toWatch[to] = "exists" THEN Forgotten(Flag(s, to), to)
    ELSE IF s.toWatch[to] = "none" /\ Leaf(ParentOf(to)) THEN s
    ELSE [s EXCEPT !.toWatch[to] = "exists"]

\* The ToWatchDir of the destination, which exists from now on; one that was
\* taken to exist has been replaced.
Prepared(s, to) ==
    IF to = NoPath THEN s
    ELSE IF s.toWatch[to] = "exists" THEN Forgotten(Flag(RemoveWatch(s, to), to), to)
    ELSE IF s.toWatch[to] = "none" /\ Leaf(ParentOf(to)) THEN s
    ELSE [s EXCEPT !.toWatch[to] = "exists"]

\* What FofiModel believes of n
KnownIn(s, n) ==
    IF s.results[n] = NoResult THEN n \in s.existing ELSE Exists(s.results[n])

IsWatchDir(s, d) == d # NoPath /\ s.toWatch[d] = "exists"

\* Mutant: the watch is always removed.
HandedOverNever(s, from, to) == IF s.wd[from] = 0 THEN s ELSE RemoveWatch(s, from)

\* Mutant: it is never removed.
HandedOverOnly(s, from, to) ==
    IF s.wd[from] = 0 \/ ~IsWatchDir(s, to) THEN s
    ELSE [s EXCEPT !.wd[to] = s.wd[from], !.wd[from] = 0]

\* The watch of "from" is handed over, or removed.
HandedOver(s, from, to) ==
    IF s.wd[from] = 0 THEN s
    ELSE IF ~IsWatchDir(s, to) THEN RemoveWatch(s, from)
    ELSE [s EXCEPT !.wd[to] = s.wd[from], !.wd[from] = 0,
                   !.failed = IF s.wd[to] = 0 THEN @ ELSE @ \cup {"traverseRename"}]

\* Children of a directory that its ToWatchDir knows of, and those of them that
\* it takes to exist
Visited(s, d) ==
    {n \in Children(d) : s.results[n] # NoResult \/ n \in s.existing
                            \/ (n \in Dirs /\ s.toWatch[n] # "none")}

\* Mutant: without the third loop, over m_aExisting
BelievedOfResults(s, d) ==
    {n \in Visited(s, d) :
        IF n \in Dirs /\ s.toWatch[n] # "none" THEN s.toWatch[n] = "exists"
        ELSE Exists(s.results[n])}

Believed(s, d) ==
    {n \in Visited(s, d) :
        IF n \in Dirs /\ s.toWatch[n] # "none" THEN s.toWatch[n] = "exists"
        ELSE n \in s.existing \/ Exists(s.results[n])}

\* The ToWatchDir of a directory at n, where one with a ToWatchDir comes to, has
\* missed its removal.
Vacated(s, child, n) ==
    IF child \in Dirs /\ s.toWatch[child] # "none" /\ IsWatchDir(s, n)
    THEN [Forgotten(RemoveWatch(s, n), n) EXCEPT !.toWatch[n] = "gone"] ELSE s

RECURSIVE Traverse(_, _, _)

\* The third loop comes to n: it has neither a ToWatchDir nor a result.
OnlyKnown(s, n) ==
    n \in s.existing /\ s.results[n] = NoResult /\ (n \in Dirs => s.toWatch[n] = "none")

\* "child" goes from its directory to "to", if that has a ToWatchDir that exists.
\* When it is filtered out where it comes from, and not where it goes to,
\* traverseRename() is called with an empty sFromPath.
MoveChild(s, child, to) ==
    LET toChild == IF IsWatchDir(s, to) THEN Append(to, Last(child)) ELSE NoPath
        from    == {child} \ zones.excluded
        dest    == {toChild} \ (zones.excluded \cup {NoPath})
        known   == IF toChild \in zones.excluded /\ OnlyKnown(s, child)
                   THEN [s EXCEPT !.existing = @ \cup {toChild}] ELSE s
    IN  IF from # {}
        THEN Traverse(IF dest = {} THEN known ELSE Vacated(known, child, toChild), child,
                      IF dest = {} THEN NoPath ELSE toChild)
        ELSE IF dest # {} THEN [known EXCEPT !.failed = @ \cup {"sFromPath"}]
        ELSE known

Traverse(s, from, to) ==
    LET reported == Reported(s, from, to)
        prepared == Prepared(reported, to)
        leaving  == IsWatchDir(reported, from)
        handed   == IF leaving
                    THEN [HandedOver(prepared, from, to) EXCEPT !.toWatch[from] = "gone"]
                    ELSE prepared
        moved    == IF leaving
                    THEN Forgotten(FoldSet(LAMBDA n, t : MoveChild(t, n, to), handed,
                                           Believed(handed, from)), from)
                    ELSE prepared
        watched  == IF moved.wd[to] = 0 THEN AddWatch(moved, to) ELSE moved
        visited  == IF leaving THEN {Rebase(n, from, to) : n \in Visited(prepared, from)} ELSE {}
        missed   == {n \in visited \cap Present : ~KnownIn(moved, n)}
    IN  IF Nodes \cap {from, to} \subseteq Files THEN reported
        ELSE IF ~IsWatchDir(prepared, to) THEN moved
        ELSE IF moved.wd[to] # 0 \/ watched.wd[to] = 0 THEN watched
        ELSE Scan([watched EXCEPT !.skipped = @ \/ missed # {}], to, visited)

-----------------------------------------------------------------------------
(* onFileModified() and onCheckOpenMoves().                                 *)

Unfiltered(n) == IF n \in zones.excluded THEN NoPath ELSE n

\* A directory is moved that has no ToWatchDir, and should have one.
Unexpected(n) == n \in Dirs \ zones.excluded /\ fofi.toWatch[n] = "none" /\ ~Leaf(ParentOf(n))

\* Mutant: the path of the directory that n is in
RenameFromParent(n, cookie) ==
    /\ openMoves' = Append(openMoves, [path |-> ParentOf(n), cookie |-> cookie,
                                       filteredOut |-> n \in zones.excluded])
    /\ UNCHANGED fofi

RenameFrom(n, cookie) ==
    /\ openMoves' = Append(openMoves,
                           [path |-> n, cookie |-> cookie, filteredOut |-> n \in zones.excluded])
    /\ fofi' = IF ~Unexpected(n) THEN fofi
               ELSE [fofi EXCEPT !.toWatch[n] = "exists",
                                 !.failed = IF fofi.results[n] = NoResult /\ n \notin fofi.existing
                                            THEN @ ELSE @ \cup {"onFileModified"}]

\* The last open move takes the place of the one that is closed.
Closed(i) ==
    LET last == Len(openMoves) IN
    [j \in 1..(last - 1) |-> IF j = i THEN openMoves[last] ELSE openMoves[j]]

RenameTo(n, cookie) ==
    \/ \E i \in DOMAIN openMoves :
          /\ openMoves[i].cookie = cookie
          /\ LET from == openMoves[i].path IN
             IF openMoves[i].filteredOut /\ n \in zones.excluded
             THEN UNCHANGED <<openMoves, fofi>>
             ELSE /\ fofi' = Traverse(fofi, Unfiltered(from), Unfiltered(n))
                  /\ openMoves' = Closed(i)
    \/ /\ \A i \in DOMAIN openMoves : openMoves[i].cookie # cookie
       /\ fofi' = IF n \in zones.excluded THEN fofi ELSE Traverse(fofi, NoPath, n)
       /\ UNCHANGED openMoves

OnCreated(n) ==
    LET new == OnEvent(fofi.results[n], "create", n \in fofi.existing) IN
    IF n \in Files THEN Put(fofi, n, new)
    ELSE Enter(Put(fofi, n, Created(fofi, n, new)), n, CreatedAgain(fofi, n))

OnDeleted(n) ==
    LET s == Put(fofi, n, OnEvent(fofi.results[n], "delete", n \in fofi.existing)) IN
    IF n \in Dirs /\ s.toWatch[n] = "exists"
    THEN [Forgotten(RemoveWatch(s, n), n) EXCEPT !.toWatch[n] = "gone"] ELSE s

OnFileModified(n, e) ==
    \/ e.act = "from" /\ RenameFrom(n, e.cookie)
    \/ e.act = "to" /\ RenameTo(n, e.cookie)
    \/ /\ e.act \in {"create", "delete"}
       /\ fofi' = IF n \in zones.excluded THEN fofi
                  ELSE IF e.act = "create" THEN OnCreated(n) ELSE OnDeleted(n)
       /\ UNCHANGED openMoves

Overtakes(n, cookie) ==
    \E i \in DOMAIN openMoves :
        openMoves[i].cookie # cookie /\ IsPrefix(n, openMoves[i].path)

\* An assertion that fails ends the program.
Alive == fofi.failed = {}

\* An event whose watch no ToWatchDir holds is skipped.
Dispatch ==
    /\ Alive
    /\ queue # <<>>
    /\ queue' = Tail(queue)
    /\ LET e == Head(queue)
           holders == {d \in AllDirs : fofi.wd[d] = e.wd}
       IN  \/ /\ holders = {}
              /\ UNCHANGED <<fofi, openMoves, overtaken>>
           \/ \E d \in holders :
                 /\ OnFileModified(Append(d, e.name), e)
                 /\ overtaken' = (overtaken \/ Overtakes(Append(d, e.name), e.cookie))
    /\ UNCHANGED <<inode, files, lost, changes, hasty, unveiled, zones, atStart>>

\* The timer's callback: the moves open for too long, the older ones first to be
\* so, are taken for moves to elsewhere; c is the youngest of them.
CheckOpenMoves(c) ==
    LET isOver(m) == m.cookie <= c IN
    /\ Alive
    /\ \E i \in DOMAIN openMoves : openMoves[i].cookie = c
    /\ fofi' = FoldLeft(LAMBDA s, m : IF m.filteredOut THEN s ELSE Traverse(s, m.path, NoPath),
                        fofi, SelectSeq(openMoves, isOver))
    /\ openMoves' = SelectSeq(openMoves, LAMBDA m : ~isOver(m))
    /\ UNCHANGED <<zones, overtaken, atStart>> /\ UNCHANGED outside

Timer == \E i \in DOMAIN openMoves : CheckOpenMoves(openMoves[i].cookie)

Next ==
    \/ Environment
    \/ Dispatch
    \/ Timer

Spec == Init /\ [][Next]_vars

\* The steps of Dispatch, and those of Timer, by what they do to the queue and to
\* the open moves.
Reads   == Alive /\ queue # <<>> /\ queue' = Tail(queue)
Settles == /\ Alive /\ queue' = queue
           /\ \E i \in DOMAIN openMoves :
                openMoves' = SelectSeq(openMoves, LAMBDA m : m.cookie > openMoves[i].cookie)

\* The source is dispatched while it is readable, and the timer goes on.
Fairness == WF_queue(Reads) /\ WF_openMoves(Settles)

FairSpec == Spec /\ Fairness

-----------------------------------------------------------------------------
(* Properties.                                                              *)

\* No event was lost, none overtook an open move, no directory came to a path
\* where an earlier one was still to be handled, no scan left out what nobody had
\* told of, and none came to light by a move of the directory it is in.
Undisturbed == ~lost /\ ~overtaken /\ ~hasty /\ ~fofi.skipped /\ ~unveiled

\* Everything that happened has been handled.
Settled == Alive /\ queue = <<>> /\ openMoves = <<>>

\* After all moves of directories with what is in them, into the zones, out of
\* them and from one to another, FofiModel knows of each path of the zones whether
\* something is there, or says that it may not.
ExistenceIsRight ==
    Undisturbed /\ Settled /\ ~fofi.flagged =>
        \A n \in Nodes : Reportable(n) => (KnownIn(fofi, n) <=> n \in Present)

\* The ToWatchDirs that are taken to exist are the directories of the zones that do;
\* each holds the watch of the inode that is now at its path, wherever that was
\* when the watch was added, and nothing outside the zones has kept its watch.
WatchesAreRight ==
    Undisturbed /\ Settled => \A d \in AllDirs :
        IF inode[d] # 0 /\ d \in ZoneDirs
        THEN fofi.toWatch[d] = "exists" /\ fofi.wd[d] # 0 /\ fofi.wd[d] = fofi.watchOf[inode[d]]
        ELSE fofi.toWatch[d] # "exists" /\ fofi.watchOf[inode[d]] = 0

\* What a result says was there at the start was, whatever was moved over it or
\* through it (MODIFIED and DELETED against CREATED and TEMPORARY).
OldMeansOld ==
    Undisturbed => \A n \in Nodes : ExistedAtStart(fofi.results[n]) =>
        fofi.results[n].inconsistent \/ n \in atStart

\* The assertions of onFileModified() (RENAME_FROM of an unknown directory) and of
\* traverseRename() (a destination is never watched) hold, even after lost events
\* and in what is left of a handler in which addPath()'s, or the one on sFromPath,
\* has failed: those two are what AssertionsHold adds.
OtherAssertionsHold == fofi.failed \subseteq {"addPath", "sFromPath"}

\* Dispatch comes to the second half of the rename of "from" to "to".
Finishes(from, to) ==
    /\ queue # <<>> /\ queue' = Tail(queue)
    /\ \E i \in DOMAIN openMoves :
        openMoves[i].path = from /\ openMoves[i].cookie = Head(queue).cookie
    /\ Head(queue).act = "to" /\ Last(to) = Head(queue).name
    /\ ParentOf(to) \in AllDirs /\ fofi.wd[ParentOf(to)] = Head(queue).wd

\* The handling of a rename within the zones, or between two, hands over every watch of the tree, so
\* that no directory of it is ever without one (renamePath() in traverseRename()).
WatchesMoveAlong ==
    [][\A from, to \in Dirs : Finishes(from, to) /\ Undisturbed /\ Alive' =>
         \A d \in Dirs :
            IsPrefix(from, d) /\ fofi.wd[d] # 0 /\ Rebase(d, from, to) \in ZoneDirs =>
               fofi'.wd[Rebase(d, from, to)] = fofi.wd[d]]_vars

Unwatched(d) ==
    /\ Alive /\ Undisturbed
    /\ inode[d] # 0 /\ d \in ZoneDirs
    /\ fofi.wd[d] = 0 \/ fofi.wd[d] # fofi.watchOf[inode[d]]

\* A directory that comes into a zone, by whatever way, does not stay unwatched.
WatchedEventually == \A d \in Dirs : Unwatched(d) ~> ~Unwatched(d)

\* assert(-1 == findEntryByWatch(nWatchFD)) of addPath(): the inode of a directory
\* that is to be watched is not watched yet.
AddPathFindsNoWatch == "addPath" \notin fofi.failed

\* assert(sFromParentPath.empty() == sFromPath.empty()) of traverseRename(): what is
\* in a directory that goes to a zone with other filters has a path to come from.
RenamedChildHasPath == "sFromPath" \notin fofi.failed

\* All assertions hold, whatever is renamed to where.  Each of the two above is violated.
AssertionsHold == OtherAssertionsHold /\ AddPathFindsNoWatch /\ RenamedChildHasPath

=============================================================================
