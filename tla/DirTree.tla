-------------------------------- MODULE DirTree --------------------------------
(***************************************************************************)
(* A directory zone whose directories come and go.  FofiModel gives every   *)
(* directory a ToWatchDir and a watch; what was put into a directory before *)
(* its watch existed is found by listing it, recursively.  Other processes  *)
(* go on between any two system calls of that listing.                      *)
(*                                                                         *)
(* The zone is rooted at Base, which always exists.  start() has watched    *)
(* Base and is about to list it.  A name is either always a directory or    *)
(* always a plain file.                                                     *)
(***************************************************************************)
EXTENDS Naturals, Sequences, FiniteSets, ResultLife

CONSTANTS Base,       \* the path of the directory zone
          Dirs,       \* the directories that may be below it
          Files,      \* the plain files that may be below it
          Parent,     \* Parent[n]: the directory n is in
          Leaves,     \* the directories at the zone's maximal depth
          IsRoot,     \* m_bIsUserRoot
          MaxQueue,   \* max_queued_events
          MaxMakes    \* bound: how many directories are made

Nodes == Dirs \cup Files

ASSUME ParentAssumption == Parent \in [Nodes -> Dirs \cup {Base}]
ASSUME KindsAssumption  == Dirs \cap Files = {} /\ Base \notin Nodes /\ Leaves \subseteq Dirs
ASSUME TreeAssumption   == \A S \in SUBSET Dirs : S # {} => \E d \in S : Parent[d] \notin S
ASSUME DepthAssumption  == \A d \in Dirs : Parent[d] \in Leaves => \A n \in Nodes : Parent[n] # d
ASSUME BoundsAssumption == IsRoot \in BOOLEAN /\ MaxQueue \in Nat /\ MaxMakes \in Nat

VARIABLES
    disk,       \* disk[n]: whether n exists
    kernelWd,   \* kernelWd[d]: the kernel's watch on the inode now at d, 0 if none
    queue,      \* the inotify queue
    lost,       \* ghost: an event was dropped, the queue being full
    lastWd,     \* the last watch descriptor given out
    makes,      \* how many directories have been made
    hasty,      \* ghost: a directory was made again before its removal was read
    toWatch,    \* toWatch[d]: "none" without a ToWatchDir, else by its m_bExists
    wd,         \* wd[d]: the watch d's ToWatchDir holds, 0 if none
    phase,      \* "setup" during start(), then "running"
    stack,      \* the calls under way, innermost first: see Frame
    existing,   \* m_aExisting of all ToWatchDirs, without those m_bRemoved
    results,    \* results[k]: the WatchedResult of k, by name and m_bIsDir
    hasInconsistencies,
    shown,      \* shown[k]: the type last sent with m_oWatchedResultActionSignal
    atStart     \* ghost: atStart[n], whether n existed when start() began to watch
                \* the directory it is in

files   == <<disk, makes, hasty>>
inotify == <<kernelWd, queue, lost, lastWd>>
tree    == <<toWatch, wd>>
model   == <<existing, results, hasInconsistencies, shown>>
vars    == <<disk, kernelWd, queue, lost, lastWd, makes, hasty, toWatch, wd, phase, stack,
             existing, results, hasInconsistencies, shown, atStart>>

AllDirs == Dirs \cup {Base}

\* The keys of results, <<m_sName, m_bIsDir>>: only a vanished directory can be
\* taken for a file, and no file for a directory.
Keys == {<<n, FALSE>> : n \in Nodes} \cup {<<d, TRUE>> : d \in Dirs}

KeyOf(n) == <<n, n \in Dirs>>

Event == [wd: Nat, name: Nodes, act: Action]

\* A call that is listing "dir":
\*   "watch"     createINotifyWatch() is to come
\*   "list"      addExistingContent() is to open the directory
\*   "remember"  addExistingContent() has read "names"
\*   "open"      initialCreateToWatchDir() or createImmediateChildren() is to open it
\*   "walk"      initialCreateToWatchDir() or createImmediateChildren() has read "names"
Frame == [dir: AllDirs, stage: {"watch", "list", "remember", "open", "walk"},
          names: SUBSET Nodes]

Call(d, stage) == [dir |-> d, stage |-> stage, names |-> {}]

TypeOK ==
    /\ disk \in [Nodes -> BOOLEAN]
    /\ kernelWd \in [AllDirs -> Nat]
    /\ queue \in Seq(Event)
    /\ lost \in BOOLEAN
    /\ lastWd \in Nat
    /\ makes \in Nat
    /\ hasty \in BOOLEAN
    /\ toWatch \in [AllDirs -> {"none", "exists", "gone"}]
    /\ wd \in [AllDirs -> Nat]
    /\ phase \in {"setup", "running"}
    /\ stack \in Seq(Frame)
    /\ existing \subseteq Nodes
    /\ results \in [Keys -> WatchedResult]
    /\ hasInconsistencies \in BOOLEAN
    /\ shown \in [Keys -> ResultType]
    /\ atStart \in [Nodes -> BOOLEAN]

Children(d) == {n \in Nodes : Parent[n] = d}

Present(d) == d \in Dirs => disk[d]

Init ==
    /\ disk \in [Nodes -> BOOLEAN]
    /\ \A n \in Nodes : disk[n] => Present(Parent[n])
    /\ atStart = [n \in Nodes |-> disk[n] /\ Parent[n] = Base]
    /\ kernelWd = [d \in AllDirs |-> IF d = Base THEN 1 ELSE 0]
    /\ wd = [d \in AllDirs |-> IF d = Base THEN 1 ELSE 0]
    /\ toWatch = [d \in AllDirs |-> IF d = Base THEN "exists" ELSE "none"]
    /\ lastWd = 1
    /\ queue = <<>>
    /\ lost = FALSE
    /\ makes = 0
    /\ hasty = FALSE
    /\ phase = "setup"
    /\ stack = <<Call(Base, "list")>>
    /\ existing = {}
    /\ results = [k \in Keys |-> NoResult]
    /\ hasInconsistencies = FALSE
    /\ shown = [k \in Keys |-> "none"]

-----------------------------------------------------------------------------
(* Other processes.                                                         *)

Notify(n, act) ==
    LET w == kernelWd[Parent[n]]
        e == [wd |-> w, name |-> n, act |-> act]
        merged == Len(queue) > 0 /\ queue[Len(queue)] = e
        full == Len(queue) >= MaxQueue
    IN  /\ queue' = IF w = 0 \/ merged \/ full THEN queue ELSE Append(queue, e)
        /\ lost' = (lost \/ (w # 0 /\ ~merged /\ full))

Change(n, act) ==
    /\ Notify(n, act)
    /\ UNCHANGED <<lastWd, phase, stack, atStart>> /\ UNCHANGED tree /\ UNCHANGED model

Queued(n) == \E i \in DOMAIN queue : queue[i].name = n

MakeDir(d) ==
    /\ makes < MaxMakes
    /\ ~disk[d]
    /\ Present(Parent[d])
    /\ disk' = [disk EXCEPT ![d] = TRUE]
    /\ makes' = makes + 1
    /\ hasty' = (hasty \/ Queued(d))
    /\ Change(d, "create")
    /\ UNCHANGED kernelWd

\* The watch goes with the inode.
RemoveDir(d) ==
    /\ disk[d]
    /\ \A n \in Children(d) : ~disk[n]
    /\ disk' = [disk EXCEPT ![d] = FALSE]
    /\ kernelWd' = [kernelWd EXCEPT ![d] = 0]
    /\ Change(d, "delete")
    /\ UNCHANGED <<makes, hasty>>

ChangeMode(d) ==
    /\ disk[d]
    /\ Change(d, "attrib")
    /\ UNCHANGED <<disk, kernelWd, makes, hasty>>

CreateFile(f) ==
    /\ ~disk[f]
    /\ Present(Parent[f])
    /\ disk' = [disk EXCEPT ![f] = TRUE]
    /\ Change(f, "create")
    /\ UNCHANGED <<kernelWd, makes, hasty>>

DeleteFile(f) ==
    /\ disk[f]
    /\ disk' = [disk EXCEPT ![f] = FALSE]
    /\ Change(f, "delete")
    /\ UNCHANGED <<kernelWd, makes, hasty>>

Environment ==
    \/ \E d \in Dirs : MakeDir(d) \/ RemoveDir(d) \/ ChangeMode(d)
    \/ \E f \in Files : CreateFile(f) \/ DeleteFile(f)

-----------------------------------------------------------------------------
(* Listing a directory.                                                     *)

Top  == Head(stack)
Rest == Tail(stack)

\* Mutant: a directory is watched and not listed.
AddWatchOnly ==
    /\ stack # <<>> /\ Top.stage = "watch"
    /\ LET d == Top.dir IN
       IF disk[d]
       THEN /\ lastWd' = lastWd + 1
            /\ kernelWd' = [kernelWd EXCEPT ![d] = lastWd + 1]
            /\ wd' = [wd EXCEPT ![d] = lastWd + 1]
       ELSE UNCHANGED <<lastWd, kernelWd, wd>>
    /\ stack' = Rest
    /\ UNCHANGED <<queue, lost, toWatch, phase, atStart>> /\ UNCHANGED files /\ UNCHANGED model

\* createINotifyWatch() fails when the directory is gone: it is not listed then.
AddWatch ==
    /\ stack # <<>> /\ Top.stage = "watch"
    /\ LET d == Top.dir IN
       IF disk[d]
       THEN /\ lastWd' = lastWd + 1
            /\ kernelWd' = [kernelWd EXCEPT ![d] = lastWd + 1]
            /\ wd' = [wd EXCEPT ![d] = lastWd + 1]
            /\ stack' = <<Call(d, IF phase = "setup" THEN "list" ELSE "open")>> \o Rest
       ELSE /\ stack' = Rest
            /\ UNCHANGED <<lastWd, kernelWd, wd>>
    /\ atStart' = IF phase = "setup" /\ disk[Top.dir]
                  THEN [n \in Nodes |-> IF Parent[n] = Top.dir THEN disk[n] ELSE atStart[n]]
                  ELSE atStart
    /\ UNCHANGED <<queue, lost, toWatch, phase>> /\ UNCHANGED files /\ UNCHANGED model

\* addExistingContent() is over: initialCreateToWatchDir() looks for subdirectories.
AfterListing(d) == IF d \in Leaves THEN Rest ELSE <<Call(d, "open")>> \o Rest

\* Mutant: the directory's own entry is returned too.
OpenDirectoryWithDot ==
    /\ stack # <<>> /\ Top.stage \in {"list", "open"}
    /\ stack' = <<[dir |-> Top.dir, stage |-> IF Top.stage = "list" THEN "remember" ELSE "walk",
                   names |-> {n \in Children(Top.dir) : disk[n]} \cup {"."}]>> \o Rest
    /\ UNCHANGED <<phase, atStart>> /\ UNCHANGED files /\ UNCHANGED inotify /\ UNCHANGED tree
    /\ UNCHANGED model

\* opendir() and readdir(); opendir() fails when the directory is gone.
OpenDirectory ==
    /\ stack # <<>> /\ Top.stage \in {"list", "open"}
    /\ LET d == Top.dir
           names == {n \in Children(d) : disk[n]}
       IN  stack' = IF Present(d)
                    THEN <<[dir |-> d, stage |-> IF Top.stage = "list" THEN "remember" ELSE "walk",
                            names |-> names]>> \o Rest
                    ELSE IF Top.stage = "list" THEN AfterListing(d) ELSE Rest
    /\ UNCHANGED <<phase, atStart>> /\ UNCHANGED files /\ UNCHANGED inotify /\ UNCHANGED tree
    /\ UNCHANGED model

\* addExistingContent() comes to n.
Remember(n) ==
    /\ stack # <<>> /\ Top.stage = "remember" /\ n \in Top.names
    /\ existing' = IF disk[n] THEN existing \cup {n} ELSE existing
    /\ stack' = <<[Top EXCEPT !.names = @ \ {n}]>> \o Rest
    /\ UNCHANGED <<results, hasInconsistencies, shown, phase, atStart>>
    /\ UNCHANGED files /\ UNCHANGED inotify /\ UNCHANGED tree

\* The rest of the names, with n's turn over
AfterName(n) == <<[Top EXCEPT !.names = @ \ {n}]>> \o Rest

\* Mutant: the ToWatchDir is made and not watched.
SetUpUnwatched(n) ==
    /\ phase = "setup"
    /\ stack # <<>> /\ Top.stage = "walk" /\ n \in Top.names
    /\ toWatch' = IF n \in Dirs /\ disk[n] THEN [toWatch EXCEPT ![n] = "exists"] ELSE toWatch
    /\ stack' = AfterName(n)
    /\ UNCHANGED <<phase, wd, atStart>> /\ UNCHANGED files /\ UNCHANGED inotify /\ UNCHANGED model

\* initialCreateToWatchDir() comes to n.
SetUp(n) ==
    /\ phase = "setup"
    /\ stack # <<>> /\ Top.stage = "walk" /\ n \in Top.names
    /\ IF n \in Dirs /\ disk[n]
       THEN /\ toWatch' = [toWatch EXCEPT ![n] = "exists"]
            /\ stack' = <<Call(n, "watch")>> \o AfterName(n)
       ELSE /\ stack' = AfterName(n)
            /\ UNCHANGED toWatch
    /\ UNCHANGED <<phase, wd, atStart>> /\ UNCHANGED files /\ UNCHANGED inotify /\ UNCHANGED model

\* A directory whose ToWatchDir exists is reported as created anew.
CreatedAgain(n, r) == toWatch[n] = "exists" /\ ~r.immediate

\* What becomes of the result of such a directory
Reconsider(n, r, new) ==
    IF CreatedAgain(n, r) /\ r = NoResult
    THEN [new EXCEPT !.type = "modified", !.inconsistent = TRUE] ELSE new

\* Mutant: the directory is watched again even if it is watched.
EnterWatching(n, r, calls) ==
    /\ toWatch[n] # "none" \/ Parent[n] \notin Leaves
    /\ toWatch' = [toWatch EXCEPT ![n] = "exists"]
    /\ stack' = <<Call(n, "watch")>> \o calls
    /\ UNCHANGED <<wd, kernelWd>>

\* A directory has been reported as created, its result having been r: it gets a
\* ToWatchDir, and is watched and listed before "calls" go on.
Enter(n, r, calls) ==
    \/ /\ toWatch[n] = "none" /\ Parent[n] \in Leaves
       /\ stack' = calls
       /\ UNCHANGED <<kernelWd, toWatch, wd>>
    \/ /\ toWatch[n] # "none" \/ Parent[n] \notin Leaves
       /\ toWatch' = [toWatch EXCEPT ![n] = "exists"]
       /\ \/ /\ CreatedAgain(n, r)
             /\ wd' = [wd EXCEPT ![n] = 0]
             /\ kernelWd' = [kernelWd EXCEPT ![n] = 0]
          \/ /\ ~CreatedAgain(n, r)
             /\ UNCHANGED <<wd, kernelWd>>
       /\ stack' = <<Call(n, IF wd'[n] = 0 THEN "watch" ELSE "open")>> \o calls

\* The result of k goes from r to "new".
Record(k, r, new, emits) ==
    /\ results' = [results EXCEPT ![k] = new]
    /\ existing' = IF k = KeyOf(k[1]) /\ r = NoResult THEN existing \ {k[1]} ELSE existing
    /\ hasInconsistencies' = (hasInconsistencies \/ (new.inconsistent /\ ~r.inconsistent))
    /\ shown' = IF emits THEN [shown EXCEPT ![k] = new.type] ELSE shown

\* createImmediateChildren() comes to n; what is gone is not a directory.
Discover(n) ==
    LET k == <<n, n \in Dirs /\ disk[n]>>
        r == results[k]
    IN  /\ phase = "running"
        /\ stack # <<>> /\ Top.stage = "walk" /\ n \in Top.names
        /\ \/ /\ k[2]
              /\ Record(k, r, Reconsider(n, r, OnScan(r)), ScanEmits(r))
              /\ Enter(n, r, AfterName(n))
           \/ /\ ~k[2]
              /\ Record(k, r, OnScan(r), ScanEmits(r))
              /\ stack' = AfterName(n)
              /\ UNCHANGED <<kernelWd, toWatch, wd>>
        /\ UNCHANGED <<queue, lost, lastWd, phase, atStart>> /\ UNCHANGED files

\* The names are used up: the call returns, or addExistingContent() is over.
EndNames ==
    /\ stack # <<>> /\ Top.stage \in {"remember", "walk"} /\ Top.names = {}
    /\ stack' = IF Top.stage = "remember" THEN AfterListing(Top.dir) ELSE Rest
    /\ UNCHANGED <<phase, atStart>> /\ UNCHANGED files /\ UNCHANGED inotify /\ UNCHANGED tree
    /\ UNCHANGED model

\* start() returns.
EndSetup ==
    /\ phase = "setup"
    /\ stack = <<>>
    /\ phase' = "running"
    /\ UNCHANGED <<stack, atStart>> /\ UNCHANGED files /\ UNCHANGED inotify /\ UNCHANGED tree
    /\ UNCHANGED model

Listing ==
    \/ AddWatch
    \/ OpenDirectory
    \/ \E n \in Nodes : Remember(n) \/ SetUp(n) \/ Discover(n)
    \/ EndNames

-----------------------------------------------------------------------------
(* onFileModified().                                                        *)

OnFile(f, act) ==
    LET k == KeyOf(f)
        r == results[k]
    IN  /\ Record(k, r, OnEvent(r, act, f \in existing), Emits(r, act))
        /\ UNCHANGED <<kernelWd, stack>> /\ UNCHANGED tree

OnDirCreated(d) ==
    LET k == KeyOf(d)
        r == results[k]
    IN  /\ Record(k, r, Reconsider(d, r, OnEvent(r, "create", d \in existing)), Emits(r, "create"))
        /\ Enter(d, r, <<>>)

\* Mutant: m_nWatchedIdx of the ToWatchDir is left as it is.
OnDirDeletedKeepingIdx(d) ==
    LET k == KeyOf(d)
        r == results[k]
        new == OnEvent(r, "delete", d \in existing)
    IN  /\ results' = [results EXCEPT ![k] = new]
        /\ hasInconsistencies' = (hasInconsistencies \/ (new.inconsistent /\ ~r.inconsistent))
        /\ shown' = [shown EXCEPT ![k] = new.type]
        /\ toWatch' = IF toWatch[d] = "exists" THEN [toWatch EXCEPT ![d] = "gone"] ELSE toWatch
        /\ kernelWd' = [kernelWd EXCEPT ![d] = 0]
        /\ existing' = existing \ ({d} \cup Children(d))
        /\ UNCHANGED <<stack, wd>>

\* The ToWatchDir is marked, and what it knew forgotten; those below it are not.
OnDirDeleted(d) ==
    LET k == KeyOf(d)
        r == results[k]
        new == OnEvent(r, "delete", d \in existing)
    IN  /\ results' = [results EXCEPT ![k] = new]
        /\ hasInconsistencies' = (hasInconsistencies \/ (new.inconsistent /\ ~r.inconsistent))
        /\ shown' = [shown EXCEPT ![k] = new.type]
        /\ \/ /\ toWatch[d] = "exists"
              /\ toWatch' = [toWatch EXCEPT ![d] = "gone"]
              /\ wd' = [wd EXCEPT ![d] = 0]
              /\ kernelWd' = [kernelWd EXCEPT ![d] = 0]
              /\ existing' = existing \ ({d} \cup Children(d))
           \/ /\ toWatch[d] # "exists"
              /\ existing' = existing \ {d}
              /\ UNCHANGED <<toWatch, wd, kernelWd>>
        /\ UNCHANGED stack

\* Of a directory's ATTRIB events none is ever emitted.
OnDirAttrib(d) ==
    LET k == KeyOf(d)
        r == results[k]
    IN  /\ Record(k, r, OnEvent(r, "attrib", d \in existing), FALSE)
        /\ UNCHANGED <<kernelWd, stack>> /\ UNCHANGED tree

OnFileModified(n, event) ==
    LET act == Effective(results[KeyOf(n)], event, n \in existing, IsRoot)
    IN  \/ n \in Files /\ OnFile(n, act)
        \/ n \in Dirs /\ act = "create" /\ OnDirCreated(n)
        \/ n \in Dirs /\ act = "delete" /\ OnDirDeleted(n)
        \/ n \in Dirs /\ act = "attrib" /\ OnDirAttrib(n)

\* An event whose watch no ToWatchDir holds is skipped.
Dispatch ==
    /\ phase = "running"
    /\ stack = <<>>
    /\ queue # <<>>
    /\ queue' = Tail(queue)
    /\ LET e == Head(queue) IN
       IF wd[Parent[e.name]] = e.wd
       THEN OnFileModified(e.name, e.act)
       ELSE UNCHANGED <<kernelWd, stack>> /\ UNCHANGED tree /\ UNCHANGED model
    /\ UNCHANGED <<lost, lastWd, phase, atStart>> /\ UNCHANGED files

Next ==
    \/ Environment
    \/ Listing
    \/ EndSetup
    \/ Dispatch

Spec == Init /\ [][Next]_vars

\* A listing comes to its end, and the source is dispatched while it is readable.
Fairness == WF_vars(Listing) /\ WF_vars(EndSetup) /\ WF_vars(Dispatch)

FairSpec == Spec /\ Fairness

-----------------------------------------------------------------------------
(* Properties.                                                              *)

\* What FofiModel believes of n
Known(n) ==
    LET r == results[KeyOf(n)] IN IF r = NoResult THEN n \in existing ELSE Exists(r)

\* Directories that should be watched while they exist
InZone(d) == d = Base \/ Parent[d] \notin Leaves

\* Everything that happened has been handled, and nothing was lost.
Settled == phase = "running" /\ stack = <<>> /\ queue = <<>> /\ ~lost

(* The whole tree is known: however directories are made, filled and removed  *)
(* while others are being listed, nothing that exists is missed and nothing   *)
(* gone is kept, provided no inconsistency is reported and no directory is    *)
(* made again before its removal was handled.                                *)
ExistenceIsRight ==
    Settled /\ ~hasInconsistencies /\ ~hasty =>
        \A n \in Nodes : InZone(Parent[n]) => Known(n) = disk[n]

(* For root, whatever inconsistencies were reported on the way: every existing *)
(* directory of the zone is watched, by the watch its ToWatchDir holds, so    *)
(* that nothing below it can change unnoticed.                               *)
EveryDirectoryWatched ==
    IsRoot /\ Settled /\ ~hasty =>
        \A d \in Dirs : InZone(d) /\ disk[d] =>
            toWatch[d] = "exists" /\ wd[d] # 0 /\ wd[d] = kernelWd[d]

(* Created or modified, temporary or deleted: for root, when no result is      *)
(* flagged, no event lost and no directory made again in haste, the results   *)
(* tell the truth about the beginning of the run, at any depth and while the  *)
(* tree is still being listed.                                               *)
OriginIsRight ==
    IsRoot /\ phase = "running" /\ ~lost /\ ~hasInconsistencies /\ ~hasty =>
        \A n \in Nodes : LET r == results[KeyOf(n)] IN
            r # NoResult => ExistedAtStart(r) = atStart[n]

(* What the assertions on the way rely on: a directory about to be watched has *)
(* no watch yet, neither in the kernel (addPath() would find its descriptor   *)
(* taken) nor in its ToWatchDir; only a ToWatchDir that exists is watched; and *)
(* a directory whose ToWatchDir exists has no result that says it does not    *)
(* ("If WR existed and TWD is inconsistent the WR must be inconsistent too"). *)
AssertionsHold ==
    /\ \A i \in DOMAIN stack :
          stack[i].stage = "watch" => kernelWd[stack[i].dir] = 0 /\ wd[stack[i].dir] = 0
    /\ \A d \in AllDirs : kernelWd[d] # 0 => kernelWd[d] = wd[d]
    /\ \A d \in AllDirs : wd[d] # 0 => toWatch[d] = "exists"
    /\ \A d \in Dirs : LET r == results[KeyOf(d)] IN
          toWatch[d] = "exists" /\ r # NoResult => Exists(r)

(* Under fair scheduling a directory that stays is watched sooner or later,   *)
(* unless events are lost or a directory was made again in haste.            *)
WatchedEventually ==
    \A d \in Dirs : InZone(d) =>
        (disk[d] ~> (~disk[d] \/ lost \/ hasty \/ (wd[d] # 0 /\ wd[d] = kernelWd[d])))

(* m_oWatchedResultActionSignal ("Emits when watched result is created has     *)
(* changes type") tells of everything that goes and of every file: what a     *)
(* listener may not have heard is that an existing directory was modified, or *)
(* is back although its creation was missed, for an ATTRIB of a directory is  *)
(* never emitted.                                                            *)
ListenerMissesLittle ==
    \A k \in Keys : LET r == results[k] IN
        shown[k] # r.type => k[2] /\ Exists(r) /\ (r.type = "modified" \/ r.inconsistent)

(* fofimodel.h says of hasInconsistencies(): "Whether to trust the results."   *)
(* If nothing is flagged or lost, a result that says something exists should  *)
(* name a thing of that kind.  A directory that vanishes while its parent is  *)
(* listed is recorded as a created file, and stays one.                      *)
NoPhantomFiles ==
    Settled /\ ~hasInconsistencies /\ ~hasty =>
        \A k \in Keys : Exists(results[k]) => disk[k[1]] /\ k = KeyOf(k[1])

-----------------------------------------------------------------------------
(* An inductive invariant for AssertionsHold.  Only the innermost call has not *)
(* come to walk through its directory, and start() meets every directory once: *)
(* what a call has still to do has no ToWatchDir yet.                        *)

StackInv == \A i \in DOMAIN stack :
    /\ i > 1 => stack[i].stage = "walk"
    /\ stack[i].stage = "watch" => toWatch[stack[i].dir] = "exists"

\* The directories that call f will come to have no ToWatchDir.
AheadIsNew(f) == \A d \in Dirs :
    (IF f.stage = "walk" THEN d \in f.names ELSE Parent[d] = f.dir)
        => Parent[d] = f.dir /\ toWatch[d] = "none"

SetupInv == phase = "setup" =>
    /\ \A k \in Keys : results[k] = NoResult
    /\ \A d \in Dirs : toWatch[d] # "none" => toWatch[Parent[d]] # "none"
    /\ \A i \in DOMAIN stack : toWatch[stack[i].dir] # "none" /\ AheadIsNew(stack[i])
    /\ \A i, j \in DOMAIN stack : i # j => stack[i].dir # stack[j].dir

(* A directory is watched once, by the call that met it: AssertionsHold,      *)
(* strengthened by what the calls under way and start() keep, so that every   *)
(* step keeps it.                                                            *)
WatchInv == TypeOK /\ AssertionsHold /\ StackInv /\ SetupInv

(* An inductive invariant for ListenerMissesLittle: only what a scan found and *)
(* no event has told of since is m_bImmediate.                              *)
ImmediateInv == \A k \in Keys : results[k].immediate => Exists(results[k])

HeardInv == TypeOK /\ ListenerMissesLittle /\ ImmediateInv

-----------------------------------------------------------------------------
(* Inductive invariants for OriginIsRight and ExistenceIsRight.  While nothing *)
(* is lost, flagged or hasty no watch is given up before the removal of its   *)
(* directory is read, and that is read after all that happened in it.        *)

\* The event at i is about n, and is handled when it is read unless n's parent
\* is watched anew.
Matched(i, n) == queue[i].name = n /\ queue[i].wd = wd[Parent[n]]

Quiet(n) == \A i \in DOMAIN queue : ~Matched(i, n)

\* The calls under way
Calls == {stack[i] : i \in DOMAIN stack}

Calm == ~lost /\ ~hasInconsistencies /\ ~hasty

\* What does not depend on what was lost: the tree on the disk, the descriptors,
\* the names that the calls have still to come to, and that only start() fills
\* m_aExisting.
DiskInv ==
    /\ \A n \in Nodes : disk[n] => Present(Parent[n])
    /\ \A d \in Dirs : kernelWd[d] # 0 => disk[d]
    /\ kernelWd[Base] # 0

DescriptorInv ==
    /\ \A i \in DOMAIN queue : queue[i].wd # 0 /\ queue[i].wd <= lastWd
    /\ \A d \in AllDirs : wd[d] <= lastWd

NamesInv == \A f \in Calls :
    /\ f.names \subseteq Children(f.dir)
    /\ f.stage \in {"list", "remember"} => phase = "setup"

FlagInv == \A k \in Keys : results[k].inconsistent => hasInconsistencies

\* A directory whose removal waits to be read is gone.
RemovalInv == \A i \in DOMAIN queue :
    queue[i].name \in Dirs /\ queue[i].act = "delete" => ~disk[queue[i].name]

\* A ToWatchDir holds a watch that the kernel dropped until the removal is read.
StaleInv == \A d \in Dirs : wd[d] # 0 /\ kernelWd[d] = 0 =>
    \E i \in DOMAIN queue : Matched(i, d) /\ queue[i].act = "delete"

\* What happened in a directory is read before its removal.
OrderInv == \A i, j \in DOMAIN queue :
    LET d == queue[i].name IN
    d \in Dirs /\ queue[i].act = "delete" /\ Parent[queue[j].name] = d /\ queue[j].wd = wd[d] => j < i

\* The parents of what is watched, or is being listed, are watched.
ParentsInv ==
    /\ \A d \in Dirs : wd[d] # 0 => wd[Parent[d]] # 0
    /\ \A f \in Calls : IF f.stage = "watch" THEN f.dir \in Dirs /\ wd[Parent[f.dir]] # 0
                                             ELSE wd[f.dir] # 0

CalmInv ==
    /\ WatchInv
    /\ DiskInv
    /\ DescriptorInv
    /\ NamesInv
    /\ FlagInv
    /\ Calm => RemovalInv /\ StaleInv /\ OrderInv /\ ParentsInv

(* For OriginIsRight: the first event of a name says how it was when the       *)
(* listing of its directory began, and nothing else that a scan finds was     *)
(* there then.                                                              *)

Unheard(n) == results[KeyOf(n)] = NoResult

IsFirst(i, n) == Matched(i, n) /\ \A j \in DOMAIN queue : j < i => ~Matched(j, n)

\* What was there is still there, or its removal waits to be read.
OldInv == \A n \in Nodes : Unheard(n) /\ atStart[n] =>
    wd[Parent[n]] # 0 /\ (Quiet(n) => disk[n])

\* What came during start() was told of; and so was what was found nevertheless.
NewInv == \A n \in Nodes : Unheard(n) /\ ~atStart[n] /\ Quiet(n) =>
    n \notin existing /\ (phase = "setup" /\ wd[Parent[n]] # 0 => ~disk[n])

FirstInv == \A n \in Nodes : \A i \in DOMAIN queue :
    Unheard(n) /\ IsFirst(i, n) /\ (atStart[n] \/ phase = "setup" \/ n \in existing)
        => (queue[i].act = "create" <=> ~atStart[n])

\* A directory scanned during the run has no child that was there.
ScanInv ==
    /\ phase = "running" =>
          \A f \in Calls : \A n \in Children(f.dir) : Unheard(n) => ~atStart[n]
    /\ \A d \in Dirs : results[KeyOf(d)].immediate =>
          \A n \in Children(d) : Unheard(n) => ~atStart[n]

OriginInv ==
    /\ CalmInv
    /\ IsRoot /\ Calm => OldInv /\ NewInv /\ FirstInv /\ ScanInv /\ OriginIsRight

(* For ExistenceIsRight: the last event of a name that waits says whether it  *)
(* is there; what no event tells of is known, unless a call will still come to *)
(* it, and no directory is left out.                                        *)

IsLast(i, n) == Matched(i, n) /\ \A j \in DOMAIN queue : j > i => ~Matched(j, n)

\* Call f will find n if it is there.
WillFind(f, n) == f.dir = Parent[n] /\
    CASE f.stage = "list"     -> TRUE
      [] f.stage = "remember" -> n \in f.names
      [] f.stage = "open"     -> phase = "running"
      [] f.stage = "walk"     -> phase = "running" /\ n \in f.names
      [] OTHER                -> FALSE

\* Call f will watch d if it is there.
WillWatch(f, d) ==
    \/ f.dir = d /\ f.stage = "watch"
    \/ f.dir = Parent[d] /\ f.stage \in {"list", "remember", "open"}
    \/ f.dir = Parent[d] /\ f.stage = "walk" /\ d \in f.names

LastInv == \A n \in Nodes : \A i \in DOMAIN queue :
    IsLast(i, n) => (disk[n] <=> queue[i].act # "delete")

KnownInv == \A n \in Nodes :
    /\ wd[Parent[n]] = 0 => ~Known(n)
    /\ Quiet(n) /\ Known(n) => disk[n]
    /\ Quiet(n) /\ disk[n] /\ kernelWd[Parent[n]] # 0 =>
          Known(n) \/ \E f \in Calls : WillFind(f, n)

\* What a scan has read of a directory is there, or its removal waits to be read.
WalkInv == phase = "running" => \A f \in Calls : f.stage = "walk" =>
    \A n \in f.names : Quiet(n) => disk[n]

ComingInv == \A d \in Dirs :
    InZone(d) /\ disk[d] /\ kernelWd[d] = 0 /\ kernelWd[Parent[d]] # 0 =>
        \/ \E f \in Calls : WillWatch(f, d)
        \/ \E i \in DOMAIN queue : Matched(i, d) /\ queue[i].act = "create"

ExistenceInv ==
    /\ CalmInv
    /\ Calm => LastInv /\ KnownInv /\ WalkInv /\ ComingInv

-----------------------------------------------------------------------------
(* An inductive invariant for EveryDirectoryWatched.  Results may be flagged   *)
(* here, and watches given up for directories reported as created again; what  *)
(* must not happen is that a directory found by a scan keeps a watch that the  *)
(* kernel has dropped.                                                      *)

Steady == IsRoot /\ ~lost /\ ~hasty

\* An event, and not only a scan, has told that d exists.
Confirmed(d) == LET r == results[KeyOf(d)] IN Exists(r) /\ ~r.immediate

\* A scan has told that d exists, and no event since.
Scanned(d) == results[KeyOf(d)].immediate

\* The removal of d waits to be read, and will be handled.
Going(d) == \E i \in DOMAIN queue : Matched(i, d) /\ queue[i].act = "delete"

\* What is below h, at any depth
Below(h) == {p \in Nodes : \A S \in SUBSET Nodes :
                (\A n \in Nodes : Parent[n] = h \/ Parent[n] \in S => n \in S) => p \in S}

\* Nothing that waits about a directory comes before its creation.
CreateInv == \A i, j \in DOMAIN queue :
    queue[i].name \in Dirs /\ queue[i].act = "create" /\ queue[j].name = queue[i].name => i <= j

\* What waits about a directory that is gone ends with its removal.
GoneInv == \A d \in Dirs : ~disk[d] => \A j \in DOMAIN queue :
    Matched(j, d) => \E k \in DOMAIN queue : j <= k /\ Matched(k, d) /\ queue[k].act = "delete"

\* Nothing is told of a directory that came to be in one that is not watched.
SeveredInv == \A d \in Dirs : disk[d] /\ kernelWd[Parent[d]] = 0 => Quiet(d) /\ ~Confirmed(d)

ConfirmedInv == \A d \in Dirs : Confirmed(d) =>
    /\ ~disk[d] => Going(d)
    /\ \A i \in DOMAIN queue : Matched(i, d) => queue[i].act # "create"

\* When a directory is made nothing is below it: what was there is going.
AnewInv == \A i \in DOMAIN queue : queue[i].name \in Dirs /\ queue[i].act = "create" =>
    \A p \in Below(queue[i].name) \cap Dirs :
        /\ \A j \in DOMAIN queue : j < i /\ Matched(j, p) =>
              \E k \in DOMAIN queue : j <= k /\ k < i /\ Matched(k, p) /\ queue[k].act = "delete"
        /\ Confirmed(p) => \E k \in DOMAIN queue : k < i /\ Matched(k, p) /\ queue[k].act = "delete"

\* What the queue tells of the directories
QueueInv == RemovalInv /\ OrderInv /\ CreateInv /\ GoneInv /\ SeveredInv /\ ConfirmedInv /\ AnewInv

\* The directories listed have been reported, and no event has told of any below
\* them; a directory that was not reported has not been scanned.
NewsInv ==
    /\ phase = "running" => \A f \in Calls :
          /\ f.dir \in Dirs /\ results[KeyOf(f.dir)] # NoResult
          /\ \A p \in Below(f.dir) \cap Dirs : ~Confirmed(p)
    /\ \A d \in Dirs : Parent[d] \in Dirs /\ results[KeyOf(Parent[d])] = NoResult => ~Scanned(d)

\* They are watched, and so are those they are in, as long as they are there.
ListedInv == phase = "running" => \A f \in Calls :
    \/ \E i \in DOMAIN queue : queue[i].name = f.dir /\ queue[i].act = "delete"
    \/ disk[f.dir] /\ kernelWd[Parent[f.dir]] # 0 /\ (f.stage # "watch" => kernelWd[f.dir] # 0)

\* The watch of a directory that a scan has found is good, or its removal waits to
\* be read.
ScannedInv == \A d \in Dirs : Scanned(d) =>
    /\ kernelWd[d] # 0 => kernelWd[Parent[d]] # 0
    /\ wd[d] # 0 /\ kernelWd[d] = 0 => Going(d)

\* What the scans have found
FoundInv == NewsInv /\ ListedInv /\ ScannedInv /\ ComingInv

\* A call lists a directory that its caller has found.
Chained(s) == \A i \in DOMAIN s : i > 1 => s[i-1].dir \in Dirs /\ Parent[s[i-1].dir] = s[i].dir

SteadyInv ==
    /\ CalmInv
    /\ Chained(stack)
    /\ Steady => QueueInv /\ FoundInv

=============================================================================
