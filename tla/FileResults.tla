------------------------------ MODULE FileResults ------------------------------
(***************************************************************************)
(* One watched directory and the plain files in it: from the file system,   *)
(* through the inotify queue, to the WatchedResults of FofiModel.           *)
(*                                                                         *)
(* The directory either exists when start() is called (the watch is added,  *)
(* then addExistingContent() lists it) or appears while running (the watch  *)
(* is added, then createImmediateChildren() lists it).  Other processes     *)
(* create, delete, write and chmod files at any moment, also between two    *)
(* system calls of the listing.  start() and stop() may alternate; events   *)
(* of an earlier run stay in the kernel queue and carry a stale descriptor. *)
(***************************************************************************)
EXTENDS Naturals, Sequences, ResultLife

CONSTANTS Names,      \* the file names of the directory
          Excluded,   \* the names isFilteredOutFile() rejects
          IsRoot,     \* m_bIsUserRoot
          MaxQueue,   \* max_queued_events, the kernel's queue limit
          MaxRuns     \* bound: how often the directory is given a watch

ASSUME ExcludedAssumption == Excluded \subseteq Names
ASSUME IsRootAssumption   == IsRoot \in BOOLEAN
ASSUME MaxQueueAssumption == MaxQueue \in Nat
ASSUME MaxRunsAssumption  == MaxRuns \in Nat

VARIABLES
    disk,       \* disk[n]: whether file n exists
    queue,      \* the inotify queue, oldest event first
    lost,       \* ghost: an event of this run was dropped, the queue being full
    wd,         \* the directory's watch descriptor, 0 when it has no watch
    lastWd,     \* the last descriptor the kernel gave out
    phase,      \* what FofiModel is doing: see TypeOK
    fresh,      \* the directory appeared while running
    toRead,     \* names the listing's readdir() has not reached yet
    listed,     \* names returned by readdir() and not handled yet
    existing,   \* m_aExisting, names not marked m_bRemoved
    results,    \* results[n]: the WatchedResult of n
    hasInconsistencies,   \* m_bHasInconsistencies
    shown,      \* shown[n]: the type last sent with m_oWatchedResultActionSignal
    atStart     \* ghost: atStart[n], whether n existed when the run began

kernel  == <<disk, queue, lost, lastWd>>
scan    == <<toRead, listed, fresh>>
model   == <<existing, results, hasInconsistencies, shown>>
vars    == <<disk, queue, lost, wd, lastWd, phase, fresh, toRead, listed, existing,
             results, hasInconsistencies, shown, atStart>>

Event == [wd: Nat, name: Names, act: Action]

TypeOK ==
    /\ disk \in [Names -> BOOLEAN]
    /\ queue \in Seq(Event)
    /\ lost \in BOOLEAN
    /\ wd \in Nat
    /\ lastWd \in Nat
    \* "absent": started, the directory is not there or not noticed yet
    /\ phase \in {"stopped", "absent", "listing", "running"}
    /\ fresh \in BOOLEAN
    /\ toRead \subseteq Names
    /\ listed \subseteq Names
    /\ existing \subseteq Names
    /\ results \in [Names -> WatchedResult]
    /\ hasInconsistencies \in BOOLEAN
    /\ shown \in [Names -> ResultType]
    /\ atStart \in [Names -> BOOLEAN]

Init ==
    /\ disk \in [Names -> BOOLEAN]
    /\ queue = <<>>
    /\ lost = FALSE
    /\ wd = 0
    /\ lastWd = 0
    /\ phase = "stopped"
    /\ fresh = FALSE
    /\ toRead = {}
    /\ listed = {}
    /\ existing = {}
    /\ results = [n \in Names |-> NoResult]
    /\ hasInconsistencies = FALSE
    /\ shown = [n \in Names |-> "none"]
    /\ atStart = [n \in Names |-> FALSE]

-----------------------------------------------------------------------------
(* Other processes, and the kernel's queue.                                 *)

\* The kernel queues an event of a watched directory unless the queue is full;
\* an event equal to the youngest queued one is merged with it.
Notify(n, act) ==
    LET e == [wd |-> wd, name |-> n, act |-> act]
        merged == Len(queue) > 0 /\ queue[Len(queue)] = e
        full == Len(queue) >= MaxQueue
    IN  /\ queue' = IF wd = 0 \/ merged \/ full THEN queue ELSE Append(queue, e)
        /\ lost' = (lost \/ (wd # 0 /\ ~merged /\ full))

Change(n, act) ==
    /\ Notify(n, act)
    /\ UNCHANGED <<wd, lastWd, phase, atStart>> /\ UNCHANGED scan /\ UNCHANGED model

CreateFile(n) ==
    /\ ~disk[n]
    /\ disk' = [disk EXCEPT ![n] = TRUE]
    /\ Change(n, "create")

DeleteFile(n) ==
    /\ disk[n]
    /\ disk' = [disk EXCEPT ![n] = FALSE]
    /\ Change(n, "delete")

\* IN_CLOSE_WRITE or IN_ATTRIB
TouchFile(n, act) ==
    /\ disk[n]
    /\ act \in {"modify", "attrib"}
    /\ Change(n, act)
    /\ UNCHANGED disk

Environment ==
    \E n \in Names : \/ CreateFile(n)
                     \/ DeleteFile(n)
                     \/ \E act \in {"modify", "attrib"} : TouchFile(n, act)

-----------------------------------------------------------------------------
(* start(), the listing of the directory, stop().                           *)

\* Mutant: the listing returns the directory's own entry too.
AddWatchWithDot ==
    /\ lastWd < MaxRuns
    /\ wd' = lastWd + 1
    /\ lastWd' = lastWd + 1
    /\ phase' = "listing"
    /\ toRead' = Names \cup {"."}
    /\ listed' = {}
    /\ existing' = {}
    /\ lost' = FALSE

\* createINotifyWatch(): the listing that follows it starts with opendir().
AddWatch ==
    /\ lastWd < MaxRuns
    /\ wd' = lastWd + 1
    /\ lastWd' = lastWd + 1
    /\ phase' = "listing"
    /\ toRead' = Names
    /\ listed' = {}
    /\ existing' = {}
    /\ lost' = FALSE

\* start() with the directory present: initialSetup() forgets the ToWatchDirs
\* of the last run, the results are only forgotten at the end of start().
Start ==
    /\ phase = "stopped"
    /\ AddWatch
    /\ fresh' = FALSE
    /\ atStart' = disk
    /\ UNCHANGED <<disk, queue, results, hasInconsistencies, shown>>

ForgetResults ==
    /\ results' = [n \in Names |-> NoResult]
    /\ hasInconsistencies' = FALSE
    /\ shown' = [n \in Names |-> "none"]

\* start() with the directory absent
StartAbsent ==
    /\ phase = "stopped"
    /\ \A n \in Names : ~disk[n]
    /\ phase' = "absent"
    /\ fresh' = TRUE
    /\ atStart' = disk
    /\ existing' = {}
    /\ ForgetResults
    /\ UNCHANGED <<wd, toRead, listed>> /\ UNCHANGED kernel

\* onFileModified() handles the directory's own CREATE: the new ToWatchDir is
\* watched; files may have been put into it since it was made.
DirectoryAppears ==
    /\ phase = "absent"
    /\ AddWatch
    /\ UNCHANGED <<disk, queue, fresh, results, hasInconsistencies, shown, atStart>>

\* readdir() reaches the place of n, and returns n if it exists
ReadName(n) ==
    /\ phase = "listing"
    /\ n \in toRead
    /\ toRead' = toRead \ {n}
    /\ listed' = IF disk[n] THEN listed \cup {n} ELSE listed
    /\ UNCHANGED <<wd, phase, fresh, atStart>> /\ UNCHANGED kernel /\ UNCHANGED model

\* addExistingContent(): n is remembered if lstat() still finds it.
RememberExisting(n) ==
    /\ existing' = IF disk[n] THEN existing \cup {n} ELSE existing
    /\ UNCHANGED <<results, hasInconsistencies, shown>>

\* createImmediateChildren(): n is recorded, whether lstat() finds it or not.
RecordImmediate(n) ==
    \/ /\ n \in Excluded
       /\ existing' = existing \cup {n}
       /\ UNCHANGED <<results, hasInconsistencies, shown>>
    \/ /\ n \notin Excluded
       /\ results' = [results EXCEPT ![n] = OnScan(@)]
       /\ existing' = existing \ {n}
       /\ hasInconsistencies' = (hasInconsistencies \/ ScanContradicts(results[n]))
       /\ shown' = IF ScanEmits(results[n])
                   THEN [shown EXCEPT ![n] = OnScan(results[n]).type] ELSE shown

HandleListed(n) ==
    /\ phase = "listing"
    /\ n \in listed
    /\ listed' = listed \ {n}
    /\ IF fresh THEN RecordImmediate(n) ELSE RememberExisting(n)
    /\ UNCHANGED <<wd, phase, fresh, toRead, atStart>> /\ UNCHANGED kernel

\* Mutant: start() does not wait for the listing to come to its end.
EndListingEarly ==
    /\ phase = "listing"
    /\ listed = {}
    /\ phase' = "running"
    /\ IF fresh THEN UNCHANGED <<results, hasInconsistencies, shown>> ELSE ForgetResults
    /\ UNCHANGED <<wd, existing, atStart>> /\ UNCHANGED scan /\ UNCHANGED kernel

\* The listing is over; start() then clears what the last run recorded.
EndListing ==
    /\ phase = "listing"
    /\ toRead = {}
    /\ listed = {}
    /\ phase' = "running"
    /\ IF fresh THEN UNCHANGED <<results, hasInconsistencies, shown>> ELSE ForgetResults
    /\ UNCHANGED <<wd, existing, atStart>> /\ UNCHANGED scan /\ UNCHANGED kernel

\* Mutant: stop() without INotifierSource::clearAll().
StopKeepingWatch ==
    /\ phase \in {"absent", "running"}
    /\ phase' = "stopped"
    /\ UNCHANGED <<wd, atStart>> /\ UNCHANGED kernel /\ UNCHANGED scan /\ UNCHANGED model

\* stop(): INotifierSource::clearAll() removes the watch, the queue keeps its events.
Stop ==
    /\ phase \in {"absent", "running"}
    /\ phase' = "stopped"
    /\ wd' = 0
    /\ UNCHANGED atStart /\ UNCHANGED kernel /\ UNCHANGED scan /\ UNCHANGED model

-----------------------------------------------------------------------------
(* INotifierSource::dispatch() and FofiModel::onFileModified().             *)

OnFileModified(n, event) ==
    LET known == n \in existing
        act   == Effective(results[n], event, known, IsRoot)
        new   == OnEvent(results[n], act, known)
    IN  /\ results' = [results EXCEPT ![n] = new]
        /\ existing' = existing \ {n}
        /\ hasInconsistencies' = (hasInconsistencies \/ (new.inconsistent /\ ~results[n].inconsistent))
        /\ shown' = IF Emits(results[n], act) THEN [shown EXCEPT ![n] = new.type] ELSE shown

\* Mutant: events of an earlier run are handled like those of this one.
DispatchAnyDescriptor ==
    /\ phase # "listing"
    /\ queue # <<>>
    /\ queue' = Tail(queue)
    /\ LET e == Head(queue) IN
       IF e.name \notin Excluded
       THEN OnFileModified(e.name, e.act)
       ELSE UNCHANGED model
    /\ UNCHANGED <<disk, lost, wd, lastWd, phase, atStart>> /\ UNCHANGED scan

\* The oldest event is read.  One whose descriptor has no WatchItem, or whose
\* file is filtered out, changes nothing.
Dispatch ==
    /\ phase # "listing"
    /\ queue # <<>>
    /\ queue' = Tail(queue)
    /\ LET e == Head(queue) IN
       IF e.wd = wd /\ e.name \notin Excluded
       THEN OnFileModified(e.name, e.act)
       ELSE UNCHANGED model
    /\ UNCHANGED <<disk, lost, wd, lastWd, phase, atStart>> /\ UNCHANGED scan

-----------------------------------------------------------------------------

Listing == \/ \E n \in Names : ReadName(n) \/ HandleListed(n)
           \/ EndListing

Next ==
    \/ Environment
    \/ Start
    \/ StartAbsent
    \/ DirectoryAppears
    \/ Listing
    \/ Dispatch
    \/ Stop

Spec == Init /\ [][Next]_vars

\* The main loop runs: a listing is one call that comes to its end, and the
\* source is dispatched as long as its descriptor is readable.
Fairness == WF_vars(Listing) /\ WF_vars(Dispatch)

FairSpec == Spec /\ Fairness

-----------------------------------------------------------------------------
(* Properties.                                                              *)

\* What FofiModel believes of n: its result, or else the initial listing.
Known(n) == IF results[n] = NoResult THEN n \in existing ELSE Exists(results[n])

\* Event i of the queue is one this run will handle, about n.
IsPending(i, n) == queue[i].wd = wd /\ queue[i].name = n

NothingPending(n) == \A i \in DOMAIN queue : ~IsPending(i, n)

\* Every change of n has been handled, and none was lost.
Settled(n) == phase = "running" /\ ~lost /\ n \notin Excluded /\ NothingPending(n)

(* However the listing and the changes interleave, once the events of a      *)
(* name are handled the model and the disk agree on whether it exists.  This *)
(* is why createINotifyWatch() comes before addExistingContent() and         *)
(* createImmediateChildren(), and it holds for inconsistent results too.     *)
ExistenceIsRight == \A n \in Names : Settled(n) => Known(n) = disk[n]

(* Created, deleted, modified, temporary: a result not flagged inconsistent   *)
(* tells the truth about the beginning of the run, and a name without result *)
(* has not changed since, for root or in a directory made while running.     *)
TypeIsRight ==
    IsRoot \/ fresh =>
        \A n \in Names : Settled(n) =>
            IF results[n] = NoResult
            THEN disk[n] = atStart[n]
            ELSE results[n].inconsistent \/ ExistedAtStart(results[n]) = atStart[n]

(* m_oWatchedResultActionSignal keeps a listener up to date: what it last     *)
(* heard of a file is the current type of the file's result, although some   *)
(* events are not emitted (fofimodel.h: "Emits when watched result is        *)
(* created has changes type").                                               *)
ListenerUpToDate ==
    phase = "running" => \A n \in Names : shown[n] = results[n].type

Grows(n) ==
    results[n] # NoResult =>
        /\ results'[n] # NoResult
        /\ ExistedAtStart(results'[n]) = ExistedAtStart(results[n])
        /\ results[n].inconsistent => results'[n].inconsistent /\ hasInconsistencies'

(* While one run goes on, what is known of the beginning never changes: a     *)
(* result never moves between {created, temporary} and {modified, deleted},   *)
(* is never dropped, and once flagged inconsistent stays so, as               *)
(* hasInconsistencies does.                                                  *)
ResultsOnlyGrow ==
    [][phase # "stopped" /\ (phase = "listing" => fresh) =>
         \A n \in Names : Grows(n)]_vars

(* A change reaches the results: unless the run ends, the queue overflows or  *)
(* the file changes again, the model comes to know whether a file exists.    *)
CatchesUp ==
    \A n \in Names \ Excluded : \A b \in BOOLEAN :
        (wd # 0 /\ disk[n] = b)
            ~> (wd = 0 \/ lost \/ disk[n] # b \/ (phase = "running" /\ Known(n) = b))

-----------------------------------------------------------------------------
(* The inductive invariant.  Every event tells something of the file before  *)
(* and after the change it announces; the queue is a chain of such pieces    *)
(* that links what the model knows to what the disk holds.                   *)

Before(act) == act # "create"
After(act)  == act # "delete"

IsFirstPending(i, n) == IsPending(i, n) /\ \A j \in 1..(i - 1) : ~IsPending(j, n)
IsLastPending(i, n)  == IsPending(i, n) /\ \A j \in (i + 1)..Len(queue) : ~IsPending(j, n)

\* What the next phase of the run will find known of n
Believed(n) == IF phase = "listing" /\ ~fresh THEN n \in existing ELSE Known(n)

\* Descriptors are never given out twice.
DescriptorsInv ==
    /\ wd # 0 <=> phase \in {"listing", "running"}
    /\ wd <= lastWd
    /\ \A i \in DOMAIN queue : queue[i].wd \in 1..lastWd

\* The last queued event of a file leaves it as it is on the disk.
LastPendingInv ==
    wd # 0 /\ ~lost =>
        \A n \in Names : \A i \in DOMAIN queue :
            IsLastPending(i, n) => After(queue[i].act) = disk[n]

\* A file without a queued event is known, or the listing will see it.
KnownInv ==
    wd # 0 /\ ~lost =>
        \A n \in Names \ Excluded : NothingPending(n) =>
            /\ n \in listed => disk[n]
            /\ n \notin toRead \cup listed => Believed(n) = disk[n]

\* What the listing has not come to is not believed to exist.
ListingInv ==
    /\ phase = "running" => toRead = {} /\ listed = {}
    /\ phase = "listing" =>
          /\ toRead \cap listed = {}
          /\ \A n \in toRead \cup listed : n \notin existing /\ (fresh => results[n] = NoResult)

\* Until a file has a result, its first queued event finds it as it was when
\* the run began.
FirstPendingInv ==
    wd # 0 /\ ~lost /\ ~fresh =>
        \A n \in Names \ Excluded : phase = "listing" \/ results[n] = NoResult =>
            /\ NothingPending(n) => disk[n] = atStart[n]
            /\ \A i \in DOMAIN queue :
                   IsFirstPending(i, n) => Before(queue[i].act) = atStart[n]

\* In a directory made while running nothing existed when the run began.
FreshInv ==
    /\ phase = "absent" => fresh /\ results = [n \in Names |-> NoResult]
    /\ fresh /\ phase # "stopped" =>
          /\ \A n \in Names : ~atStart[n]
          /\ existing \subseteq Excluded

\* What a result says of the beginning of the run
OriginInv ==
    phase = "running" \/ (phase = "listing" /\ fresh) =>
        \A n \in Names \ Excluded : results[n] # NoResult =>
            /\ IsRoot /\ ~fresh /\ ~lost => ExistedAtStart(results[n]) = atStart[n]
            /\ fresh => results[n].inconsistent \/ ~ExistedAtStart(results[n])

IInv ==
    /\ TypeOK
    /\ DescriptorsInv
    /\ LastPendingInv
    /\ KnownInv
    /\ ListingInv
    /\ FirstPendingInv
    /\ FreshInv
    /\ OriginInv

=============================================================================
