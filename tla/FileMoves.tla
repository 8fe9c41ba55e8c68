------------------------------- MODULE FileMoves -------------------------------
(***************************************************************************)
(* Renames of plain files among watched directories, and in and out of      *)
(* them.  The two halves of a rename are separate events: a RENAME_FROM is  *)
(* kept as an open move until the RENAME_TO with its cookie comes, or until *)
(* the timer of onCheckOpenMoves() takes it for a move to elsewhere.        *)
(*                                                                         *)
(* A name is the path of a file in a watched directory of its own, so that  *)
(* the events of two renames may interleave.  The directories stay, all are *)
(* listed, and the run has begun.                                           *)
(***************************************************************************)
EXTENDS Naturals, Sequences, SequencesExt, ResultLife

CONSTANTS Names,      \* paths of files in watched directories
          Excluded,   \* those that isFilteredOutFile() rejects
          IsRoot,     \* m_bIsUserRoot
          MaxQueue,   \* max_queued_events
          MaxMoves    \* bound: how many renames there are

ASSUME ExcludedAssumption == Excluded \subseteq Names
ASSUME BoundsAssumption   == IsRoot \in BOOLEAN /\ MaxQueue \in Nat /\ MaxMoves \in Nat

VARIABLES
    disk,       \* disk[n]: whether n exists
    queue,      \* the inotify queue
    lost,       \* ghost: an event was dropped, the queue being full
    lastCookie, \* the cookie of the last rename, 0 before the first
    halfDone,   \* the renames of which only the first event has been queued
    existing,   \* m_aExisting, names not marked m_bRemoved
    results,    \* results[n]: the WatchedResult of n
    openMoves,  \* m_aOpenMoves; nothing depends on its order
    hasInconsistencies,
    overtaken,  \* ghost: an event of a name was handled before an open move of it
    atStart     \* ghost: atStart[n], whether n existed when the run began

outside == <<disk, queue, lost, lastCookie, halfDone>>
model   == <<existing, results, openMoves, hasInconsistencies>>
vars    == <<disk, queue, lost, lastCookie, halfDone, existing, results, openMoves,
             hasInconsistencies, overtaken, atStart>>

\* "from" and "to" are RENAME_FROM and RENAME_TO; other events have cookie 0.
Event == [name: Names, act: Action \cup {"from", "to"}, cookie: Nat]

OpenMove == [name: Names, cookie: Nat]

TypeOK ==
    /\ disk \in [Names -> BOOLEAN]
    /\ queue \in Seq(Event)
    /\ lost \in BOOLEAN
    /\ lastCookie \in Nat
    /\ halfDone \subseteq [from: Names, to: Names, cookie: Nat]
    /\ existing \subseteq Names
    /\ results \in [Names -> WatchedResult]
    /\ openMoves \subseteq OpenMove
    /\ hasInconsistencies \in BOOLEAN
    /\ overtaken \in BOOLEAN
    /\ atStart \in [Names -> BOOLEAN]

Init ==
    /\ disk \in [Names -> BOOLEAN]
    /\ atStart = disk
    /\ existing = {n \in Names : disk[n]}
    /\ queue = <<>>
    /\ lost = FALSE
    /\ lastCookie = 0
    /\ halfDone = {}
    /\ results = [n \in Names |-> NoResult]
    /\ openMoves = {}
    /\ hasInconsistencies = FALSE
    /\ overtaken = FALSE

-----------------------------------------------------------------------------
(* Other processes.                                                         *)

\* The kernel queues e, unless the queue is full; equal neighbours are merged.
Post(e) ==
    LET merged == queue # <<>> /\ Last(queue) = e
        full == Len(queue) >= MaxQueue
    IN  /\ queue' = IF merged \/ full THEN queue ELSE Append(queue, e)
        /\ lost' = (lost \/ (~merged /\ full))

Plain(n, act) == [name |-> n, act |-> act, cookie |-> 0]

\* A rename holds the lock of its directories until both events are queued.
Locked(n) == \E r \in halfDone : n \in {r.from, r.to}

CreateFile(n) ==
    /\ ~disk[n]
    /\ disk' = [disk EXCEPT ![n] = TRUE]
    /\ Post(Plain(n, "create"))
    /\ UNCHANGED <<lastCookie, halfDone>>

DeleteFile(n) ==
    /\ disk[n]
    /\ disk' = [disk EXCEPT ![n] = FALSE]
    /\ Post(Plain(n, "delete"))
    /\ UNCHANGED <<lastCookie, halfDone>>

TouchFile(n, act) ==
    /\ disk[n]
    /\ Post(Plain(n, act))
    /\ UNCHANGED <<disk, lastCookie, halfDone>>

\* The first event of a rename of n
BeginMove(n, act) ==
    /\ lastCookie < MaxMoves
    /\ lastCookie' = lastCookie + 1
    /\ Post([name |-> n, act |-> act, cookie |-> lastCookie + 1])

\* rename(2) of m to n; a file already at n is replaced, which is no event of n.
MoveFile(m, n) ==
    /\ m # n
    /\ disk[m]
    /\ disk' = [disk EXCEPT ![m] = FALSE, ![n] = TRUE]
    /\ BeginMove(m, "from")
    /\ halfDone' = halfDone \cup {[from |-> m, to |-> n, cookie |-> lastCookie + 1]}

FinishMove(r) ==
    /\ Post([name |-> r.to, act |-> "to", cookie |-> r.cookie])
    /\ halfDone' = halfDone \ {r}
    /\ UNCHANGED <<disk, lastCookie>>

MoveOut(m) ==
    /\ disk[m]
    /\ disk' = [disk EXCEPT ![m] = FALSE]
    /\ BeginMove(m, "from")
    /\ UNCHANGED halfDone

MoveIn(n) ==
    /\ disk' = [disk EXCEPT ![n] = TRUE]
    /\ BeginMove(n, "to")
    /\ UNCHANGED halfDone

Unlocked == {n \in Names : ~Locked(n)}

Environment ==
    /\ \/ \E n \in Unlocked :
             \/ CreateFile(n) \/ DeleteFile(n)
             \/ MoveOut(n) \/ MoveIn(n)
             \/ \E act \in {"modify", "attrib"} : TouchFile(n, act)
       \/ \E m, n \in Unlocked : MoveFile(m, n)
       \/ \E r \in halfDone : FinishMove(r)
    /\ UNCHANGED <<overtaken, atStart>> /\ UNCHANGED model

-----------------------------------------------------------------------------
(* traverseRename(), for a file: "from" and "to" are sets of at most one    *)
(* name, empty when that side is not watched or is filtered out.            *)

MovedFrom(r) ==
    IF r = NoResult
    THEN [type |-> "deleted", inconsistent |-> FALSE, immediate |-> FALSE]
    ELSE [type |-> GoneType(r), inconsistent |-> r.inconsistent \/ ~Exists(r), immediate |-> FALSE]

MovedTo(r) ==
    [type |-> PresentType(r), inconsistent |-> r.inconsistent, immediate |-> FALSE]

Renamed(rs, from, to) ==
    [n \in Names |-> IF n \in from THEN MovedFrom(rs[n])
                     ELSE IF n \in to THEN MovedTo(rs[n])
                     ELSE rs[n]]

TraverseRename(from, to) ==
    /\ results' = Renamed(results, from, to)
    /\ existing' = existing \ (from \cup to)
    /\ hasInconsistencies' =
          (hasInconsistencies \/ \E n \in from : results[n] # NoResult /\ ~Exists(results[n]))

-----------------------------------------------------------------------------
(* onFileModified() and onCheckOpenMoves().                                 *)

Watched(n) == {n} \ Excluded

\* Mutant: the whole event is kept.
RenameFromWhole(e) ==
    /\ openMoves' = openMoves \cup {e}
    /\ UNCHANGED <<existing, results, hasInconsistencies>>

RenameFrom(e) ==
    /\ openMoves' = openMoves \cup {[name |-> e.name, cookie |-> e.cookie]}
    /\ UNCHANGED <<existing, results, hasInconsistencies>>

\* Mutant: pop_back() without the swap, whichever move was found.
ClosedLast(move) == {m \in openMoves : \E later \in openMoves : later.cookie > m.cookie}

\* The open move that was found is swapped with the last one, and that is dropped.
Closed(move) == openMoves \ {move}

RenameTo(e) ==
    \/ \E move \in openMoves :
          /\ move.cookie = e.cookie
          /\ IF move.name \in Excluded /\ e.name \in Excluded
             THEN UNCHANGED model
             ELSE /\ TraverseRename(Watched(move.name), Watched(e.name))
                  /\ openMoves' = Closed(move)
    \/ /\ \A move \in openMoves : move.cookie # e.cookie
       /\ TraverseRename({}, Watched(e.name))
       /\ UNCHANGED openMoves

PlainEvent(e) ==
    LET n     == e.name
        known == n \in existing
        act   == Effective(results[n], e.act, known, IsRoot)
        new   == OnEvent(results[n], act, known)
    IN  /\ IF n \in Excluded
           THEN UNCHANGED <<existing, results, hasInconsistencies>>
           ELSE /\ results' = [results EXCEPT ![n] = new]
                /\ existing' = existing \ {n}
                /\ hasInconsistencies' =
                      (hasInconsistencies \/ (new.inconsistent /\ ~results[n].inconsistent))
        /\ UNCHANGED openMoves

Overtakes(e) == \E move \in openMoves : move.name = e.name

Dispatch ==
    /\ queue # <<>>
    /\ queue' = Tail(queue)
    /\ LET e == Head(queue) IN
       /\ \/ e.act = "from" /\ RenameFrom(e)
          \/ e.act = "to" /\ RenameTo(e)
          \/ e.act \in Action /\ PlainEvent(e)
       /\ overtaken' = (overtaken \/ Overtakes(e))
    /\ UNCHANGED <<disk, lost, lastCookie, halfDone, atStart>>

\* The moves open for too long when the youngest of them has cookie c: a move is
\* so before any younger one.
OpenTooLong(c) == {move \in openMoves : move.cookie <= c}

\* Mutant: moves that are filtered out are passed over, and stay.
CheckWatchedMoves(c) ==
    LET over  == {move \in OpenTooLong(c) : move.name \notin Excluded}
        names == {move.name : move \in over}
    IN  /\ results' = Renamed(results, names, {})
        /\ existing' = existing \ names
        /\ openMoves' = openMoves \ over
        /\ UNCHANGED <<overtaken, atStart, hasInconsistencies>> /\ UNCHANGED outside

\* The timer's callback takes the moves open for too long for moves to elsewhere,
\* one after the other: two of one name change its result twice.
CheckOpenMoves(c) ==
    LET over  == OpenTooLong(c)
        names == {move.name : move \in over} \ Excluded
        twice == {n \in names : \E m, k \in over : m # k /\ m.name = n /\ k.name = n}
    IN  /\ results' = Renamed(Renamed(results, names, {}), twice, {})
        /\ existing' = existing \ names
        /\ hasInconsistencies' =
              (hasInconsistencies \/ twice # {}
                 \/ \E n \in names : results[n] # NoResult /\ ~Exists(results[n]))
        /\ openMoves' = openMoves \ over
        /\ UNCHANGED <<overtaken, atStart>> /\ UNCHANGED outside

Timer == \E move \in openMoves : CheckOpenMoves(move.cookie)

Next ==
    \/ Environment
    \/ Dispatch
    \/ Timer

Spec == Init /\ [][Next]_vars

\* The source is dispatched while it is readable, and the timer goes on.
Fairness == WF_vars(Dispatch) /\ WF_vars(Timer)

FairSpec == Spec /\ Fairness

-----------------------------------------------------------------------------
(* Properties.                                                              *)

Known(n) == IF results[n] = NoResult THEN n \in existing ELSE Exists(results[n])

Settled == queue = <<>> /\ halfDone = {} /\ openMoves = {} /\ ~lost

(* Whether the timer or the RENAME_TO comes first, and through any chain of   *)
(* renames over each other, the model ends up knowing which files exist,      *)
(* unless an event of a name overtook an open move of that name.             *)
ExistenceIsRight ==
    Settled /\ ~overtaken => \A n \in Names \ Excluded : Known(n) = disk[n]

(* A result that says its file was there at the start and is not flagged      *)
(* tells the truth, whatever was renamed to it or away from it.              *)
OldMeansOld ==
    ~lost =>
        \A n \in Names : ExistedAtStart(results[n]) =>
            results[n].inconsistent \/ atStart[n]

(* Every rename that began is settled: no open move stays for ever, not even   *)
(* one that RENAME_TO left behind because both names are filtered out.       *)
MovesAreClosed ==
    \A c \in 1..MaxMoves :
        (\E move \in openMoves : move.cookie = c)
            ~> ~(\E move \in openMoves : move.cookie = c)

-----------------------------------------------------------------------------
(* An inductive invariant for OldMeansOld.  Until a file has a result, the    *)
(* first thing heard of it says how it was when the run began, except that a  *)
(* rename to it may have replaced it silently.                               *)

IsFirst(i, n) == queue[i].name = n /\ \A j \in 1..(i - 1) : queue[j].name # n

NothingQueued(n) == \A i \in DOMAIN queue : queue[i].name # n

\* Nothing is recorded of what is filtered out.
ExcludedInv == \A n \in Excluded : results[n] = NoResult

OpenMoveInv == \A move \in openMoves :
    results[move.name] = NoResult => move.name \in Excluded \/ atStart[move.name]

FirstQueuedInv == \A n \in Names \ Excluded : \A i \in DOMAIN queue :
    results[n] = NoResult /\ IsFirst(i, n) /\ queue[i].act \notin {"create", "to"} => atStart[n]

DiskInv == \A n \in Names \ Excluded :
    results[n] = NoResult /\ NothingQueued(n) /\ disk[n] /\ (\A r \in halfDone : r.to # n)
        => atStart[n]

OldInv ==
    /\ TypeOK
    /\ ~lost => /\ ExcludedInv
                /\ OpenMoveInv
                /\ FirstQueuedInv
                /\ DiskInv
                /\ OldMeansOld

-----------------------------------------------------------------------------
(* An inductive invariant for ExistenceIsRight.  The last event of a file     *)
(* that waits says whether it is there; when none waits, an open move says it *)
(* is not, and without one the model is right.                              *)

IsLast(i, n) == queue[i].name = n /\ \A j \in DOMAIN queue : j > i => queue[j].name # n

NoneComing(n) == \A r \in halfDone : r.to # n

IsMoving(n) == \E move \in openMoves : move.name = n

TargetInv == \A r \in halfDone : disk[r.to]

LastQueuedInv == \A n \in Names \ Excluded : \A i \in DOMAIN queue :
    NoneComing(n) /\ IsLast(i, n) => disk[n] = (queue[i].act \notin {"delete", "from"})

KnownInv == \A n \in Names \ Excluded :
    NothingQueued(n) /\ NoneComing(n) => IF IsMoving(n) THEN ~disk[n] ELSE Known(n) = disk[n]

ExistenceInv ==
    /\ TypeOK
    /\ ~lost /\ ~overtaken => TargetInv /\ LastQueuedInv /\ KnownInv

=============================================================================
