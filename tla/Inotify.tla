-------------------------------- MODULE Inotify --------------------------------
(***************************************************************************)
(* The kernel's side of one inotify instance, as INotifierSource uses it:   *)
(* watches named by descriptors, and one bounded queue of events.           *)
(***************************************************************************)
EXTENDS Integers, Sequences

CONSTANTS MaxQueue,   \* max_queued_events
          MaxWd       \* bound: how many descriptors are ever given out

ASSUME MaxQueueAssumption == MaxQueue \in Nat
ASSUME MaxWdAssumption    == MaxWd \in Nat

VARIABLES watched,    \* the descriptors of the live watches
          lastWd,     \* the last descriptor given out: they are never reused
          queue,      \* the events not read yet, oldest first
          lost        \* ghost: some event was dropped, the queue being full

kernelVars == <<watched, lastWd, queue, lost>>

\* "change" stands for an event with one of the six action bits, "ignored" for
\* IN_IGNORED (the directory is gone), "overflow" for IN_Q_OVERFLOW.
KernelEvent == [wd: Int, kind: {"change", "ignored", "overflow"}]

OverflowEvent == [wd |-> -1, kind |-> "overflow"]

KernelTypeOK ==
    /\ watched \subseteq 1..lastWd
    /\ lastWd \in Nat
    /\ queue \in Seq(KernelEvent)
    /\ lost \in BOOLEAN

KernelInit ==
    /\ watched = {}
    /\ lastWd = 0
    /\ queue = <<>>
    /\ lost = FALSE

\* A full queue drops the event and ends, once, with the overflow event.
Post(e) ==
    LET full == Len(queue) >= MaxQueue
        told == \E i \in DOMAIN queue : queue[i] = OverflowEvent
    IN  /\ queue' = IF ~full THEN Append(queue, e)
                    ELSE IF told THEN queue ELSE Append(queue, OverflowEvent)
        /\ lost' = (lost \/ full)

\* inotify_add_watch() on a directory that has no watch yet
NewWatch ==
    /\ lastWd < MaxWd
    /\ lastWd' = lastWd + 1
    /\ watched' = watched \cup {lastWd + 1}
    /\ UNCHANGED <<queue, lost>>

\* inotify_rm_watch(); the IN_IGNORED it queues names a descriptor the source
\* has already forgotten, like any event queued before, and is left out.
Unwatch(D) ==
    /\ watched' = watched \ D
    /\ UNCHANGED <<lastWd, queue, lost>>

\* Something happens in a watched directory.
DirectoryChanges(d) ==
    /\ d \in watched
    /\ Post([wd |-> d, kind |-> "change"])
    /\ UNCHANGED <<watched, lastWd>>

\* A watched directory is removed.
DirectoryGone(d) ==
    /\ d \in watched
    /\ watched' = watched \ {d}
    /\ Post([wd |-> d, kind |-> "ignored"])
    /\ UNCHANGED lastWd

ReadEvent ==
    /\ queue # <<>>
    /\ queue' = Tail(queue)
    /\ UNCHANGED <<watched, lastWd, lost>>

=============================================================================
