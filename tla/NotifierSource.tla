----------------------------- MODULE NotifierSource -----------------------------
(***************************************************************************)
(* INotifierSource: a table of WatchItems that ties the kernel's            *)
(* descriptors to the tags of FofiModel's ToWatchDirs, with a list of free  *)
(* slots, and the dispatch of events.  FofiModel is its only caller; it     *)
(* keeps in every ToWatchDir the slot of its watch (m_nWatchedIdx), watches *)
(* only what is not watched and removes or renames only what is.            *)
(*                                                                         *)
(* Slots are counted from 1 here; 0 stands for an index of -1.              *)
(***************************************************************************)
EXTENDS Inotify

CONSTANT Tags       \* the ToWatchDirs of FofiModel, by index

CONSTANT NoTag      \* the tag of a free slot, -1 in the code

ASSUME NoTagAssumption == NoTag \notin Tags

VARIABLES
    items,      \* m_aWatchItems
    free,       \* m_aFreeWatchIdxs, a stack
    slot,       \* slot[t]: ToWatchDir::m_nWatchedIdx of t, 0 if not watched
    delivered,  \* the tags in the FofiData of the last dispatched event, if any
    overflow    \* FofiModel::m_bOverflow

sourceVars == <<items, free, slot>>
vars == <<watched, lastWd, queue, lost, items, free, slot, delivered, overflow>>

WatchItem == [wd: Int, tag: Tags \cup {NoTag}]

FreeItem == [wd |-> -1, tag |-> NoTag]

TypeOK ==
    /\ KernelTypeOK
    /\ items \in Seq(WatchItem)
    /\ free \in Seq(Nat)
    /\ slot \in [Tags -> Nat]
    /\ delivered \subseteq Tags \cup {NoTag}
    /\ overflow \in BOOLEAN

Init ==
    /\ KernelInit
    /\ items = <<>>
    /\ free = <<>>
    /\ slot = [t \in Tags |-> 0]
    /\ delivered = {}
    /\ overflow = FALSE

Environment ==
    /\ \E d \in watched : DirectoryChanges(d) \/ DirectoryGone(d)
    /\ UNCHANGED <<delivered, overflow>> /\ UNCHANGED sourceVars

\* addPath(): the free slot released last is used again before the table grows.
AddPath(t) ==
    LET new == [wd |-> lastWd + 1, tag |-> t]
        top == free[Len(free)]
    IN  /\ slot[t] = 0
        /\ NewWatch
        /\ \/ /\ free = <<>>
              /\ items' = Append(items, new)
              /\ slot' = [slot EXCEPT ![t] = Len(items) + 1]
              /\ UNCHANGED free
           \/ /\ free # <<>>
              /\ items' = [items EXCEPT ![top] = new]
              /\ slot' = [slot EXCEPT ![t] = top]
              /\ free' = SubSeq(free, 1, Len(free) - 1)
        /\ UNCHANGED <<delivered, overflow>>

\* Mutant: the freed slot keeps its descriptor and its tag.
RemovePathKeepingItem(t) ==
    LET i == slot[t] IN
    /\ i # 0
    /\ Unwatch({items[i].wd})
    /\ free' = Append(free, i)
    /\ slot' = [slot EXCEPT ![t] = 0]
    /\ UNCHANGED <<items, delivered, overflow>>

RemovePath(t) ==
    LET i == slot[t] IN
    /\ i # 0
    /\ Unwatch({items[i].wd})
    /\ items' = [items EXCEPT ![i] = FreeItem]
    /\ free' = Append(free, i)
    /\ slot' = [slot EXCEPT ![t] = 0]
    /\ UNCHANGED <<delivered, overflow>>

\* Mutant: the slot goes over with the tag of the old directory.
RenamePathKeepingTag(s, t) ==
    LET i == slot[s] IN
    /\ i # 0
    /\ slot[t] = 0
    /\ slot' = [slot EXCEPT ![s] = 0, ![t] = i]
    /\ UNCHANGED <<items, free, delivered, overflow>> /\ UNCHANGED kernelVars

\* renamePath(): the watch goes over to another ToWatchDir.
RenamePath(s, t) ==
    LET i == slot[s] IN
    /\ i # 0
    /\ slot[t] = 0
    /\ items' = [items EXCEPT ![i].tag = t]
    /\ slot' = [slot EXCEPT ![s] = 0, ![t] = i]
    /\ UNCHANGED <<free, delivered, overflow>> /\ UNCHANGED kernelVars

\* clearAll(), called by stop(); the next start() begins with no ToWatchDir.
ClearAll ==
    /\ Unwatch({items[i].wd : i \in DOMAIN items})
    /\ items' = <<>>
    /\ free' = <<>>
    /\ slot' = [t \in Tags |-> 0]
    /\ UNCHANGED <<delivered, overflow>>

\* findEntryByWatch(): the slots whose first one it returns; free slots count.
EntriesByWatch(d) == {i \in DOMAIN items : items[i].wd = d}

FirstEntry(d) == CHOOSE i \in EntriesByWatch(d) : \A j \in EntriesByWatch(d) : i <= j

\* nActionMask is one of the six actions
HasAction(e) == e.kind = "change"

\* Mutant: the slot's descriptor is delivered in the place of its tag.
DispatchDescriptor ==
    /\ ReadEvent
    /\ LET e == Head(queue)
           passed == HasAction(e) /\ EntriesByWatch(e.wd) # {}
       IN  /\ delivered' = IF passed THEN {items[FirstEntry(e.wd)].wd} ELSE {}
           /\ overflow' = (overflow \/ (passed /\ e.kind = "overflow"))
    /\ UNCHANGED sourceVars

\* dispatch() hands an event with an action and a known descriptor to
\* FofiModel::onFileModified(), which first looks at FofiData::m_bOverflow.
Dispatch ==
    /\ ReadEvent
    /\ LET e == Head(queue)
           passed == HasAction(e) /\ EntriesByWatch(e.wd) # {}
       IN  /\ delivered' = IF passed THEN {items[FirstEntry(e.wd)].tag} ELSE {}
           /\ overflow' = (overflow \/ (passed /\ e.kind = "overflow"))
    /\ UNCHANGED sourceVars

Next ==
    \/ Environment
    \/ \E t \in Tags : AddPath(t) \/ RemovePath(t)
    \/ \E s, t \in Tags : RenamePath(s, t)
    \/ ClearAll
    \/ Dispatch

Spec == Init /\ [][Next]_vars

-----------------------------------------------------------------------------
(* Properties.                                                              *)

IsFree(i) == \E j \in DOMAIN free : free[j] = i

(* Every slot is either on the free list, once, or the slot of exactly one   *)
(* ToWatchDir, and then carries its tag (the assertions of removePath() and  *)
(* renamePath()) and a descriptor no other slot has (that of addPath()).     *)
SlotsAreSound ==
    /\ \A j, k \in DOMAIN free : free[j] = free[k] => j = k
    /\ \A j \in DOMAIN free : free[j] \in DOMAIN items /\ items[free[j]] = FreeItem
    /\ \A t \in Tags : slot[t] # 0 =>
          /\ slot[t] \in DOMAIN items
          /\ items[slot[t]].tag = t
          /\ items[slot[t]].wd \in 1..lastWd
    /\ \A i \in DOMAIN items : IsFree(i) \/ \E t \in Tags : slot[t] = i
    /\ \A i, j \in DOMAIN items : items[i].wd = items[j].wd => i = j \/ items[i].wd = -1

\* The descriptor of t's watch, as the table has it
WatchOf(t) == IF slot[t] = 0 THEN 0 ELSE items[slot[t]].wd

Map == INSTANCE WatchMap WITH watchOf <- [t \in Tags |-> WatchOf(t)], receiver <- delivered

(* The table with its recycled slots, its tags and its first-match search     *)
(* implements the map: what is delivered goes to the directory that holds    *)
(* the watch of the event.                                                   *)
ImplementsMap == Map!Spec

(* fofimodel.h, hasQueueOverflown(): "This is set when inotify events         *)
(* overflow the buffer and are lost."  It never is: the overflow event has no *)
(* action bit, and the descriptor -1, which only a free slot has.            *)
OverflowIsReported == lost /\ queue = <<>> => overflow

-----------------------------------------------------------------------------
(* What the proofs need besides SlotsAreSound.                              *)

\* An event with an action names a descriptor that was given out.
QueueInv == \A i \in DOMAIN queue : HasAction(queue[i]) => queue[i].wd \in 1..lastWd

IInv == TypeOK /\ SlotsAreSound /\ QueueInv

=============================================================================
