------------------------------- MODULE WatchMap -------------------------------
(***************************************************************************)
(* What INotifierSource promises (inotifiersource.h): a directory tag has   *)
(* at most one watch, which can be removed or handed to another tag, and an *)
(* event is delivered to the tag that holds its watch when it is            *)
(* dispatched, or to nobody.                                                *)
(***************************************************************************)
EXTENDS Inotify

CONSTANT Tags       \* the ToWatchDirs of FofiModel, by index

VARIABLES watchOf,    \* watchOf[t]: the descriptor of t's watch, 0 if none
          receiver    \* the tags the last event read was delivered to

vars == <<watched, lastWd, queue, lost, watchOf, receiver>>

TypeOK ==
    /\ KernelTypeOK
    /\ watchOf \in [Tags -> Nat]
    /\ receiver \subseteq Tags

Init ==
    /\ KernelInit
    /\ watchOf = [t \in Tags |-> 0]
    /\ receiver = {}

Environment ==
    /\ \E d \in watched : DirectoryChanges(d) \/ DirectoryGone(d)
    /\ UNCHANGED <<watchOf, receiver>>

Watch(t) ==
    /\ watchOf[t] = 0
    /\ NewWatch
    /\ watchOf' = [watchOf EXCEPT ![t] = lastWd + 1]
    /\ UNCHANGED receiver

Remove(t) ==
    /\ watchOf[t] # 0
    /\ Unwatch({watchOf[t]})
    /\ watchOf' = [watchOf EXCEPT ![t] = 0]
    /\ UNCHANGED receiver

HandOver(s, t) ==
    /\ watchOf[s] # 0
    /\ watchOf[t] = 0
    /\ watchOf' = [watchOf EXCEPT ![s] = 0, ![t] = watchOf[s]]
    /\ UNCHANGED receiver /\ UNCHANGED kernelVars

RemoveAll ==
    /\ Unwatch({watchOf[t] : t \in Tags})
    /\ watchOf' = [t \in Tags |-> 0]
    /\ UNCHANGED receiver

Deliver ==
    /\ ReadEvent
    /\ LET e == Head(queue) IN
       receiver' = {t \in Tags : e.kind = "change" /\ watchOf[t] = e.wd}
    /\ UNCHANGED watchOf

Next ==
    \/ Environment
    \/ \E t \in Tags : Watch(t) \/ Remove(t)
    \/ \E s, t \in Tags : HandOver(s, t)
    \/ RemoveAll
    \/ Deliver

Spec == Init /\ [][Next]_vars

=============================================================================
