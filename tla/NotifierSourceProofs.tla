-------------------------- MODULE NotifierSourceProofs --------------------------
(***************************************************************************)
(* Proofs about NotifierSource, for any number of directories, descriptors  *)
(* and queued events: the table stays sound, and it implements the map from *)
(* directories to watches.                                                  *)
(***************************************************************************)
EXTENDS NotifierSource, TLAPS

(* What the soundness of the table says of one directory and one slot.      *)
LEMMA SlotFacts ==
    ASSUME TypeOK, SlotsAreSound
    PROVE  /\ \A t \in Tags : slot[t] # 0 =>
                 /\ slot[t] \in DOMAIN items
                 /\ items[slot[t]] \in WatchItem
                 /\ items[slot[t]].tag = t
                 /\ items[slot[t]].wd \in 1..lastWd
                 /\ ~IsFree(slot[t])
           /\ \A s, t \in Tags : slot[s] = slot[t] => s = t \/ slot[s] = 0
           /\ \A i \in DOMAIN items : i \in Nat \ {0} /\ items[i] \in WatchItem
  <1>1. \A i \in DOMAIN items : i \in Nat \ {0} /\ items[i] \in WatchItem
    BY DEF TypeOK
  <1>2. ASSUME NEW t \in Tags, slot[t] # 0
        PROVE  /\ slot[t] \in DOMAIN items
               /\ items[slot[t]].tag = t
               /\ items[slot[t]].wd \in 1..lastWd
               /\ ~IsFree(slot[t])
    <2>1. /\ slot[t] \in DOMAIN items
          /\ items[slot[t]].tag = t
          /\ items[slot[t]].wd \in 1..lastWd
      BY <1>2 DEF SlotsAreSound
    <2>2. items[slot[t]] # FreeItem
      BY <2>1, NoTagAssumption DEF FreeItem
    <2>3. QED
      BY <2>1, <2>2 DEF SlotsAreSound, IsFree
  <1>3. \A s, t \in Tags : slot[s] = slot[t] => s = t \/ slot[s] = 0
    BY <1>2
  <1>4. QED
    BY <1>1, <1>2, <1>3

(* Posting an event keeps the queue's type and its other elements.          *)
LEMMA PostQueue ==
    ASSUME KernelTypeOK, QueueInv, NEW e \in KernelEvent, Post(e),
           HasAction(e) => e.wd \in 1..lastWd
    PROVE  /\ queue' \in Seq(KernelEvent)
           /\ lost' \in BOOLEAN
           /\ \A i \in DOMAIN queue' : HasAction(queue'[i]) => queue'[i].wd \in 1..lastWd
  <1>1. OverflowEvent \in KernelEvent /\ ~HasAction(OverflowEvent)
    BY DEF OverflowEvent, KernelEvent, HasAction
  <1>2. lost' \in BOOLEAN
    BY DEF Post, KernelTypeOK
  <1>3. queue \in Seq(KernelEvent)
    BY DEF KernelTypeOK
  <1>4. \/ queue' = queue
        \/ queue' = Append(queue, e)
        \/ queue' = Append(queue, OverflowEvent)
    BY DEF Post
  <1> HIDE DEF OverflowEvent, HasAction
  <1>5. ASSUME NEW x \in KernelEvent, queue' = Append(queue, x)
        PROVE  /\ queue' \in Seq(KernelEvent)
               /\ \A i \in DOMAIN queue' : queue'[i] = x \/ (i \in DOMAIN queue /\ queue'[i] = queue[i])
    BY <1>3, <1>5
  <1>6. CASE queue' = queue
    BY <1>2, <1>3, <1>6 DEF QueueInv
  <1>7. CASE queue' = Append(queue, e)
    BY <1>2, <1>5, <1>7 DEF QueueInv
  <1>8. CASE queue' = Append(queue, OverflowEvent)
    BY <1>1, <1>2, <1>5, <1>8 DEF QueueInv
  <1>9. QED
    BY <1>4, <1>6, <1>7, <1>8

(* The invariant holds initially.                                           *)
LEMMA IInvInit == Init => IInv
  <1> SUFFICES ASSUME Init PROVE IInv
    OBVIOUS
  <1>1. /\ queue = <<>> /\ items = <<>> /\ free = <<>>
        /\ slot = [t \in Tags |-> 0]
        /\ watched = {} /\ lastWd = 0 /\ lost = FALSE
        /\ delivered = {} /\ overflow = FALSE
    BY DEF Init, KernelInit
  <1>2. TypeOK
    <2>1. /\ queue \in Seq(KernelEvent) /\ items \in Seq(WatchItem) /\ free \in Seq(Nat)
          /\ watched \subseteq 1..lastWd
      BY <1>1
    <2>2. lost \in BOOLEAN /\ overflow \in BOOLEAN
      BY <1>1
    <2>3. QED
      BY <1>1, <2>1, <2>2 DEF TypeOK, KernelTypeOK
  <1>3. SlotsAreSound /\ QueueInv
    BY <1>1 DEF SlotsAreSound, QueueInv
  <1>4. QED
    BY <1>2, <1>3 DEF IInv

(* What happens in the kernel leaves the table alone.                       *)
LEMMA IInvEnvironment ==
    ASSUME IInv, Environment
    PROVE  IInv'
  <1>1. /\ UNCHANGED <<items, free, slot, delivered, overflow, lastWd>>
        /\ watched' \subseteq watched
    BY DEF Environment, DirectoryChanges, DirectoryGone, sourceVars
  <1>2. PICK e \in KernelEvent : Post(e) /\ (HasAction(e) => e.wd \in 1..lastWd)
    <2>1. PICK d \in watched : DirectoryChanges(d) \/ DirectoryGone(d)
      BY DEF Environment
    <2>2. d \in 1..lastWd /\ d \in Int
      BY DEF IInv, TypeOK, KernelTypeOK
    <2>3. CASE DirectoryChanges(d)
      BY <2>2, <2>3 DEF DirectoryChanges, KernelEvent, HasAction
    <2>4. CASE DirectoryGone(d)
      BY <2>2, <2>4 DEF DirectoryGone, KernelEvent, HasAction
    <2>5. QED
      BY <2>1, <2>3, <2>4
  <1>3. /\ queue' \in Seq(KernelEvent)
        /\ lost' \in BOOLEAN
        /\ \A i \in DOMAIN queue' : HasAction(queue'[i]) => queue'[i].wd \in 1..lastWd
    BY <1>2, PostQueue DEF IInv, TypeOK
  <1>4. TypeOK'
    BY <1>1, <1>3 DEF IInv, TypeOK, KernelTypeOK
  <1>5. QueueInv'
    BY <1>1, <1>3 DEF QueueInv, HasAction
  <1>6. SlotsAreSound'
    BY <1>1 DEF IInv, SlotsAreSound, IsFree
  <1>7. QED
    BY <1>4, <1>5, <1>6 DEF IInv

(* A new watch takes a free slot, or a new one.                             *)
LEMMA IInvAddPath ==
    ASSUME IInv, NEW t \in Tags, AddPath(t)
    PROVE  IInv'
  <1> DEFINE new == [wd |-> lastWd + 1, tag |-> t]
             top == free[Len(free)]
  <1>1. /\ TypeOK /\ SlotsAreSound /\ QueueInv
        /\ lastWd \in Nat
        /\ slot[t] = 0
    BY DEF IInv, TypeOK, KernelTypeOK, AddPath
  <1>2. /\ lastWd' = lastWd + 1
        /\ watched' = watched \cup {lastWd + 1}
        /\ UNCHANGED <<queue, lost, delivered, overflow>>
    BY DEF AddPath, NewWatch
  <1>3. KernelTypeOK' /\ QueueInv'
    <2>1. \A d \in 1..lastWd : d \in 1..lastWd'
      BY <1>1, <1>2
    <2>2. watched' \subseteq 1..lastWd' /\ lastWd' \in Nat
      BY <1>1, <1>2, <2>1 DEF TypeOK, KernelTypeOK
    <2>3. KernelTypeOK'
      BY <1>1, <1>2, <2>2 DEF TypeOK, KernelTypeOK
    <2>4. QueueInv'
      BY <1>1, <1>2, <2>1 DEF QueueInv, HasAction
    <2>5. QED
      BY <2>3, <2>4
  <1>4. /\ new \in WatchItem /\ new.wd = lastWd + 1 /\ new.tag = t
    BY <1>1 DEF WatchItem
  <1>5. /\ items \in Seq(WatchItem) /\ free \in Seq(Nat) /\ slot \in [Tags -> Nat]
    BY <1>1 DEF TypeOK
  <1>6. /\ \A u \in Tags : slot[u] # 0 =>
              /\ slot[u] \in DOMAIN items
              /\ items[slot[u]].tag = u
              /\ items[slot[u]].wd \in 1..lastWd
              /\ ~IsFree(slot[u])
        /\ \A u, v \in Tags : slot[u] = slot[v] => u = v \/ slot[u] = 0
    BY <1>1, SlotFacts
  <1>7. \A i \in DOMAIN items : items[i].wd = -1 \/ items[i].wd \in 1..lastWd
    <2> SUFFICES ASSUME NEW i \in DOMAIN items
                 PROVE  items[i].wd = -1 \/ items[i].wd \in 1..lastWd
      OBVIOUS
    <2>1. CASE IsFree(i)
      BY <1>1, <2>1 DEF SlotsAreSound, IsFree, FreeItem
    <2>2. CASE \E u \in Tags : slot[u] = i
      BY <1>5, <1>6, <2>2
    <2>3. QED
      BY <1>1, <2>1, <2>2 DEF SlotsAreSound
  <1> HIDE DEF new
  <1>8. CASE /\ free = <<>>
             /\ items' = Append(items, new)
             /\ slot' = [slot EXCEPT ![t] = Len(items) + 1]
             /\ UNCHANGED free
    <2>1. PICK k \in Nat : k = Len(items)
      BY <1>5
    <2>2. /\ DOMAIN items = 1..k /\ DOMAIN items' = 1..(k + 1)
          /\ items'[k + 1] = new
          /\ \A i \in 1..k : items'[i] = items[i]
          /\ items' \in Seq(WatchItem)
      BY <1>4, <1>5, <1>8, <2>1
    <2>3. /\ slot'[t] = k + 1 /\ \A u \in Tags \ {t} : slot'[u] = slot[u]
          /\ slot' \in [Tags -> Nat]
      BY <1>5, <1>8, <2>1
    <2>4. TypeOK'
      BY <1>1, <1>2, <1>3, <1>5, <1>8, <2>2, <2>3 DEF TypeOK
    <2>5. ASSUME NEW u \in Tags, slot'[u] # 0
          PROVE  /\ slot'[u] \in DOMAIN items'
                 /\ items'[slot'[u]].tag = u
                 /\ items'[slot'[u]].wd \in 1..lastWd'
      <3>1. CASE u = t
        BY <1>1, <1>2, <1>4, <2>2, <2>3, <3>1
      <3>2. CASE u # t
        BY <1>1, <1>2, <1>6, <2>2, <2>3, <2>5, <3>2
      <3>3. QED
        BY <3>1, <3>2
    <2>6. ASSUME NEW i \in DOMAIN items' PROVE \E u \in Tags : slot'[u] = i
      <3>1. CASE i = k + 1
        BY <2>3, <3>1
      <3>2. CASE i # k + 1
        <4>1. i \in DOMAIN items
          BY <2>2, <3>2
        <4>2. PICK u \in Tags : slot[u] = i
          BY <1>1, <1>8, <4>1 DEF SlotsAreSound, IsFree
        <4>3. u # t
          BY <1>1, <2>2, <4>1, <4>2
        <4>4. QED
          BY <2>3, <4>2, <4>3
      <3>3. QED
        BY <3>1, <3>2
    <2>7. ASSUME NEW i \in DOMAIN items', NEW j \in DOMAIN items', items'[i].wd = items'[j].wd
          PROVE  i = j \/ items'[i].wd = -1
      BY <1>1, <1>4, <1>7, <2>2, <2>7 DEF SlotsAreSound
    <2>8. SlotsAreSound'
      BY <1>8, <2>5, <2>6, <2>7 DEF SlotsAreSound
    <2>9. QED
      BY <1>3, <2>4, <2>8 DEF IInv
  <1>9. CASE /\ free # <<>>
             /\ items' = [items EXCEPT ![top] = new]
             /\ slot' = [slot EXCEPT ![t] = top]
             /\ free' = SubSeq(free, 1, Len(free) - 1)
    <2>1. PICK k \in Nat : k = Len(free) /\ k > 0
      BY <1>5, <1>9
    <2>2. /\ DOMAIN free = 1..k /\ DOMAIN free' = 1..(k - 1)
          /\ \A j \in 1..(k - 1) : free'[j] = free[j]
          /\ free' \in Seq(Nat)
      BY <1>5, <1>9, <2>1
    <2>3. PICK p \in Nat : p = top
      BY <1>5, <2>1, <2>2
    <2>4. p = free[k] /\ p \in DOMAIN items /\ p # 0 /\ items[p] = FreeItem /\ IsFree(p)
      BY <1>1, <1>5, <2>1, <2>2, <2>3 DEF SlotsAreSound, IsFree
    <2>5. /\ DOMAIN items' = DOMAIN items
          /\ items'[p] = new
          /\ \A i \in DOMAIN items \ {p} : items'[i] = items[i]
          /\ items' \in Seq(WatchItem)
      BY <1>4, <1>5, <1>9, <2>3, <2>4
    <2>6. /\ slot'[t] = p /\ \A u \in Tags \ {t} : slot'[u] = slot[u]
          /\ slot' \in [Tags -> Nat]
      BY <1>5, <1>9, <2>3
    <2>7. TypeOK'
      BY <1>1, <1>2, <1>3, <2>2, <2>5, <2>6 DEF TypeOK
    <2>8. \A j \in DOMAIN free' : free'[j] # p
      <3>1. \A j, l \in DOMAIN free : free[j] = free[l] => j = l
        BY <1>1 DEF SlotsAreSound
      <3>2. SUFFICES ASSUME NEW j \in 1..(k - 1) PROVE free[j] # p
        BY <2>2
      <3>3. j \in DOMAIN free /\ k \in DOMAIN free /\ j # k
        BY <2>1, <2>2
      <3>4. QED
        BY <2>4, <3>1, <3>3
    <2>9. ASSUME NEW u \in Tags, slot'[u] # 0
          PROVE  /\ slot'[u] \in DOMAIN items'
                 /\ items'[slot'[u]].tag = u
                 /\ items'[slot'[u]].wd \in 1..lastWd'
      <3>1. CASE u = t
        BY <1>1, <1>2, <1>4, <2>4, <2>5, <2>6, <3>1
      <3>2. CASE u # t
        <4>1. slot[u] # p
          BY <1>6, <2>4, <2>6, <2>9, <3>2
        <4>2. QED
          BY <1>1, <1>2, <1>6, <2>5, <2>6, <2>9, <3>2, <4>1
      <3>3. QED
        BY <3>1, <3>2
    <2>10. ASSUME NEW i \in DOMAIN items'
           PROVE  (\E j \in DOMAIN free' : free'[j] = i) \/ \E u \in Tags : slot'[u] = i
      <3>1. CASE i = p
        BY <2>6, <3>1
      <3>2. CASE i # p /\ \E j \in DOMAIN free : free[j] = i
        BY <2>1, <2>2, <2>4, <3>2
      <3>3. CASE i # p /\ \E u \in Tags : slot[u] = i
        <4>1. PICK u \in Tags : slot[u] = i
          BY <3>3
        <4>2. i # 0
          BY <1>5, <2>5
        <4>3. QED
          BY <1>1, <2>6, <4>1, <4>2
      <3>4. QED
        BY <1>1, <2>5, <3>1, <3>2, <3>3 DEF SlotsAreSound, IsFree
    <2>11. ASSUME NEW i \in DOMAIN items', NEW j \in DOMAIN items', items'[i].wd = items'[j].wd
           PROVE  i = j \/ items'[i].wd = -1
      BY <1>1, <1>4, <1>7, <2>5, <2>11 DEF SlotsAreSound
    <2>12. \A j, l \in DOMAIN free' : free'[j] = free'[l] => j = l
      <3>1. \A j \in DOMAIN free' : j \in DOMAIN free /\ free'[j] = free[j]
        BY <2>1, <2>2
      <3>2. QED
        BY <1>1, <3>1 DEF SlotsAreSound
    <2>13. \A j \in DOMAIN free' : free'[j] \in DOMAIN items' /\ items'[free'[j]] = FreeItem
      <3>1. SUFFICES ASSUME NEW j \in DOMAIN free'
                     PROVE  free'[j] \in DOMAIN items' /\ items'[free'[j]] = FreeItem
        OBVIOUS
      <3>2. j \in DOMAIN free /\ free'[j] = free[j]
        BY <2>1, <2>2
      <3>3. free[j] \in DOMAIN items /\ items[free[j]] = FreeItem
        BY <1>1, <3>2 DEF SlotsAreSound
      <3>4. free[j] # p
        BY <2>8, <3>2
      <3>5. QED
        BY <2>5, <3>2, <3>3, <3>4
    <2>14. SlotsAreSound'
      BY <2>9, <2>10, <2>11, <2>12, <2>13 DEF SlotsAreSound, IsFree
    <2>15. QED
      BY <1>3, <2>7, <2>14 DEF IInv
  <1>10. QED
    BY <1>8, <1>9 DEF AddPath, new

(* A removal puts the slot on the free list.                                *)
LEMMA IInvRemovePath ==
    ASSUME IInv, NEW t \in Tags, RemovePath(t)
    PROVE  IInv'
  <1>1. /\ TypeOK /\ SlotsAreSound /\ QueueInv
        /\ items \in Seq(WatchItem) /\ free \in Seq(Nat) /\ slot \in [Tags -> Nat]
    BY DEF IInv, TypeOK
  <1>2. PICK p \in Nat : p = slot[t] /\ p # 0
    BY <1>1 DEF RemovePath
  <1>3. /\ items' = [items EXCEPT ![p] = FreeItem]
        /\ free' = Append(free, p)
        /\ slot' = [slot EXCEPT ![t] = 0]
        /\ watched' \subseteq watched
        /\ UNCHANGED <<lastWd, queue, lost, delivered, overflow>>
    BY <1>2 DEF RemovePath, Unwatch
  <1>4. /\ \A u \in Tags : slot[u] # 0 =>
              /\ slot[u] \in DOMAIN items
              /\ items[slot[u]].tag = u
              /\ items[slot[u]].wd \in 1..lastWd
              /\ ~IsFree(slot[u])
        /\ \A u, v \in Tags : slot[u] = slot[v] => u = v \/ slot[u] = 0
    BY <1>1, SlotFacts
  <1>5. /\ FreeItem \in WatchItem /\ FreeItem.wd = -1
    BY DEF FreeItem, WatchItem
  <1>6. p \in DOMAIN items /\ ~IsFree(p)
    BY <1>2, <1>4
  <1>7. /\ DOMAIN items' = DOMAIN items
        /\ items'[p] = FreeItem
        /\ \A i \in DOMAIN items \ {p} : items'[i] = items[i]
        /\ items' \in Seq(WatchItem)
    BY <1>1, <1>3, <1>5, <1>6
  <1>8. PICK k \in Nat : k = Len(free)
    BY <1>1
  <1>9. /\ DOMAIN free = 1..k /\ DOMAIN free' = 1..(k + 1)
        /\ free'[k + 1] = p
        /\ \A j \in 1..k : free'[j] = free[j]
        /\ free' \in Seq(Nat)
    BY <1>1, <1>3, <1>8
  <1>10. /\ slot'[t] = 0 /\ \A u \in Tags \ {t} : slot'[u] = slot[u]
         /\ slot' \in [Tags -> Nat]
    BY <1>1, <1>3
  <1>11. TypeOK'
    BY <1>1, <1>3, <1>7, <1>9, <1>10 DEF TypeOK, KernelTypeOK
  <1>12. QueueInv'
    BY <1>1, <1>3 DEF QueueInv, HasAction
  <1>13. \A j, l \in DOMAIN free' : free'[j] = free'[l] => j = l
    <2>1. \A j \in DOMAIN free : free[j] # p
      BY <1>6 DEF IsFree
    <2>2. \A j, l \in DOMAIN free : free[j] = free[l] => j = l
      BY <1>1 DEF SlotsAreSound
    <2>3. \A j \in DOMAIN free' : j = k + 1 \/ (j \in DOMAIN free /\ free'[j] = free[j])
      BY <1>9
    <2>4. QED
      BY <1>9, <2>1, <2>2, <2>3
  <1>14. \A j \in DOMAIN free' : free'[j] \in DOMAIN items' /\ items'[free'[j]] = FreeItem
    <2>1. \A j \in DOMAIN free : free[j] \in DOMAIN items /\ items[free[j]] = FreeItem
      BY <1>1 DEF SlotsAreSound
    <2>2. QED
      BY <1>6, <1>7, <1>9, <2>1
  <1>15. ASSUME NEW u \in Tags, slot'[u] # 0
         PROVE  /\ slot'[u] \in DOMAIN items'
                /\ items'[slot'[u]].tag = u
                /\ items'[slot'[u]].wd \in 1..lastWd'
    <2>1. u # t /\ slot'[u] = slot[u]
      BY <1>10, <1>15
    <2>2. slot[u] # p
      BY <1>2, <1>4, <1>15, <2>1
    <2>3. QED
      BY <1>3, <1>4, <1>7, <1>15, <2>1, <2>2
  <1>16. ASSUME NEW i \in DOMAIN items'
         PROVE  (\E j \in DOMAIN free' : free'[j] = i) \/ \E u \in Tags : slot'[u] = i
    <2>1. CASE i = p
      BY <1>9, <2>1
    <2>2. CASE \E j \in DOMAIN free : free[j] = i
      BY <1>9, <2>2
    <2>3. CASE i # p /\ \E u \in Tags : slot[u] = i
      BY <1>2, <1>10, <2>3
    <2>4. QED
      BY <1>1, <1>7, <2>1, <2>2, <2>3 DEF SlotsAreSound, IsFree
  <1>17. ASSUME NEW i \in DOMAIN items', NEW j \in DOMAIN items', items'[i].wd = items'[j].wd
         PROVE  i = j \/ items'[i].wd = -1
    BY <1>1, <1>5, <1>7, <1>17 DEF SlotsAreSound
  <1>18. SlotsAreSound'
    BY <1>13, <1>14, <1>15, <1>16, <1>17 DEF SlotsAreSound, IsFree
  <1>19. QED
    BY <1>11, <1>12, <1>18 DEF IInv

(* A rename hands the slot over, tag included.                              *)
LEMMA IInvRenamePath ==
    ASSUME IInv, NEW s \in Tags, NEW t \in Tags, RenamePath(s, t)
    PROVE  IInv'
  <1>1. /\ TypeOK /\ SlotsAreSound /\ QueueInv
        /\ items \in Seq(WatchItem) /\ free \in Seq(Nat) /\ slot \in [Tags -> Nat]
    BY DEF IInv, TypeOK
  <1>2. PICK p \in Nat : p = slot[s] /\ p # 0
    BY <1>1 DEF RenamePath
  <1>3. /\ slot[t] = 0 /\ s # t
        /\ items' = [items EXCEPT ![p].tag = t]
        /\ slot' = [slot EXCEPT ![s] = 0, ![t] = p]
        /\ UNCHANGED <<free, watched, lastWd, queue, lost, delivered, overflow>>
    BY <1>2 DEF RenamePath, kernelVars
  <1>4. /\ \A u \in Tags : slot[u] # 0 =>
              /\ slot[u] \in DOMAIN items
              /\ items[slot[u]].tag = u
              /\ items[slot[u]].wd \in 1..lastWd
              /\ ~IsFree(slot[u])
        /\ \A u, v \in Tags : slot[u] = slot[v] => u = v \/ slot[u] = 0
        /\ \A i \in DOMAIN items : items[i] \in WatchItem
    BY <1>1, SlotFacts
  <1>5. p \in DOMAIN items /\ ~IsFree(p) /\ items[p].wd \in 1..lastWd
    BY <1>2, <1>4
  <1>6. /\ DOMAIN items' = DOMAIN items
        /\ items'[p] = [items[p] EXCEPT !.tag = t]
        /\ \A i \in DOMAIN items \ {p} : items'[i] = items[i]
    BY <1>1, <1>3, <1>5
  <1>7. /\ items'[p].tag = t /\ items'[p].wd = items[p].wd
        /\ items'[p] \in WatchItem
    BY <1>4, <1>5, <1>6 DEF WatchItem
  <1>8. items' \in Seq(WatchItem)
    BY <1>1, <1>3, <1>5, <1>6, <1>7
  <1>9. /\ slot'[s] = 0 /\ slot'[t] = p
        /\ \A u \in Tags \ {s, t} : slot'[u] = slot[u]
        /\ slot' \in [Tags -> Nat]
    BY <1>1, <1>3
  <1>10. TypeOK'
    BY <1>1, <1>3, <1>8, <1>9 DEF TypeOK, KernelTypeOK
  <1>11. QueueInv'
    BY <1>1, <1>3 DEF QueueInv, HasAction
  <1>12. ASSUME NEW u \in Tags, slot'[u] # 0
         PROVE  /\ slot'[u] \in DOMAIN items'
                /\ items'[slot'[u]].tag = u
                /\ items'[slot'[u]].wd \in 1..lastWd'
    <2>1. CASE u = t
      BY <1>3, <1>5, <1>6, <1>7, <1>9, <2>1
    <2>2. CASE u # t
      <3>1. u # s /\ slot'[u] = slot[u] /\ slot[u] # 0
        BY <1>9, <1>12, <2>2
      <3>2. slot[u] # p
        BY <1>2, <1>4, <3>1
      <3>3. QED
        BY <1>3, <1>4, <1>6, <3>1, <3>2
    <2>3. QED
      BY <2>1, <2>2
  <1>13. \A j \in DOMAIN free' : free'[j] \in DOMAIN items' /\ items'[free'[j]] = FreeItem
    <2>1. \A j \in DOMAIN free : free[j] # p
      BY <1>5 DEF IsFree
    <2>2. QED
      BY <1>1, <1>3, <1>6, <2>1 DEF SlotsAreSound
  <1>14. ASSUME NEW i \in DOMAIN items'
         PROVE  (\E j \in DOMAIN free' : free'[j] = i) \/ \E u \in Tags : slot'[u] = i
    <2>1. CASE i = p
      BY <1>9, <2>1
    <2>2. CASE i # p /\ \E u \in Tags : slot[u] = i
      <3>1. PICK u \in Tags : slot[u] = i
        BY <2>2
      <3>2. i # 0
        BY <1>1, <1>6
      <3>3. u # s /\ u # t
        BY <1>2, <1>3, <2>2, <3>1, <3>2
      <3>4. QED
        BY <1>9, <3>1, <3>3
    <2>3. QED
      BY <1>1, <1>3, <1>6, <2>1, <2>2 DEF SlotsAreSound, IsFree
  <1>15. ASSUME NEW i \in DOMAIN items', NEW j \in DOMAIN items', items'[i].wd = items'[j].wd
         PROVE  i = j \/ items'[i].wd = -1
    <2>1. \A l \in DOMAIN items : items'[l].wd = items[l].wd
      BY <1>6, <1>7
    <2>2. QED
      BY <1>1, <1>6, <1>15, <2>1 DEF SlotsAreSound
  <1>16. \A j, l \in DOMAIN free' : free'[j] = free'[l] => j = l
    BY <1>1, <1>3 DEF SlotsAreSound
  <1>17. SlotsAreSound'
    BY <1>12, <1>13, <1>14, <1>15, <1>16 DEF SlotsAreSound, IsFree
  <1>18. QED
    BY <1>10, <1>11, <1>17 DEF IInv

(* Clearing the table leaves no slot.                                       *)
LEMMA IInvClearAll ==
    ASSUME IInv, ClearAll
    PROVE  IInv'
  <1>1. /\ items' = <<>> /\ free' = <<>> /\ slot' = [t \in Tags |-> 0]
        /\ watched' \subseteq watched
        /\ UNCHANGED <<lastWd, queue, lost, delivered, overflow>>
    BY DEF ClearAll, Unwatch
  <1>2. items' \in Seq(WatchItem) /\ free' \in Seq(Nat) /\ slot' \in [Tags -> Nat]
    BY <1>1
  <1>3. TypeOK'
    BY <1>1, <1>2 DEF IInv, TypeOK, KernelTypeOK
  <1>4. SlotsAreSound'
    BY <1>1 DEF SlotsAreSound
  <1>5. QueueInv'
    BY <1>1 DEF IInv, QueueInv, HasAction
  <1>6. QED
    BY <1>3, <1>4, <1>5 DEF IInv

(* Reading an event leaves the table alone; the tag it finds is one.        *)
LEMMA IInvDispatch ==
    ASSUME IInv, Dispatch
    PROVE  IInv'
  <1> DEFINE e == Head(queue)
             passed == HasAction(e) /\ EntriesByWatch(e.wd) # {}
  <1>1. /\ UNCHANGED <<watched, lastWd, lost, items, free, slot>>
        /\ queue # <<>> /\ queue' = Tail(queue)
        /\ delivered' = IF passed THEN {items[FirstEntry(e.wd)].tag} ELSE {}
        /\ overflow' = (overflow \/ (passed /\ e.kind = "overflow"))
    BY DEF Dispatch, ReadEvent, sourceVars
  <1>2. queue \in Seq(KernelEvent)
    BY DEF IInv, TypeOK, KernelTypeOK
  <1>3. /\ queue' \in Seq(KernelEvent)
        /\ \A i \in DOMAIN queue' : i + 1 \in DOMAIN queue /\ queue'[i] = queue[i + 1]
    BY <1>1, <1>2
  <1>4. delivered' \subseteq Tags \cup {NoTag}
    <2>1. CASE EntriesByWatch(e.wd) = {}
      BY <1>1, <2>1
    <2>2. CASE EntriesByWatch(e.wd) # {}
      <3>1. EntriesByWatch(e.wd) = {i \in DOMAIN items : items[i].wd = e.wd}
        BY DEF EntriesByWatch
      <3>2. PICK i \in DOMAIN items : items[i].wd = e.wd
        BY <2>2, <3>1
      <3>3. CASE e.wd = -1
        <4>1. ~HasAction(e)
          BY <1>1, <1>2, <3>3 DEF IInv, QueueInv, TypeOK, KernelTypeOK
        <4>2. QED
          BY <1>1, <4>1
      <3>4. CASE e.wd # -1
        <4>1. EntriesByWatch(e.wd) = {i}
          BY <3>1, <3>2, <3>4 DEF IInv, SlotsAreSound
        <4>2. FirstEntry(e.wd) = i
          BY <3>2, <4>1 DEF FirstEntry, IInv, TypeOK
        <4>3. items[i] \in WatchItem
          BY <3>2 DEF IInv, TypeOK
        <4>4. items[i].tag \in Tags \cup {NoTag}
          BY <4>3 DEF WatchItem
        <4>5. QED
          BY <1>1, <4>2, <4>4
      <3>5. QED
        BY <3>3, <3>4
    <2>3. QED
      BY <2>1, <2>2
  <1> HIDE DEF passed
  <1>5. overflow' \in BOOLEAN
    BY <1>1 DEF IInv, TypeOK
  <1>6. TypeOK'
    BY <1>1, <1>3, <1>4, <1>5 DEF IInv, TypeOK, KernelTypeOK
  <1>7. QueueInv'
    BY <1>1, <1>3 DEF IInv, QueueInv, HasAction
  <1>8. SlotsAreSound'
    BY <1>1 DEF IInv, SlotsAreSound, IsFree
  <1>9. QED
    BY <1>6, <1>7, <1>8 DEF IInv

(* The invariant is inductive.                                              *)
LEMMA IInvStep == IInv /\ [Next]_vars => IInv'
  <1> SUFFICES ASSUME IInv, [Next]_vars PROVE IInv'
    OBVIOUS
  <1>1. CASE Environment
    BY <1>1, IInvEnvironment
  <1>2. ASSUME NEW t \in Tags, AddPath(t) \/ RemovePath(t) PROVE IInv'
    BY <1>2, IInvAddPath, IInvRemovePath
  <1>3. ASSUME NEW s \in Tags, NEW t \in Tags, RenamePath(s, t) PROVE IInv'
    BY <1>3, IInvRenamePath
  <1>4. CASE ClearAll
    BY <1>4, IInvClearAll
  <1>5. CASE Dispatch
    BY <1>5, IInvDispatch
  <1>6. CASE UNCHANGED vars
    BY <1>6 DEF vars, IInv, TypeOK, KernelTypeOK, SlotsAreSound, IsFree, QueueInv, HasAction
  <1>7. QED
    BY <1>1, <1>2, <1>3, <1>4, <1>5, <1>6 DEF Next

(* The invariant holds in every reachable state.                            *)
LEMMA Invariance == Spec => []IInv
  BY IInvInit, IInvStep, PTL DEF Spec

(* The variables keep their types: what is delivered is a tag, never a slot  *)
(* or a descriptor.                                                          *)
THEOREM TypeCorrect == Spec => []TypeOK
  <1>1. IInv => TypeOK
    BY DEF IInv
  <1>2. QED
    BY <1>1, Invariance, PTL

(* The table of watches stays sound: no slot is lost, used twice or tagged   *)
(* for another directory, whatever sequence of additions, removals, renames *)
(* and clearings FofiModel makes.                                            *)
THEOREM SlotsCorrect == Spec => []SlotsAreSound
  <1>1. IInv => SlotsAreSound
    BY DEF IInv
  <1>2. QED
    BY <1>1, Invariance, PTL

-----------------------------------------------------------------------------
(* The table implements the map.                                            *)

(* Reading an event delivers it to the directory that holds its watch.       *)
LEMMA DispatchDelivers ==
    ASSUME IInv, Dispatch
    PROVE  Map!Deliver
  <1> DEFINE e == Head(queue)
  <1>1. /\ UNCHANGED <<watched, lastWd, lost, items, free, slot>>
        /\ queue # <<>> /\ queue' = Tail(queue)
        /\ delivered' = IF HasAction(e) /\ EntriesByWatch(e.wd) # {}
                        THEN {items[FirstEntry(e.wd)].tag} ELSE {}
    BY DEF Dispatch, ReadEvent, sourceVars
  <1>2. /\ \A t \in Tags : slot[t] # 0 =>
              /\ slot[t] \in DOMAIN items
              /\ items[slot[t]].tag = t
              /\ items[slot[t]].wd \in 1..lastWd
        /\ lastWd \in Nat
        /\ \A i \in DOMAIN items : i \in Nat \ {0}
    BY SlotFacts DEF IInv, TypeOK, KernelTypeOK
  <1>3. delivered' = {t \in Tags : e.kind = "change" /\ WatchOf(t) = e.wd}
    <2>1. CASE ~HasAction(e)
      BY <1>1, <2>1 DEF HasAction
    <2>2. CASE HasAction(e)
      <3>1. e.wd \in 1..lastWd
        BY <1>1, <2>2 DEF IInv, QueueInv, TypeOK, KernelTypeOK
      <3>2. e.wd # -1 /\ e.wd # 0
        BY <1>2, <3>1
      <3>3. \A t \in Tags : WatchOf(t) = e.wd <=> slot[t] # 0 /\ items[slot[t]].wd = e.wd
        BY <3>2 DEF WatchOf
      <3>4. EntriesByWatch(e.wd) = {i \in DOMAIN items : items[i].wd = e.wd}
        BY DEF EntriesByWatch
      <3>5. CASE EntriesByWatch(e.wd) = {}
        BY <1>1, <1>2, <3>3, <3>4, <3>5
      <3>6. CASE EntriesByWatch(e.wd) # {}
        <4>1. PICK i \in DOMAIN items : items[i].wd = e.wd
          BY <3>4, <3>6
        <4>2. EntriesByWatch(e.wd) = {i}
          BY <3>2, <3>4, <4>1 DEF IInv, SlotsAreSound
        <4>3. FirstEntry(e.wd) = i
          BY <1>2, <4>1, <4>2 DEF FirstEntry
        <4>4. ~IsFree(i)
          BY <3>2, <4>1 DEF IInv, SlotsAreSound, IsFree, FreeItem
        <4>5. PICK t \in Tags : slot[t] = i
          BY <4>4 DEF IInv, SlotsAreSound
        <4>6. items[i].tag = t /\ slot[t] # 0
          BY <1>2, <4>1, <4>5
        <4>7. delivered' = {t}
          BY <1>1, <2>2, <3>6, <4>3, <4>6
        <4>8. \A u \in Tags : WatchOf(u) = e.wd <=> u = t
          BY <1>2, <3>3, <4>1, <4>2, <4>5, <4>6, <3>4
        <4>9. e.kind = "change"
          BY <2>2 DEF HasAction
        <4>10. QED
          BY <4>7, <4>8, <4>9
      <3>7. QED
        BY <3>5, <3>6
    <2>3. QED
      BY <2>1, <2>2
  <1>4. [t \in Tags |-> WatchOf(t)]' = [t \in Tags |-> WatchOf(t)]
    BY <1>1 DEF WatchOf
  <1>5. QED
    BY <1>1, <1>3, <1>4 DEF Map!Deliver, Map!ReadEvent

\* The map of the table: the descriptor of each directory.
WatchOfAll == [t \in Tags |-> WatchOf(t)]

(* Initially no directory has a watch.                                      *)
LEMMA InitMaps == Init => Map!Init
  <1> SUFFICES ASSUME Init PROVE Map!Init
    OBVIOUS
  <1>1. slot = [t \in Tags |-> 0] /\ delivered = {} /\ KernelInit
    BY DEF Init
  <1>2. [t \in Tags |-> WatchOf(t)] = [t \in Tags |-> 0]
    BY <1>1 DEF WatchOf
  <1>3. QED
    BY <1>1, <1>2 DEF Map!Init, Map!KernelInit, KernelInit

(* What happens in the kernel is what happens in the kernel of the map.     *)
LEMMA EnvironmentMaps == Environment => Map!Environment
  <1> SUFFICES ASSUME Environment PROVE Map!Environment
    OBVIOUS
  <1>1. WatchOfAll' = WatchOfAll
    BY DEF Environment, sourceVars, WatchOfAll, WatchOf
  <1>2. QED
    BY <1>1 DEF WatchOfAll, Environment, Map!Environment, DirectoryChanges, DirectoryGone,
                Post, OverflowEvent, Map!DirectoryChanges, Map!DirectoryGone, Map!Post,
                Map!OverflowEvent

(* addPath() gives the directory a new watch, and no other one changes.     *)
LEMMA AddPathMaps ==
    ASSUME IInv, NEW t \in Tags, AddPath(t)
    PROVE  Map!Watch(t)
  <1> DEFINE new == [wd |-> lastWd + 1, tag |-> t]
             top == free[Len(free)]
  <1>1. /\ slot[t] = 0 /\ NewWatch /\ delivered' = delivered
        /\ lastWd \in Nat /\ items \in Seq(WatchItem) /\ free \in Seq(Nat)
        /\ slot \in [Tags -> Nat]
    BY DEF AddPath, IInv, TypeOK, KernelTypeOK
  <1>2. /\ \A u \in Tags : slot[u] # 0 => slot[u] \in DOMAIN items /\ ~IsFree(slot[u])
    BY SlotFacts DEF IInv
  <1>3. WatchOf(t) = 0
    BY <1>1 DEF WatchOf
  <1>4. WatchOf(t)' = lastWd + 1 /\ \A u \in Tags \ {t} : WatchOf(u)' = WatchOf(u)
    <2>1. CASE /\ free = <<>>
               /\ items' = Append(items, new)
               /\ slot' = [slot EXCEPT ![t] = Len(items) + 1]
      <3>1. PICK k \in Nat : k = Len(items)
        BY <1>1
      <3>2. /\ DOMAIN items = 1..k /\ items'[k + 1] = new
            /\ \A i \in 1..k : items'[i] = items[i]
        BY <1>1, <2>1, <3>1
      <3>3. slot'[t] = k + 1 /\ \A u \in Tags \ {t} : slot'[u] = slot[u]
        BY <1>1, <2>1, <3>1
      <3>4. WatchOf(t)' = lastWd + 1
        BY <3>1, <3>2, <3>3 DEF WatchOf
      <3>5. \A u \in Tags \ {t} : WatchOf(u)' = WatchOf(u)
        BY <1>2, <3>2, <3>3 DEF WatchOf
      <3>6. QED
        BY <3>4, <3>5
    <2>2. CASE /\ free # <<>>
               /\ items' = [items EXCEPT ![top] = new]
               /\ slot' = [slot EXCEPT ![t] = top]
      <3>1. PICK k \in Nat : k = Len(free) /\ k > 0
        BY <1>1, <2>2
      <3>2. k \in DOMAIN free /\ top = free[k] /\ top \in Nat
        BY <1>1, <3>1
      <3>3. top \in DOMAIN items /\ IsFree(top)
        BY <3>2 DEF IInv, SlotsAreSound, IsFree
      <3>4. top # 0
        BY <1>1, <3>3
      <3>5. items'[top] = new /\ \A i \in DOMAIN items \ {top} : items'[i] = items[i]
        BY <1>1, <2>2, <3>3
      <3>6. slot'[t] = top /\ \A u \in Tags \ {t} : slot'[u] = slot[u]
        BY <1>1, <2>2
      <3>7. \A u \in Tags : slot[u] # 0 => slot[u] # top
        BY <1>2, <3>3
      <3> HIDE DEF top
      <3>8. WatchOf(t)' = lastWd + 1
        BY <3>4, <3>5, <3>6 DEF WatchOf
      <3>9. \A u \in Tags \ {t} : WatchOf(u)' = WatchOf(u)
        BY <1>2, <3>5, <3>6, <3>7 DEF WatchOf
      <3>10. QED
        BY <3>8, <3>9
    <2>3. QED
      BY <2>1, <2>2 DEF AddPath
  <1>5. WatchOfAll' = [WatchOfAll EXCEPT ![t] = lastWd + 1]
    BY <1>4 DEF WatchOfAll
  <1>6. WatchOfAll[t] = 0
    BY <1>3 DEF WatchOfAll
  <1>7. QED
    BY <1>1, <1>5, <1>6 DEF WatchOfAll, Map!Watch, Map!NewWatch, NewWatch

(* removePath() takes the directory's watch away, and no other one.         *)
LEMMA RemovePathMaps ==
    ASSUME IInv, NEW t \in Tags, RemovePath(t)
    PROVE  Map!Remove(t)
  <1>1. /\ slot[t] # 0 /\ Unwatch({items[slot[t]].wd}) /\ delivered' = delivered
        /\ items' = [items EXCEPT ![slot[t]] = FreeItem]
        /\ slot' = [slot EXCEPT ![t] = 0]
        /\ slot \in [Tags -> Nat] /\ items \in Seq(WatchItem) /\ lastWd \in Nat
    BY DEF RemovePath, IInv, TypeOK, KernelTypeOK
  <1>2. /\ \A u \in Tags : slot[u] # 0 =>
              slot[u] \in DOMAIN items /\ items[slot[u]].wd \in 1..lastWd
        /\ \A u, v \in Tags : slot[u] = slot[v] => u = v \/ slot[u] = 0
    BY SlotFacts DEF IInv
  <1>3. WatchOf(t) = items[slot[t]].wd /\ WatchOf(t) # 0
    BY <1>1, <1>2 DEF WatchOf
  <1>4. \A i \in DOMAIN items \ {slot[t]} : items'[i] = items[i]
    BY <1>1
  <1>5. slot'[t] = 0 /\ \A u \in Tags \ {t} : slot'[u] = slot[u]
    BY <1>1
  <1>6. WatchOf(t)' = 0
    BY <1>5 DEF WatchOf
  <1>7. \A u \in Tags \ {t} : WatchOf(u)' = WatchOf(u)
    BY <1>1, <1>2, <1>4, <1>5 DEF WatchOf
  <1>8. WatchOfAll' = [WatchOfAll EXCEPT ![t] = 0]
    BY <1>6, <1>7 DEF WatchOfAll
  <1>9. WatchOfAll[t] = items[slot[t]].wd /\ WatchOfAll[t] # 0
    BY <1>3 DEF WatchOfAll
  <1>10. QED
    BY <1>1, <1>8, <1>9 DEF WatchOfAll, Map!Remove, Map!Unwatch, Unwatch

(* renamePath() hands the watch over.                                       *)
LEMMA RenamePathMaps ==
    ASSUME IInv, NEW s \in Tags, NEW t \in Tags, RenamePath(s, t)
    PROVE  Map!HandOver(s, t)
  <1>1. /\ slot[s] # 0 /\ slot[t] = 0 /\ s # t /\ delivered' = delivered
        /\ items' = [items EXCEPT ![slot[s]].tag = t]
        /\ slot' = [slot EXCEPT ![s] = 0, ![t] = slot[s]]
        /\ slot \in [Tags -> Nat] /\ items \in Seq(WatchItem) /\ lastWd \in Nat
        /\ UNCHANGED kernelVars
    BY DEF RenamePath, IInv, TypeOK, KernelTypeOK
  <1>2. /\ \A u \in Tags : slot[u] # 0 =>
              slot[u] \in DOMAIN items /\ items[slot[u]].wd \in 1..lastWd
        /\ \A i \in DOMAIN items : items[i] \in WatchItem
    BY SlotFacts DEF IInv
  <1>3. \A i \in DOMAIN items : items'[i].wd = items[i].wd
    BY <1>1, <1>2 DEF WatchItem
  <1>4. /\ slot'[s] = 0 /\ slot'[t] = slot[s]
        /\ \A u \in Tags \ {s, t} : slot'[u] = slot[u]
    BY <1>1
  <1>5. WatchOf(s) # 0 /\ WatchOf(t) = 0
    BY <1>1, <1>2 DEF WatchOf
  <1>6. WatchOf(s)' = 0 /\ WatchOf(t)' = WatchOf(s)
    BY <1>1, <1>2, <1>3, <1>4 DEF WatchOf
  <1>7. \A u \in Tags \ {s, t} : WatchOf(u)' = WatchOf(u)
    BY <1>2, <1>3, <1>4 DEF WatchOf
  <1>8. WatchOfAll' = [WatchOfAll EXCEPT ![s] = 0, ![t] = WatchOfAll[s]]
    BY <1>1, <1>6, <1>7 DEF WatchOfAll
  <1>9. WatchOfAll[s] # 0 /\ WatchOfAll[t] = 0
    BY <1>5 DEF WatchOfAll
  <1>10. QED
    BY <1>1, <1>8, <1>9 DEF WatchOfAll, Map!HandOver, Map!kernelVars, kernelVars

(* clearAll() removes the watches of all directories.  The table holds a     *)
(* descriptor for each of them, and -1 or 0 for what has no watch.          *)
LEMMA ClearAllMaps ==
    ASSUME IInv, ClearAll
    PROVE  Map!RemoveAll
  <1>1. /\ Unwatch({items[i].wd : i \in DOMAIN items}) /\ delivered' = delivered
        /\ slot' = [t \in Tags |-> 0]
        /\ watched \subseteq 1..lastWd /\ lastWd \in Nat
    BY DEF ClearAll, IInv, TypeOK, KernelTypeOK
  <1>2. /\ \A u \in Tags : slot[u] # 0 =>
              slot[u] \in DOMAIN items /\ items[slot[u]].wd \in 1..lastWd
        /\ \A i \in DOMAIN items : i # 0
    BY SlotFacts DEF IInv
  <1>3. WatchOfAll' = [t \in Tags |-> 0]
    BY <1>1 DEF WatchOfAll, WatchOf
  <1>4. ASSUME NEW d \in watched
        PROVE  (\E i \in DOMAIN items : items[i].wd = d) <=> (\E t \in Tags : WatchOfAll[t] = d)
    <2>1. d \in 1..lastWd /\ d # 0 /\ d # -1
      BY <1>1
    <2>2. ASSUME NEW t \in Tags, WatchOfAll[t] = d PROVE \E i \in DOMAIN items : items[i].wd = d
      BY <1>2, <2>1, <2>2 DEF WatchOfAll, WatchOf
    <2>3. ASSUME NEW i \in DOMAIN items, items[i].wd = d PROVE \E t \in Tags : WatchOfAll[t] = d
      <3>1. ~IsFree(i)
        BY <2>1, <2>3 DEF IInv, SlotsAreSound, IsFree, FreeItem
      <3>2. PICK t \in Tags : slot[t] = i
        BY <3>1 DEF IInv, SlotsAreSound
      <3>3. QED
        BY <1>2, <2>3, <3>2 DEF WatchOfAll, WatchOf
    <2>4. QED
      BY <2>2, <2>3
  <1>5. watched \ {items[i].wd : i \in DOMAIN items} = watched \ {WatchOfAll[t] : t \in Tags}
    BY <1>4
  <1>6. Map!Unwatch({WatchOfAll[t] : t \in Tags})
    BY <1>1, <1>5 DEF Map!Unwatch, Unwatch
  <1>7. QED
    BY <1>1, <1>3, <1>6 DEF WatchOfAll, Map!RemoveAll

(* Every step of the table is a step of the map, or leaves it alone.        *)
LEMMA StepMaps == IInv /\ [Next]_vars => [Map!Next]_(Map!vars)
  <1> SUFFICES ASSUME IInv, [Next]_vars PROVE [Map!Next]_(Map!vars)
    OBVIOUS
  <1>1. CASE Environment
    BY <1>1, EnvironmentMaps DEF Map!Next
  <1>2. ASSUME NEW t \in Tags, AddPath(t) \/ RemovePath(t) PROVE Map!Next
    BY <1>2, AddPathMaps, RemovePathMaps DEF Map!Next
  <1>3. ASSUME NEW s \in Tags, NEW t \in Tags, RenamePath(s, t) PROVE Map!Next
    BY <1>3, RenamePathMaps DEF Map!Next
  <1>4. CASE ClearAll
    BY <1>4, ClearAllMaps DEF Map!Next
  <1>5. CASE Dispatch
    BY <1>5, DispatchDelivers DEF Map!Next
  <1>6. CASE UNCHANGED vars
    <2>1. WatchOfAll' = WatchOfAll
      BY <1>6 DEF vars, WatchOfAll, WatchOf
    <2>2. QED
      BY <1>6, <2>1 DEF vars, WatchOfAll, Map!vars
  <1>7. QED
    BY <1>1, <1>2, <1>3, <1>4, <1>5, <1>6 DEF Next

(* The table of watches implements the map: an event is delivered to the     *)
(* directory that holds its watch when it is dispatched, or to none, through *)
(* every reuse of a slot.                                                   *)
THEOREM Implements == Spec => ImplementsMap
  <1>1. Init => Map!Init
    BY InitMaps
  <1>2. IInv /\ [Next]_vars => [Map!Next]_(Map!vars)
    BY StepMaps
  <1>3. QED
    BY <1>1, <1>2, Invariance, PTL DEF Spec, ImplementsMap, Map!Spec

=============================================================================
