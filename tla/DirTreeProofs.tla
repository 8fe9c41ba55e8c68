------------------------------ MODULE DirTreeProofs ------------------------------
(***************************************************************************)
(* Proofs about DirTree, for any tree of directories and files.              *)
(***************************************************************************)
EXTENDS DirTree, ResultLifeProofs

(* A tuple of one in front of a sequence is its new head.                    *)
LEMMA PushSeq ==
    ASSUME NEW S, NEW s \in Seq(S), NEW f \in S
    PROVE  /\ <<f>> \o s \in Seq(S)
           /\ DOMAIN (<<f>> \o s) = 1..(Len(s) + 1)
           /\ (<<f>> \o s)[1] = f
           /\ \A i \in 1..Len(s) : (<<f>> \o s)[i + 1] = s[i]
  OBVIOUS

(* The calls below the innermost one.                                       *)
LEMMA RestSeq ==
    ASSUME NEW S, NEW s \in Seq(S), s # <<>>
    PROVE  /\ Head(s) \in S /\ Head(s) = s[1] /\ 1 \in DOMAIN s
           /\ Tail(s) \in Seq(S)
           /\ DOMAIN Tail(s) = 1..Len(Tail(s))
           /\ \A i \in 1..Len(Tail(s)) : i + 1 \in DOMAIN s /\ Tail(s)[i] = s[i + 1]
  OBVIOUS

(* The kernel's queue after a change.                                       *)
LEMMA NotifyType ==
    ASSUME TypeOK, NEW n \in Nodes, NEW act \in Action, Notify(n, act)
    PROVE  queue' \in Seq(Event) /\ lost' \in BOOLEAN
  <1> DEFINE e == [wd |-> kernelWd[Parent[n]], name |-> n, act |-> act]
             merged == Len(queue) > 0 /\ queue[Len(queue)] = e
             full == Len(queue) >= MaxQueue
             unseen == kernelWd[Parent[n]] = 0
  <1>1. e \in Event
    BY ParentAssumption DEF Event, TypeOK, AllDirs
  <1>2. /\ queue' = IF unseen \/ merged \/ full THEN queue ELSE Append(queue, e)
        /\ lost' = (lost \/ (~unseen /\ ~merged /\ full))
    BY DEF Notify
  <1> HIDE DEF e, merged, full, unseen
  <1>3. queue' = queue \/ queue' = Append(queue, e)
    BY <1>2
  <1>6. queue \in Seq(Event)
    BY DEF TypeOK
  <1>4. queue' \in Seq(Event)
    BY <1>1, <1>3, <1>6
  <1>5. QED
    BY <1>2, <1>4

(* What the others do.                                                      *)
LEMMA EnvironmentShape ==
    ASSUME TypeOK, Environment
    PROVE  /\ disk' \in [Nodes -> BOOLEAN]
           /\ queue' \in Seq(Event) /\ lost' \in BOOLEAN
           /\ makes' \in Nat /\ hasty' \in BOOLEAN
           /\ kernelWd' = kernelWd \/ \E d \in Dirs : kernelWd' = [kernelWd EXCEPT ![d] = 0]
           /\ UNCHANGED <<lastWd, phase, stack, atStart, toWatch, wd, existing, results,
                          hasInconsistencies, shown>>
  <1>1. ASSUME NEW n \in Nodes, NEW act \in Action, Change(n, act)
        PROVE  /\ queue' \in Seq(Event) /\ lost' \in BOOLEAN
               /\ UNCHANGED <<lastWd, phase, stack, atStart, toWatch, wd, existing, results,
                              hasInconsistencies, shown>>
    BY <1>1, NotifyType DEF Change, tree, model
  <1>2. ASSUME NEW d \in Dirs, MakeDir(d) \/ RemoveDir(d) \/ ChangeMode(d)
        PROVE  /\ \E act \in Action : Change(d, act)
               /\ disk' \in [Nodes -> BOOLEAN] /\ makes' \in Nat /\ hasty' \in BOOLEAN
               /\ kernelWd' = kernelWd \/ kernelWd' = [kernelWd EXCEPT ![d] = 0]
    <2>1. CASE MakeDir(d)
      <3>1. /\ disk' = [disk EXCEPT ![d] = TRUE] /\ makes' = makes + 1
            /\ hasty' = (hasty \/ Queued(d))
            /\ Change(d, "create") /\ kernelWd' = kernelWd
        BY <2>1 DEF MakeDir
      <3>2. hasty' \in BOOLEAN
        BY <3>1
      <3>3. disk' \in [Nodes -> BOOLEAN] /\ makes' \in Nat
        <4>1. disk' = [disk EXCEPT ![d] = TRUE] /\ makes' = makes + 1
          BY <3>1
        <4>2. disk \in [Nodes -> BOOLEAN] /\ makes \in Nat
          BY DEF TypeOK
        <4>3. disk' \in [Nodes -> BOOLEAN]
          BY <4>1, <4>2
        <4>4. makes' \in Nat
          BY <4>1, <4>2
        <4>5. QED
          BY <4>3, <4>4
      <3>4. \E act \in Action : Change(d, act)
        BY <3>1 DEF Action
      <3>5. QED
        BY <3>1, <3>2, <3>3, <3>4
    <2>2. CASE RemoveDir(d)
      BY <2>2 DEF RemoveDir, Action, TypeOK
    <2>3. CASE ChangeMode(d)
      BY <2>3 DEF ChangeMode, Action, TypeOK
    <2>4. QED
      BY <1>2, <2>1, <2>2, <2>3
  <1>3. ASSUME NEW f \in Files, CreateFile(f) \/ DeleteFile(f)
        PROVE  /\ \E act \in Action : Change(f, act)
               /\ disk' \in [Nodes -> BOOLEAN] /\ UNCHANGED <<kernelWd, makes, hasty>>
    BY <1>3 DEF CreateFile, DeleteFile, Action, TypeOK
  <1>4. CASE \E d \in Dirs : MakeDir(d) \/ RemoveDir(d) \/ ChangeMode(d)
    <2>1. PICK d \in Dirs : MakeDir(d) \/ RemoveDir(d) \/ ChangeMode(d)
      BY <1>4
    <2>2. d \in Nodes
      BY DEF Nodes
    <2>3. QED
      BY <1>1, <1>2, <2>1, <2>2
  <1>5. CASE \E f \in Files : CreateFile(f) \/ DeleteFile(f)
    <2>1. PICK f \in Files : CreateFile(f) \/ DeleteFile(f)
      BY <1>5
    <2>2. f \in Nodes
      BY DEF Nodes
    <2>3. makes \in Nat /\ hasty \in BOOLEAN
      BY DEF TypeOK
    <2>4. QED
      BY <1>1, <1>3, <2>1, <2>2, <2>3
  <1>6. QED
    BY <1>4, <1>5 DEF Environment

-----------------------------------------------------------------------------
(* Results.                                                                 *)

(* A name's key is a key.                                                   *)
LEMMA KeyOfKey == \A n \in Nodes : KeyOf(n) \in Keys
  <1> SUFFICES ASSUME NEW n \in Nodes PROVE KeyOf(n) \in Keys
    OBVIOUS
  <1>1. CASE n \in Dirs
    <2>1. (n \in Dirs) = TRUE
      BY <1>1
    <2>3. KeyOf(n) = <<n, TRUE>>
      BY <2>1, Zenon DEF KeyOf
    <2>2. QED
      BY <1>1, <2>3 DEF Keys
  <1>2. CASE n \notin Dirs
    <2>1. (n \in Dirs) = FALSE
      BY <1>2
    <2>3. KeyOf(n) = <<n, FALSE>>
      BY <2>1, Zenon DEF KeyOf
    <2>2. QED
      BY <2>3 DEF Keys
  <1>3. QED
    BY <1>1, <1>2

(* What Record() leaves when it is given a result.                          *)
LEMMA RecordType ==
    ASSUME TypeOK, NEW k \in Keys, NEW r, NEW new \in WatchedResult, NEW emits, Record(k, r, new, emits)
    PROVE  /\ results' = [results EXCEPT ![k] = new]
           /\ results' \in [Keys -> WatchedResult]
           /\ existing' \subseteq Nodes
           /\ hasInconsistencies' \in BOOLEAN
           /\ shown' \in [Keys -> ResultType]
  BY DEF Record, TypeOK, WatchedResult

(* A directory that is back is modified, whatever else it was.               *)
LEMMA ReconsiderResult ==
    ASSUME NEW n, NEW r, NEW new \in WatchedResult, Exists(new)
    PROVE  Reconsider(n, r, new) \in WatchedResult /\ Exists(Reconsider(n, r, new))
  BY DEF Reconsider, WatchedResult, ResultType, Exists

-----------------------------------------------------------------------------
(* The calls under way.                                                     *)

(* Calls keep their places when the innermost one gives way to another.      *)
LEMMA Frames ==
    ASSUME TypeOK, stack # <<>>
    PROVE  /\ Top \in Frame /\ 1 \in DOMAIN stack /\ Top = stack[1]
           /\ Rest \in Seq(Frame)
           /\ \A i \in DOMAIN Rest : i + 1 \in DOMAIN stack /\ Rest[i] = stack[i + 1]
           /\ DOMAIN Rest \subseteq Nat \ {0}
           /\ DOMAIN stack \subseteq Nat \ {0}
  <1>1. stack \in Seq(Frame)
    BY DEF TypeOK
  <1>2. QED
    BY <1>1, RestSeq DEF Top, Rest

(* Every call is a call for a directory.                                      *)
LEMMA FrameDir ==
    ASSUME TypeOK, NEW i \in DOMAIN stack
    PROVE  stack[i] \in Frame /\ stack[i].dir \in AllDirs
  <1>1. stack \in Seq(Frame)
    BY DEF TypeOK
  <1>2. stack[i] \in Frame
    BY <1>1
  <1>3. QED
    BY <1>2 DEF Frame

(* Another call in the place of the innermost one.                            *)
LEMMA Replaced ==
    ASSUME TypeOK, stack # <<>>, NEW f \in Frame
    PROVE  /\ <<f>> \o Rest \in Seq(Frame)
           /\ DOMAIN (<<f>> \o Rest) = DOMAIN stack
           /\ (<<f>> \o Rest)[1] = f
           /\ \A i \in DOMAIN stack : i # 1 => (<<f>> \o Rest)[i] = stack[i]
  <1>1. stack \in Seq(Frame)
    BY DEF TypeOK
  <1>2. QED
    BY <1>1 DEF Rest

(* Another call in its place, and a new one that it makes.                    *)
LEMMA Called ==
    ASSUME TypeOK, stack # <<>>, NEW f \in Frame, NEW g \in Frame
    PROVE  LET s == <<g>> \o (<<f>> \o Rest) IN
           /\ s \in Seq(Frame)
           /\ s[1] = g /\ s[2] = f
           /\ \A i \in DOMAIN s : i \in {1, 2} \/ (i - 1 \in DOMAIN stack /\ i - 1 # 1 /\ s[i] = stack[i - 1])
           /\ DOMAIN s \subseteq Nat
  <1>1. stack \in Seq(Frame)
    BY DEF TypeOK
  <1>2. QED
    BY <1>1 DEF Rest

(* The innermost call goes on to something other than to watch.             *)
LEMMA ReplaceTop ==
    ASSUME WatchInv, stack # <<>>, NEW f \in Frame, stack' = <<f>> \o Rest,
           UNCHANGED <<toWatch, phase, results>>,
           f.dir = Top.dir, f.stage # "watch",
           phase = "setup" => AheadIsNew(f)
    PROVE  /\ stack' \in Seq(Frame)
           /\ \A i \in DOMAIN stack' : stack'[i].stage # "watch"
           /\ StackInv' /\ SetupInv'
  <1>1. /\ stack' \in Seq(Frame)
        /\ DOMAIN stack' = DOMAIN stack
        /\ stack'[1] = f
        /\ \A i \in DOMAIN stack : i # 1 => stack'[i] = stack[i]
    BY Replaced DEF WatchInv
  <1>2. Top = stack[1] /\ 1 \in DOMAIN stack /\ DOMAIN stack \subseteq Nat \ {0}
    BY Frames DEF WatchInv
  <1>3. \A i \in DOMAIN stack : i # 1 => stack[i].stage = "walk"
    BY <1>2 DEF WatchInv, StackInv
  <1>4. \A i \in DOMAIN stack' : stack'[i].stage # "watch"
    BY <1>1, <1>3
  <1>5. StackInv'
    <2>1. \A i \in DOMAIN stack' : i > 1 => stack'[i].stage = "walk"
      <3>1. SUFFICES ASSUME NEW i \in DOMAIN stack', i > 1
                     PROVE  stack'[i].stage = "walk"
        OBVIOUS
      <3>2. i \in DOMAIN stack /\ i # 1
        BY <1>1, <1>2, <3>1
      <3>3. QED
        BY <1>1, <1>3, <3>2
    <2>2. QED
      BY <1>4, <2>1 DEF StackInv
  <1>6. ASSUME phase = "setup" PROVE SetupInv'
    <2>1. /\ \A k \in Keys : results'[k] = NoResult
          /\ \A d \in Dirs : toWatch'[d] # "none" => toWatch'[Parent[d]] # "none"
      BY <1>6 DEF WatchInv, SetupInv
    <2>2. \A i \in DOMAIN stack : stack'[i].dir = stack[i].dir
      BY <1>1, <1>2
    <2>3. \A i, j \in DOMAIN stack' : i # j => stack'[i].dir # stack'[j].dir
      <3>1. SUFFICES ASSUME NEW i \in DOMAIN stack', NEW j \in DOMAIN stack', i # j
                     PROVE  stack'[i].dir # stack'[j].dir
        OBVIOUS
      <3>2. stack[i].dir # stack[j].dir
        BY <1>1, <1>6, <3>1 DEF WatchInv, SetupInv
      <3>3. QED
        BY <1>1, <2>2, <3>2
    <2>4. ASSUME NEW i \in DOMAIN stack'
          PROVE toWatch'[stack'[i].dir] # "none" /\ AheadIsNew(stack[i])'
      <3>1. toWatch'[stack'[i].dir] # "none"
        BY <1>1, <1>6, <2>2 DEF WatchInv, SetupInv
      <3>2. AheadIsNew(stack'[i])
        BY <1>1, <1>6 DEF WatchInv, SetupInv
      <3>3. QED
        BY <3>1, <3>2 DEF AheadIsNew
    <2>5. QED
      BY <2>1, <2>3, <2>4 DEF SetupInv
  <1>7. QED
    BY <1>1, <1>4, <1>5, <1>6 DEF SetupInv

(* The innermost call returns.                                              *)
LEMMA PopTop ==
    ASSUME WatchInv, stack # <<>>, stack' = Rest, UNCHANGED <<toWatch, phase, results>>
    PROVE  /\ stack' \in Seq(Frame)
           /\ \A i \in DOMAIN stack' : stack'[i].stage # "watch"
           /\ StackInv' /\ SetupInv'
  <1>1. /\ stack' \in Seq(Frame)
        /\ \A i \in DOMAIN stack' : i + 1 \in DOMAIN stack /\ stack'[i] = stack[i + 1]
        /\ DOMAIN stack' \subseteq Nat \ {0}
    BY Frames DEF WatchInv
  <1>2. \A i \in DOMAIN stack' : stack'[i].stage = "walk"
    BY <1>1 DEF WatchInv, StackInv
  <1>3. StackInv'
    BY <1>2 DEF StackInv
  <1>4. ASSUME phase = "setup" PROVE SetupInv'
    <2>1. /\ \A k \in Keys : results'[k] = NoResult
          /\ \A d \in Dirs : toWatch'[d] # "none" => toWatch'[Parent[d]] # "none"
      BY <1>4 DEF WatchInv, SetupInv
    <2>2. \A i, j \in DOMAIN stack' : i # j => stack'[i].dir # stack'[j].dir
      <3>1. SUFFICES ASSUME NEW i \in DOMAIN stack', NEW j \in DOMAIN stack', i # j
                     PROVE  stack'[i].dir # stack'[j].dir
        OBVIOUS
      <3>2. i + 1 # j + 1
        BY <1>1, <3>1
      <3>3. QED
        BY <1>1, <1>4, <3>1, <3>2 DEF WatchInv, SetupInv
    <2>3. ASSUME NEW i \in DOMAIN stack'
          PROVE toWatch'[stack'[i].dir] # "none" /\ AheadIsNew(stack[i])'
      <3>1. toWatch[stack'[i].dir] # "none" /\ AheadIsNew(stack'[i])
        BY <1>1, <1>4 DEF WatchInv, SetupInv
      <3>2. QED
        BY <3>1 DEF AheadIsNew
    <2>4. QED
      BY <2>1, <2>2, <2>3 DEF SetupInv
  <1>5. QED
    BY <1>1, <1>2, <1>3, <1>4 DEF SetupInv

-----------------------------------------------------------------------------
(* The steps.                                                               *)

(* start() has one watch and one call to begin with.                          *)
LEMMA InitWatch == Init => WatchInv
  <1> SUFFICES ASSUME Init PROVE WatchInv
    OBVIOUS
  <1> USE DEF Init
  <1>1. TypeOK
    <2>1. Call(Base, "list") \in Frame
      BY DEF Call, Frame, AllDirs
    <2>2. stack \in Seq(Frame)
      BY <2>1
    <2>3. results \in [Keys -> WatchedResult] /\ shown \in [Keys -> ResultType]
      BY NoResultType DEF ResultType
    <2>4. queue \in Seq(Event)
      OBVIOUS
    <2>5. atStart \in [Nodes -> BOOLEAN]
      OBVIOUS
    <2>6. QED
      BY <2>2, <2>3, <2>4, <2>5 DEF TypeOK
  <1>2. AssertionsHold
    <2>1. \A d \in Dirs : results[KeyOf(d)] = NoResult
      BY KeyOfKey DEF Nodes
    <2>2. \A i \in DOMAIN stack : stack[i].stage = "list"
      BY DEF Call
    <2>3. /\ \A d \in AllDirs : kernelWd[d] = wd[d]
          /\ \A d \in AllDirs : wd[d] # 0 => toWatch[d] = "exists"
      BY DEF AllDirs
    <2>4. QED
      BY <2>1, <2>2, <2>3 DEF AssertionsHold
  <1>3. StackInv
    BY DEF StackInv, Call
  <1>4. SetupInv
    BY KindsAssumption DEF SetupInv, AheadIsNew, Call, Nodes, AllDirs
  <1>5. QED
    BY <1>1, <1>2, <1>3, <1>4 DEF WatchInv

(* A call that watches nothing and whose directories are new leaves all as    *)
(* it was.                                                                  *)
LEMMA CallStep ==
    ASSUME WatchInv, stack # <<>>,
           \/ stack' = Rest
           \/ \E f \in Frame : /\ stack' = <<f>> \o Rest /\ f.dir = Top.dir /\ f.stage # "watch"
                               /\ phase = "setup" => AheadIsNew(f),
           existing' \subseteq Nodes,
           UNCHANGED <<phase, results, hasInconsistencies, shown, atStart>>,
           UNCHANGED files, UNCHANGED inotify, UNCHANGED tree
    PROVE  WatchInv'
  <1> USE DEF tree, inotify, files
  <1>1. /\ stack' \in Seq(Frame)
        /\ \A i \in DOMAIN stack' : stack'[i].stage # "watch"
        /\ StackInv' /\ SetupInv'
    BY ReplaceTop, PopTop
  <1>2. TypeOK'
    BY <1>1 DEF WatchInv, TypeOK
  <1>3. AssertionsHold'
    BY <1>1 DEF WatchInv, AssertionsHold
  <1>4. QED
    BY <1>1, <1>2, <1>3 DEF WatchInv

(* addExistingContent() is over.                                            *)
LEMMA AfterListingStack ==
    ASSUME WatchInv, stack # <<>>, Top.stage # "walk"
    PROVE  \/ AfterListing(Top.dir) = Rest
           \/ \E f \in Frame : /\ AfterListing(Top.dir) = <<f>> \o Rest
                               /\ f.dir = Top.dir /\ f.stage # "watch"
                               /\ phase = "setup" => AheadIsNew(f)
  <1>1. Top \in Frame /\ 1 \in DOMAIN stack /\ Top = stack[1] /\ Top.dir \in AllDirs
    BY Frames DEF WatchInv, Frame
  <1>2. phase = "setup" => AheadIsNew(Top)
    BY <1>1 DEF WatchInv, SetupInv
  <1>3. Call(Top.dir, "open") \in Frame
    BY <1>1 DEF Call, Frame
  <1>4. phase = "setup" => AheadIsNew(Call(Top.dir, "open"))
    BY <1>2 DEF AheadIsNew, Call
  <1>5. QED
    BY <1>3, <1>4 DEF AfterListing, Call

(* createINotifyWatch() comes to a directory without a watch.                 *)
LEMMA AddWatchStep == WatchInv /\ AddWatch => WatchInv'
  <1> SUFFICES ASSUME WatchInv, AddWatch PROVE WatchInv'
    OBVIOUS
  <1>1. /\ stack # <<>> /\ Top.stage = "watch"
        /\ UNCHANGED <<queue, lost, toWatch, phase>> /\ UNCHANGED files /\ UNCHANGED model
    BY DEF AddWatch
  <1>2. Top \in Frame /\ Top.dir \in AllDirs /\ 1 \in DOMAIN stack /\ Top = stack[1]
    BY <1>1, Frames DEF WatchInv, Frame
  <1> DEFINE d == Top.dir
  <1>3. toWatch[d] = "exists" /\ kernelWd[d] = 0 /\ wd[d] = 0
    BY <1>1, <1>2 DEF WatchInv, StackInv, AssertionsHold
  <1>4. ASSUME phase = "setup", NEW st PROVE AheadIsNew(Call(d, "list"))
    <2>1. AheadIsNew(Top)
      BY <1>2, <1>4 DEF WatchInv, SetupInv
    <2>2. QED
      BY <1>1, <2>1 DEF AheadIsNew, Call
  <1>5. /\ stack' \in Seq(Frame)
        /\ \A i \in DOMAIN stack' : stack'[i].stage # "watch"
        /\ StackInv' /\ SetupInv'
    <2>1. CASE disk[d]
      <3> DEFINE f == Call(d, IF phase = "setup" THEN "list" ELSE "open")
      <3>1. stack' = <<f>> \o Rest
        BY <2>1 DEF AddWatch
      <3>2. f \in Frame /\ f.dir = d /\ f.stage # "watch"
        BY <1>2 DEF Call, Frame
      <3>3. phase = "setup" => AheadIsNew(f)
        BY <1>4
      <3>4. QED
        BY <1>1, <3>1, <3>2, <3>3, ReplaceTop DEF model
    <2>2. CASE ~disk[d]
      <3>1. stack' = Rest
        BY <2>2 DEF AddWatch
      <3>2. QED
        BY <1>1, <3>1, PopTop DEF model
    <2>3. QED
      BY <2>1, <2>2
  <1>6. \/ /\ lastWd' = lastWd + 1
           /\ kernelWd' = [kernelWd EXCEPT ![d] = lastWd + 1]
           /\ wd' = [wd EXCEPT ![d] = lastWd + 1]
        \/ UNCHANGED <<lastWd, kernelWd, wd>>
    BY DEF AddWatch
  <1>7. TypeOK'
    <2>1. atStart' \in [Nodes -> BOOLEAN]
      <3>1. disk \in [Nodes -> BOOLEAN] /\ atStart \in [Nodes -> BOOLEAN]
        BY DEF WatchInv, TypeOK
      <3>2. atStart' = [n \in Nodes |-> IF Parent[n] = Top.dir THEN disk[n] ELSE atStart[n]]
            \/ atStart' = atStart
        BY DEF AddWatch
      <3>3. QED
        BY <3>1, <3>2
    <2>2. lastWd \in Nat /\ kernelWd \in [AllDirs -> Nat] /\ wd \in [AllDirs -> Nat]
      BY DEF WatchInv, TypeOK
    <2>3. lastWd' \in Nat /\ kernelWd' \in [AllDirs -> Nat] /\ wd' \in [AllDirs -> Nat]
      BY <1>6, <2>2
    <2>4. QED
      BY <1>1, <1>5, <2>1, <2>3 DEF WatchInv, TypeOK, files, model
  <1>8. AssertionsHold'
    <2>1. kernelWd \in [AllDirs -> Nat] /\ wd \in [AllDirs -> Nat]
      BY DEF WatchInv, TypeOK
    <2>2. \A c \in AllDirs : kernelWd[c] # 0 => kernelWd[c] = wd[c]
      BY DEF WatchInv, AssertionsHold
    <2>3. \A c \in AllDirs : wd[c] # 0 => toWatch[c] = "exists"
      BY DEF WatchInv, AssertionsHold
    <2>4. \A c \in AllDirs : kernelWd'[c] # 0 => kernelWd'[c] = wd'[c]
      BY <1>2, <1>6, <2>1, <2>2
    <2>5. \A c \in AllDirs : wd'[c] # 0 => toWatch'[c] = "exists"
      BY <1>1, <1>2, <1>3, <1>6, <2>1, <2>3
    <2>6. QED
      BY <1>1, <1>5, <2>4, <2>5 DEF WatchInv, AssertionsHold, model
  <1>9. QED
    BY <1>5, <1>7, <1>8 DEF WatchInv

(* opendir() and readdir().                                                   *)
LEMMA OpenDirectoryStep == WatchInv /\ OpenDirectory => WatchInv'
  <1> SUFFICES ASSUME WatchInv, OpenDirectory PROVE WatchInv'
    OBVIOUS
  <1>1. /\ stack # <<>> /\ Top.stage \in {"list", "open"}
        /\ UNCHANGED <<phase, atStart>> /\ UNCHANGED files /\ UNCHANGED inotify
        /\ UNCHANGED tree /\ UNCHANGED model
    BY DEF OpenDirectory
  <1>2. Top \in Frame /\ 1 \in DOMAIN stack /\ Top = stack[1] /\ Top.dir \in AllDirs
    BY <1>1, Frames DEF WatchInv, Frame
  <1>3. phase = "setup" => AheadIsNew(Top)
    BY <1>2 DEF WatchInv, SetupInv
  <1> DEFINE names == {n \in Children(Top.dir) : disk[n]}
             f == [dir |-> Top.dir, stage |-> IF Top.stage = "list" THEN "remember" ELSE "walk",
                   names |-> names]
  <1>4. /\ names \subseteq Nodes
        /\ \A n \in names : Parent[n] = Top.dir
    BY DEF Children
  <1>5. /\ f \in Frame /\ f.dir = Top.dir /\ f.stage # "watch" /\ f.names = names
        /\ phase = "setup" => AheadIsNew(f)
    <2>1. f \in Frame /\ f.dir = Top.dir /\ f.stage # "watch" /\ f.names = names
      BY <1>2, <1>4 DEF Frame
    <2> HIDE DEF f, names
    <2>2. ASSUME phase = "setup" PROVE AheadIsNew(f)
      BY <1>1, <1>3, <1>4, <2>1, <2>2 DEF AheadIsNew
    <2>3. QED
      BY <2>1, <2>2
  <1>7. stack' = <<f>> \o Rest \/ stack' = AfterListing(Top.dir) \/ stack' = Rest
    BY DEF OpenDirectory
  <1> HIDE DEF f, names
  <1>8. existing' \subseteq Nodes
    BY <1>1 DEF WatchInv, TypeOK, model
  <1>9. QED
    BY <1>1, <1>5, <1>7, <1>8, AfterListingStack, CallStep DEF model

(* addExistingContent() comes to a name.                                      *)
LEMMA RememberStep ==
    ASSUME WatchInv, NEW n \in Nodes, Remember(n)
    PROVE  WatchInv'
  <1>1. /\ stack # <<>> /\ Top.stage = "remember"
        /\ UNCHANGED <<results, hasInconsistencies, shown, phase, atStart>>
        /\ UNCHANGED files /\ UNCHANGED inotify /\ UNCHANGED tree
    BY DEF Remember
  <1>2. Top \in Frame /\ 1 \in DOMAIN stack /\ Top = stack[1] /\ Top.names \subseteq Nodes
    BY <1>1, Frames DEF WatchInv, Frame
  <1> DEFINE f == [Top EXCEPT !.names = @ \ {n}]
  <1>3. f \in Frame /\ f.dir = Top.dir /\ f.stage = "remember"
    BY <1>1, <1>2 DEF Frame
  <1>4. stack' = <<f>> \o Rest
    BY DEF Remember
  <1> HIDE DEF f
  <1>5. phase = "setup" => AheadIsNew(f)
    BY <1>1, <1>2, <1>3 DEF WatchInv, SetupInv, AheadIsNew
  <1>6. existing' \subseteq Nodes
    BY DEF WatchInv, TypeOK, Remember
  <1>7. QED
    BY <1>1, <1>3, <1>4, <1>5, <1>6, CallStep

(* A call that has come to its last name.                                     *)
LEMMA EndNamesStep == WatchInv /\ EndNames => WatchInv'
  <1> SUFFICES ASSUME WatchInv, EndNames PROVE WatchInv'
    OBVIOUS
  <1>1. /\ stack # <<>>
        /\ \/ Top.stage = "remember" /\ stack' = AfterListing(Top.dir)
           \/ stack' = Rest
        /\ UNCHANGED <<phase, atStart>> /\ UNCHANGED files /\ UNCHANGED inotify
        /\ UNCHANGED tree /\ UNCHANGED model
    BY DEF EndNames
  <1>2. existing' \subseteq Nodes
    BY <1>1 DEF WatchInv, TypeOK, model
  <1>3. QED
    BY <1>1, <1>2, AfterListingStack, CallStep DEF model

(* start() returns.                                                           *)
LEMMA EndSetupStep == WatchInv /\ EndSetup => WatchInv'
  <1> USE DEF EndSetup, files, inotify, tree, model, WatchInv
  <1>1. WatchInv /\ EndSetup => TypeOK'
    BY DEF TypeOK
  <1>2. WatchInv /\ EndSetup => AssertionsHold' /\ StackInv' /\ SetupInv'
    BY DEF AssertionsHold, StackInv, SetupInv
  <1>3. QED
    BY <1>1, <1>2

(* The others can only take watches away.                                     *)
LEMMA EnvironmentStep == WatchInv /\ Environment => WatchInv'
  <1> SUFFICES ASSUME WatchInv, Environment PROVE WatchInv'
    OBVIOUS
  <1>1. /\ disk' \in [Nodes -> BOOLEAN]
        /\ queue' \in Seq(Event) /\ lost' \in BOOLEAN
        /\ makes' \in Nat /\ hasty' \in BOOLEAN
        /\ kernelWd' = kernelWd \/ \E d \in Dirs : kernelWd' = [kernelWd EXCEPT ![d] = 0]
        /\ UNCHANGED <<lastWd, phase, stack, atStart, toWatch, wd, existing, results,
                       hasInconsistencies, shown>>
    BY EnvironmentShape DEF WatchInv
  <1>2. kernelWd \in [AllDirs -> Nat]
    BY DEF WatchInv, TypeOK
  <1>3. /\ kernelWd' \in [AllDirs -> Nat]
        /\ \A d \in AllDirs : kernelWd'[d] = kernelWd[d] \/ kernelWd'[d] = 0
    BY <1>1, <1>2
  <1>4. TypeOK'
    BY <1>1, <1>3 DEF WatchInv, TypeOK
  <1>5. AssertionsHold'
    <2>1. \A i \in DOMAIN stack : stack[i].dir \in AllDirs
      BY FrameDir DEF WatchInv
    <2>2. QED
      BY <1>1, <1>3, <2>1 DEF WatchInv, AssertionsHold
  <1>6. StackInv' /\ SetupInv'
    BY <1>1 DEF WatchInv, StackInv, SetupInv, AheadIsNew
  <1>7. QED
    BY <1>4, <1>5, <1>6 DEF WatchInv

(* start() calls itself for a directory it has just found.                   *)
LEMMA SetUpStep ==
    ASSUME WatchInv, NEW n \in Nodes, SetUp(n)
    PROVE  WatchInv'
  <1>1. /\ phase = "setup" /\ stack # <<>> /\ Top.stage = "walk" /\ n \in Top.names
        /\ UNCHANGED <<phase, wd, atStart>> /\ UNCHANGED files /\ UNCHANGED inotify
        /\ UNCHANGED model
    BY DEF SetUp
  <1>2. /\ Top \in Frame /\ 1 \in DOMAIN stack /\ Top = stack[1] /\ Top.names \subseteq Nodes
        /\ Top.dir \in AllDirs
    BY <1>1, Frames DEF WatchInv, Frame
  <1>3. /\ toWatch[Top.dir] # "none"
        /\ \A d \in Dirs : d \in Top.names => Parent[d] = Top.dir /\ toWatch[d] = "none"
    BY <1>1, <1>2 DEF WatchInv, SetupInv, AheadIsNew
  <1> DEFINE f == [Top EXCEPT !.names = @ \ {n}]
  <1>4. /\ f \in Frame /\ f.dir = Top.dir /\ f.stage = "walk" /\ f.names = Top.names \ {n}
        /\ AfterName(n) = <<f>> \o Rest
    BY <1>1, <1>2 DEF Frame, AfterName
  <1> HIDE DEF f
  <1>5. CASE stack' = AfterName(n) /\ UNCHANGED toWatch
    <2>1. AheadIsNew(f)
      BY <1>3, <1>4 DEF AheadIsNew
    <2>2. existing' \subseteq Nodes
      BY <1>1 DEF WatchInv, TypeOK, model
    <2>3. QED
      BY <1>1, <1>4, <1>5, <2>1, <2>2, CallStep DEF model, tree
  <1>6. CASE /\ n \in Dirs /\ toWatch' = [toWatch EXCEPT ![n] = "exists"]
             /\ stack' = <<Call(n, "watch")>> \o AfterName(n)
    <2> DEFINE g == Call(n, "watch")
    <2>1. g \in Frame /\ g.dir = n /\ g.stage = "watch"
      BY <1>6 DEF Call, Frame, AllDirs
    <2> HIDE DEF g
    <2>2. /\ stack' \in Seq(Frame) /\ stack'[1] = g /\ stack'[2] = f
          /\ \A i \in DOMAIN stack' : i \in {1, 2} \/ (i - 1 \in DOMAIN stack /\ i - 1 # 1
                                                        /\ stack'[i] = stack[i - 1])
          /\ DOMAIN stack' \subseteq Nat
      <3>1. stack' = <<g>> \o (<<f>> \o Rest)
        BY <1>4, <1>6 DEF g
      <3>2. QED
        BY <1>1, <1>4, <2>1, <3>1, Called DEF WatchInv
    <2>3. /\ toWatch[n] = "none" /\ Parent[n] = Top.dir
          /\ toWatch \in [AllDirs -> {"none", "exists", "gone"}] /\ n \in AllDirs
      BY <1>1, <1>3, <1>6 DEF WatchInv, TypeOK, AllDirs
    <2>4. kernelWd[n] = 0 /\ wd[n] = 0
      BY <2>3 DEF WatchInv, AssertionsHold
    <2>5. /\ toWatch'[n] = "exists"
          /\ \A d \in AllDirs \ {n} : toWatch'[d] = toWatch[d]
          /\ toWatch' \in [AllDirs -> {"none", "exists", "gone"}]
      BY <1>6, <2>3
    <2>6. TypeOK'
      BY <1>1, <2>2, <2>5 DEF WatchInv, TypeOK, files, inotify, model
    <2>7. \A i \in DOMAIN stack : i # 1 => stack[i].stage = "walk"
      BY <1>1, Frames DEF WatchInv, StackInv
    <2>8. \A i \in DOMAIN stack' : IF i = 1 THEN stack'[i] = g ELSE stack'[i].stage = "walk"
      BY <1>4, <2>2, <2>7
    <2>9. AssertionsHold'
      <3>1. \A i \in DOMAIN stack' :
               stack'[i].stage = "watch" => kernelWd'[stack'[i].dir] = 0 /\ wd'[stack'[i].dir] = 0
        BY <1>1, <2>1, <2>4, <2>8 DEF inotify
      <3>2. /\ \A d \in AllDirs : kernelWd'[d] # 0 => kernelWd'[d] = wd'[d]
            /\ \A d \in AllDirs : wd'[d] # 0 => toWatch'[d] = "exists"
        BY <1>1, <2>5 DEF WatchInv, AssertionsHold, inotify
      <3>3. \A d \in Dirs : results'[KeyOf(d)] = NoResult
        BY <1>1, KeyOfKey DEF WatchInv, SetupInv, Nodes, model
      <3>4. QED
        BY <3>1, <3>2, <3>3 DEF AssertionsHold
    <2>10. StackInv'
      BY <2>1, <2>2, <2>5, <2>8 DEF StackInv
    <2>11. SetupInv'
      <3>1. \A k \in Keys : results'[k] = NoResult
        BY <1>1 DEF WatchInv, SetupInv, model
      <3>2. \A d \in Dirs : toWatch[d] # "none" => toWatch[Parent[d]] # "none"
        BY <1>1 DEF WatchInv, SetupInv
      <3>3. \A d \in Dirs : Parent[d] \in AllDirs
        BY ParentAssumption DEF Nodes, AllDirs
      <3>4. \A d \in Dirs : toWatch'[d] # "none" => toWatch'[Parent[d]] # "none"
        BY <1>2, <1>3, <2>3, <2>5, <3>2, <3>3 DEF AllDirs
      <3>5. \A i \in DOMAIN stack :
               /\ stack[i].dir \in AllDirs /\ toWatch[stack[i].dir] # "none"
               /\ i # 1 => stack[i].dir # Top.dir
        BY <1>1, <1>2, FrameDir DEF WatchInv, SetupInv
      <3>6. \A i, j \in DOMAIN stack' : i # j => stack'[i].dir # stack'[j].dir
        <4>1. SUFFICES ASSUME NEW i \in DOMAIN stack', NEW j \in DOMAIN stack', i < j
                       PROVE  stack'[i].dir # stack'[j].dir
          BY <2>2
        <4>2. CASE i \in {1, 2}
          <5>1. j = 2 \/ (j - 1 \in DOMAIN stack /\ j - 1 # 1 /\ stack'[j] = stack[j - 1])
            BY <2>2, <4>1, <4>2
          <5>2. QED
            BY <1>3, <1>4, <2>1, <2>2, <2>3, <3>5, <4>1, <4>2, <5>1
        <4>3. CASE i \notin {1, 2}
          <5>1. /\ i - 1 \in DOMAIN stack /\ stack'[i] = stack[i - 1]
                /\ j - 1 \in DOMAIN stack /\ stack'[j] = stack[j - 1]
                /\ i - 1 # j - 1
            BY <2>2, <4>1, <4>3
          <5>2. QED
            BY <1>1, <5>1 DEF WatchInv, SetupInv
        <4>4. QED
          BY <4>2, <4>3
      <3>7. ASSUME NEW i \in DOMAIN stack'
            PROVE  toWatch'[stack'[i].dir] # "none" /\ AheadIsNew(stack[i])'
        <4>1. CASE i = 1
          <5>1. \A d \in Dirs : Parent[d] = n => d # n /\ toWatch[d] = "none"
            BY <1>3, <2>3, <3>2
          <5>2. \A d \in Dirs : Parent[d] = n => toWatch'[d] = "none"
            BY <2>5, <5>1 DEF AllDirs
          <5>3. QED
            BY <2>1, <2>2, <2>5, <4>1, <5>2 DEF AheadIsNew
        <4>2. CASE i = 2
          <5>1. \A d \in Dirs : d \in f.names => Parent[d] = Top.dir /\ toWatch'[d] = "none"
            BY <1>3, <1>4, <2>5 DEF AllDirs
          <5>2. toWatch'[Top.dir] # "none"
            BY <1>2, <1>3, <2>5
          <5>3. QED
            BY <1>4, <2>2, <4>2, <5>1, <5>2 DEF AheadIsNew
        <4>3. CASE i \notin {1, 2}
          <5>1. PICK h \in Frame : h = stack[i - 1] /\ i - 1 \in DOMAIN stack /\ i - 1 # 1
                                   /\ stack'[i] = h
            BY <2>2, <4>3 DEF WatchInv, TypeOK
          <5>2. AheadIsNew(h) /\ h.dir # Top.dir /\ h.dir \in AllDirs /\ toWatch[h.dir] # "none"
            BY <1>1, <3>5, <5>1 DEF WatchInv, SetupInv
          <5>3. \A d \in Dirs : (IF h.stage = "walk" THEN d \in h.names ELSE Parent[d] = h.dir)
                    => Parent[d] = h.dir /\ toWatch'[d] = "none"
            BY <2>3, <2>5, <5>2 DEF AheadIsNew, AllDirs
          <5>4. toWatch'[h.dir] # "none"
            BY <2>5, <5>2
          <5>5. QED
            BY <5>1, <5>3, <5>4 DEF AheadIsNew
        <4>4. QED
          BY <4>1, <4>2, <4>3
      <3>8. QED
        BY <3>1, <3>4, <3>6, <3>7 DEF SetupInv
    <2>12. QED
      BY <2>6, <2>9, <2>10, <2>11 DEF WatchInv
  <1>7. QED
    BY <1>5, <1>6 DEF SetUp

-----------------------------------------------------------------------------
(* The steps of the run.                                                    *)

(* A directory that was reported as created is watched again only after its   *)
(* watch was given up.                                                      *)
LEMMA EnterStep ==
    ASSUME WatchInv, NEW n \in Dirs, NEW r, NEW calls \in Seq(Frame),
           \A i \in DOMAIN calls : calls[i].stage = "walk",
           Enter(n, r, calls)
    PROVE  /\ stack' \in Seq(Frame)
           /\ kernelWd' \in [AllDirs -> Nat]
           /\ wd' \in [AllDirs -> Nat]
           /\ toWatch' \in [AllDirs -> {"none", "exists", "gone"}]
           /\ \A d \in AllDirs \ {n} : toWatch'[d] = toWatch[d]
           /\ StackInv'
           /\ \A i \in DOMAIN stack' :
                 stack'[i].stage = "watch" => kernelWd'[stack'[i].dir] = 0 /\ wd'[stack'[i].dir] = 0
           /\ \A d \in AllDirs : kernelWd'[d] # 0 => kernelWd'[d] = wd'[d]
           /\ \A d \in AllDirs : wd'[d] # 0 => toWatch'[d] = "exists"
  <1>1. /\ kernelWd \in [AllDirs -> Nat] /\ wd \in [AllDirs -> Nat]
        /\ toWatch \in [AllDirs -> {"none", "exists", "gone"}] /\ n \in AllDirs
    BY DEF WatchInv, TypeOK, AllDirs
  <1>2. /\ \A d \in AllDirs : kernelWd[d] # 0 => kernelWd[d] = wd[d]
        /\ \A d \in AllDirs : wd[d] # 0 => toWatch[d] = "exists"
    BY DEF WatchInv, AssertionsHold
  <1>3. CASE stack' = calls /\ UNCHANGED <<kernelWd, toWatch, wd>>
    <2>1. \A i \in DOMAIN stack' : stack'[i].stage = "walk"
      BY <1>3
    <2>2. StackInv'
      BY <2>1 DEF StackInv
    <2>3. QED
      BY <1>1, <1>2, <1>3, <2>1, <2>2
  <1>4. CASE /\ toWatch' = [toWatch EXCEPT ![n] = "exists"]
             /\ \/ wd' = [wd EXCEPT ![n] = 0] /\ kernelWd' = [kernelWd EXCEPT ![n] = 0]
                \/ UNCHANGED <<wd, kernelWd>>
             /\ stack' = <<Call(n, IF wd'[n] = 0 THEN "watch" ELSE "open")>> \o calls
    <2> DEFINE g == Call(n, IF wd'[n] = 0 THEN "watch" ELSE "open")
    <2>1. g \in Frame /\ g.dir = n /\ (g.stage = "watch" => wd'[n] = 0) /\ g.stage # "walk"
      BY <1>1 DEF Call, Frame
    <2>2. stack' = <<g>> \o calls
      BY <1>4
    <2> HIDE DEF g
    <2>3. /\ stack' \in Seq(Frame)
          /\ stack'[1] = g
          /\ \A i \in DOMAIN stack' : i = 1 \/ (i - 1 \in DOMAIN calls /\ stack'[i] = calls[i - 1])
          /\ DOMAIN stack' \subseteq Nat
      BY <2>1, <2>2
    <2>4. \A i \in DOMAIN stack' : IF i = 1 THEN stack'[i] = g ELSE stack'[i].stage = "walk"
      BY <2>3
    <2>5. /\ toWatch'[n] = "exists"
          /\ \A d \in AllDirs \ {n} : toWatch'[d] = toWatch[d]
          /\ toWatch' \in [AllDirs -> {"none", "exists", "gone"}]
      BY <1>1, <1>4
    <2>6. /\ kernelWd' \in [AllDirs -> Nat] /\ wd' \in [AllDirs -> Nat]
          /\ \A d \in AllDirs : kernelWd'[d] # 0 => kernelWd'[d] = wd'[d]
          /\ \A d \in AllDirs : wd'[d] # 0 => wd[d] # 0
      <3>1. CASE wd' = [wd EXCEPT ![n] = 0] /\ kernelWd' = [kernelWd EXCEPT ![n] = 0]
        BY <1>1, <1>2, <3>1
      <3>2. CASE UNCHANGED <<wd, kernelWd>>
        BY <1>1, <1>2, <3>2
      <3>3. QED
        BY <1>4, <3>1, <3>2
    <2>7. \A d \in AllDirs : wd'[d] # 0 => toWatch'[d] = "exists"
      BY <1>2, <2>5, <2>6
    <2>8. \A i \in DOMAIN stack' :
             stack'[i].stage = "watch" => kernelWd'[stack'[i].dir] = 0 /\ wd'[stack'[i].dir] = 0
      BY <1>1, <2>1, <2>4, <2>6
    <2>9. StackInv'
      <3>1. SUFFICES ASSUME NEW i \in DOMAIN stack'
                     PROVE  /\ i > 1 => stack'[i].stage = "walk"
                            /\ stack'[i].stage = "watch" => toWatch'[stack'[i].dir] = "exists"
        BY DEF StackInv
      <3>2. CASE i = 1
        BY <2>1, <2>4, <2>5, <3>2
      <3>3. CASE i # 1
        BY <2>4, <3>3
      <3>4. QED
        BY <3>2, <3>3
    <2>10. QED
      BY <2>3, <2>5, <2>6, <2>7, <2>8, <2>9
  <1>5. QED
    BY <1>3, <1>4 DEF Enter

(* Keys of different names differ, and so do those of a directory and of a     *)
(* file.                                                                    *)
LEMMA KeysDiffer ==
    /\ \A d, e \in Dirs : d # e => KeyOf(d) # KeyOf(e)
    /\ \A d \in Dirs : \A n \in Nodes : KeyOf(d) # <<n, FALSE>>
    /\ \A d \in Dirs : KeyOf(d) = <<d, TRUE>>
  <1>1. \A d \in Dirs : (d \in Dirs) = TRUE
    OBVIOUS
  <1>2. \A d \in Dirs : KeyOf(d) = <<d, TRUE>>
    BY <1>1, Zenon DEF KeyOf
  <1>3. \A d, e : <<d, TRUE>> # <<e, FALSE>>
    OBVIOUS
  <1>4. \A d, e : d # e => <<d, TRUE>> # <<e, TRUE>>
    OBVIOUS
  <1>5. \A d, e \in Dirs : d # e => KeyOf(d) # KeyOf(e)
    BY <1>2, <1>4
  <1>6. \A d \in Dirs : \A n \in Nodes : KeyOf(d) # <<n, FALSE>>
    BY <1>2, <1>3
  <1>7. QED
    BY <1>2, <1>5, <1>6

(* What is left of the invariant when a directory's result was recorded.      *)
LEMMA RecordStep ==
    ASSUME WatchInv, phase = "running", phase' = phase,
           NEW k \in Keys, NEW new \in WatchedResult,
           results' = [results EXCEPT ![k] = new],
           \A d \in Dirs : toWatch'[d] = "exists" =>
               IF KeyOf(d) = k THEN Exists(new) ELSE toWatch[d] = "exists"
    PROVE  /\ SetupInv'
           /\ \A d \in Dirs : LET r == results'[KeyOf(d)] IN
                 toWatch'[d] = "exists" /\ r # NoResult => Exists(r)
  <1>1. SetupInv'
    BY DEF SetupInv
  <1>2. results \in [Keys -> WatchedResult]
    BY DEF WatchInv, TypeOK
  <1>3. ASSUME NEW d \in Dirs, toWatch'[d] = "exists", results'[KeyOf(d)] # NoResult
        PROVE  Exists(results'[KeyOf(d)])
    <2>1. KeyOf(d) \in Keys
      BY KeyOfKey DEF Nodes
    <2>2. CASE KeyOf(d) = k
      BY <1>2, <1>3, <2>1, <2>2
    <2>3. CASE KeyOf(d) # k
      BY <1>2, <1>3, <2>1, <2>3 DEF WatchInv, AssertionsHold
    <2>4. QED
      BY <2>2, <2>3
  <1>4. QED
    BY <1>1, <1>3

(* Everything a step of the run leaves, put together.                        *)
LEMMA RunStep ==
    ASSUME WatchInv, phase = "running", phase' = phase,
           NEW k \in Keys, NEW new \in WatchedResult,
           results' = [results EXCEPT ![k] = new],
           \A d \in Dirs : toWatch'[d] = "exists" =>
               IF KeyOf(d) = k THEN Exists(new) ELSE toWatch[d] = "exists",
           existing' \subseteq Nodes, hasInconsistencies' \in BOOLEAN,
           shown' \in [Keys -> ResultType],
           queue' \in Seq(Event),
           UNCHANGED <<disk, makes, hasty, lost, lastWd, atStart>>,
           stack' \in Seq(Frame),
           kernelWd' \in [AllDirs -> Nat],
           wd' \in [AllDirs -> Nat],
           toWatch' \in [AllDirs -> {"none", "exists", "gone"}],
           StackInv',
           \A i \in DOMAIN stack' :
              stack'[i].stage = "watch" => kernelWd'[stack'[i].dir] = 0 /\ wd'[stack'[i].dir] = 0,
           \A d \in AllDirs : kernelWd'[d] # 0 => kernelWd'[d] = wd'[d],
           \A d \in AllDirs : wd'[d] # 0 => toWatch'[d] = "exists"
    PROVE  WatchInv'
  <1>1. results \in [Keys -> WatchedResult]
    BY DEF WatchInv, TypeOK
  <1>2. results' \in [Keys -> WatchedResult]
    BY <1>1
  <1>3. TypeOK'
    BY <1>2 DEF WatchInv, TypeOK
  <1>4. /\ SetupInv'
        /\ \A d \in Dirs : LET r == results'[KeyOf(d)] IN
              toWatch'[d] = "exists" /\ r # NoResult => Exists(r)
    BY RecordStep
  <1>5. AssertionsHold'
    BY <1>4 DEF AssertionsHold
  <1>6. QED
    BY <1>3, <1>4, <1>5 DEF WatchInv

(* What stays of the watches when no call and no ToWatchDir changes.          *)
LEMMA WatchesStay ==
    ASSUME WatchInv, NEW s, s = stack, UNCHANGED kernelWd, UNCHANGED tree,
           \/ stack' = s
           \/ stack' \in Seq(Frame) /\ \A i \in DOMAIN stack' : stack'[i].stage = "walk"
    PROVE  /\ stack' \in Seq(Frame)
           /\ kernelWd' \in [AllDirs -> Nat]
           /\ wd' \in [AllDirs -> Nat]
           /\ toWatch' \in [AllDirs -> {"none", "exists", "gone"}]
           /\ StackInv'
           /\ \A i \in DOMAIN stack' :
                 stack'[i].stage = "watch" => kernelWd'[stack'[i].dir] = 0 /\ wd'[stack'[i].dir] = 0
           /\ \A d \in AllDirs : kernelWd'[d] # 0 => kernelWd'[d] = wd'[d]
           /\ \A d \in AllDirs : wd'[d] # 0 => toWatch'[d] = "exists"
  <1>1. stack \in Seq(Frame) /\ StackInv
    BY DEF WatchInv, TypeOK
  <1>2. /\ kernelWd' \in [AllDirs -> Nat] /\ wd' \in [AllDirs -> Nat]
        /\ toWatch' \in [AllDirs -> {"none", "exists", "gone"}]
        /\ \A d \in AllDirs : kernelWd'[d] # 0 => kernelWd'[d] = wd'[d]
        /\ \A d \in AllDirs : wd'[d] # 0 => toWatch'[d] = "exists"
    BY DEF WatchInv, TypeOK, AssertionsHold, tree
  <1>3. CASE stack' = s
    BY <1>1, <1>2, <1>3 DEF WatchInv, AssertionsHold, StackInv, tree
  <1>4. CASE stack' \in Seq(Frame) /\ \A i \in DOMAIN stack' : stack'[i].stage = "walk"
    BY <1>2, <1>4 DEF StackInv
  <1>5. QED
    BY <1>3, <1>4

(* A directory that vanished while its parent was listed gets the result of a *)
(* file; one that is there gets a result that says so.                       *)
LEMMA DiscoverStep ==
    ASSUME WatchInv, NEW n \in Nodes, Discover(n)
    PROVE  WatchInv'
  <1> DEFINE k == <<n, n \in Dirs /\ disk[n]>>
             r == results[k]
             new == Reconsider(n, r, OnScan(r))
  <1>1. /\ phase = "running" /\ stack # <<>> /\ Top.stage = "walk" /\ n \in Top.names
        /\ UNCHANGED <<queue, lost, lastWd, phase, atStart>> /\ UNCHANGED files
    BY DEF Discover
  <1>2. Top \in Frame /\ Rest \in Seq(Frame)
    BY <1>1, Frames DEF WatchInv
  <1> DEFINE f == [Top EXCEPT !.names = @ \ {n}]
  <1>3. f \in Frame /\ f.stage = "walk" /\ AfterName(n) = <<f>> \o Rest
    BY <1>1, <1>2 DEF Frame, AfterName
  <1> HIDE DEF f
  <1>4. /\ AfterName(n) \in Seq(Frame)
        /\ \A i \in DOMAIN AfterName(n) : AfterName(n)[i].stage = "walk"
    <2>1. /\ <<f>> \o Rest \in Seq(Frame)
          /\ DOMAIN (<<f>> \o Rest) = DOMAIN stack
          /\ (<<f>> \o Rest)[1] = f
          /\ \A i \in DOMAIN stack : i # 1 => (<<f>> \o Rest)[i] = stack[i]
      BY <1>1, <1>3, Replaced DEF WatchInv
    <2>2. \A i \in DOMAIN stack : i # 1 => stack[i].stage = "walk"
      BY <1>1, Frames DEF WatchInv, StackInv
    <2>3. QED
      BY <1>3, <2>1, <2>2
  <1>5. queue' \in Seq(Event) /\ UNCHANGED <<disk, makes, hasty, lost, lastWd, atStart>>
    BY <1>1 DEF WatchInv, TypeOK, files
  <1>6. ASSUME NEW key \in Keys, key = k, NEW res \in WatchedResult,
               Record(key, r, res, ScanEmits(r))
        PROVE  /\ results' = [results EXCEPT ![key] = res]
               /\ existing' \subseteq Nodes /\ hasInconsistencies' \in BOOLEAN
               /\ shown' \in [Keys -> ResultType]
    BY <1>6, RecordType DEF WatchInv
  <1>7. CASE /\ n \in Dirs /\ disk[n]
             /\ Record(k, r, new, ScanEmits(r))
             /\ Enter(n, r, AfterName(n))
    <2>1. (n \in Dirs /\ disk[n]) = TRUE
      BY <1>7
    <2>2. k = <<n, TRUE>>
      BY <2>1, Zenon
    <2>3. k = KeyOf(n) /\ k \in Keys
      BY <1>7, <2>2, KeysDiffer, KeyOfKey
    <2> HIDE DEF k
    <2>4. results[k] \in WatchedResult
      BY <2>3 DEF WatchInv, TypeOK
    <2>5. OnScan(r) \in WatchedResult /\ Exists(OnScan(r))
      BY <2>4, OnScanResult
    <2>6. new \in WatchedResult /\ Exists(new)
      BY <2>5, ReconsiderResult
    <2> HIDE DEF new, r
    <2>7. /\ results' = [results EXCEPT ![k] = new]
          /\ existing' \subseteq Nodes /\ hasInconsistencies' \in BOOLEAN
          /\ shown' \in [Keys -> ResultType]
      BY <1>6, <1>7, <2>3, <2>6
    <2>8. /\ stack' \in Seq(Frame)
          /\ kernelWd' \in [AllDirs -> Nat]
          /\ wd' \in [AllDirs -> Nat]
          /\ toWatch' \in [AllDirs -> {"none", "exists", "gone"}]
          /\ \A d \in AllDirs \ {n} : toWatch'[d] = toWatch[d]
          /\ StackInv'
          /\ \A i \in DOMAIN stack' :
                stack'[i].stage = "watch" => kernelWd'[stack'[i].dir] = 0 /\ wd'[stack'[i].dir] = 0
          /\ \A d \in AllDirs : kernelWd'[d] # 0 => kernelWd'[d] = wd'[d]
          /\ \A d \in AllDirs : wd'[d] # 0 => toWatch'[d] = "exists"
      BY <1>4, <1>7, EnterStep
    <2>9. \A d \in Dirs : toWatch'[d] = "exists" =>
              IF KeyOf(d) = k THEN Exists(new) ELSE toWatch[d] = "exists"
      BY <2>3, <2>6, <2>8 DEF AllDirs
    <2>10. QED
      BY <1>1, <1>5, <2>3, <2>6, <2>7, <2>8, <2>9, RunStep
  <1>8. CASE /\ ~(n \in Dirs /\ disk[n])
             /\ Record(k, r, OnScan(r), ScanEmits(r))
             /\ stack' = AfterName(n)
             /\ UNCHANGED <<kernelWd, toWatch, wd>>
    <2>1. (n \in Dirs /\ disk[n]) = FALSE
      BY <1>8
    <2>2. k = <<n, FALSE>>
      BY <2>1, Zenon
    <2>3. k \in Keys /\ \A d \in Dirs : KeyOf(d) # k
      BY <2>2, KeysDiffer DEF Keys
    <2> HIDE DEF k
    <2>4. results[k] \in WatchedResult
      BY <2>3 DEF WatchInv, TypeOK
    <2>5. OnScan(r) \in WatchedResult
      BY <2>4, OnScanResult
    <2> HIDE DEF r
    <2>6. /\ results' = [results EXCEPT ![k] = OnScan(r)]
          /\ existing' \subseteq Nodes /\ hasInconsistencies' \in BOOLEAN
          /\ shown' \in [Keys -> ResultType]
      BY <1>6, <1>8, <2>3, <2>5
    <2>7. stack' \in Seq(Frame) /\ \A i \in DOMAIN stack' : stack'[i].stage = "walk"
      BY <1>4, <1>8
    <2>8. UNCHANGED kernelWd /\ UNCHANGED tree
      BY <1>8 DEF tree
    <2>9. \A d \in Dirs : toWatch'[d] = "exists" =>
              IF KeyOf(d) = k THEN Exists(OnScan(r)) ELSE toWatch[d] = "exists"
      BY <1>8, <2>3
    <2>10. QED
      BY <1>1, <1>5, <2>3, <2>5, <2>6, <2>7, <2>8, <2>9, WatchesStay, RunStep
  <1>9. QED
    BY <1>7, <1>8 DEF Discover

(* A file's result is never that of a directory.                            *)
LEMMA OnFileStep ==
    ASSUME WatchInv, NEW n \in Files, NEW act \in Action, phase = "running", phase' = phase,
           stack = <<>>, queue' \in Seq(Event),
           UNCHANGED <<disk, makes, hasty, lost, lastWd, atStart>>,
           OnFile(n, act)
    PROVE  WatchInv'
  <1> DEFINE k == KeyOf(n)
             r == results[k]
             new == OnEvent(r, act, n \in existing)
  <1>1. n \in Nodes /\ n \notin Dirs
    BY KindsAssumption DEF Nodes
  <1>2. (n \in Dirs) = FALSE
    BY <1>1
  <1>3. k = <<n, FALSE>>
    BY <1>2, Zenon DEF KeyOf
  <1>4. k \in Keys /\ \A d \in Dirs : KeyOf(d) # k
    BY <1>1, <1>3, KeysDiffer DEF Keys
  <1>5. Record(k, r, new, Emits(r, act)) /\ UNCHANGED <<kernelWd, stack>> /\ UNCHANGED tree
    BY DEF OnFile
  <1> HIDE DEF k
  <1>6. r \in WatchedResult
    BY <1>4 DEF WatchInv, TypeOK
  <1>7. new \in WatchedResult
    <2>1. (n \in existing) \in BOOLEAN
      OBVIOUS
    <2>2. QED
      BY <1>6, <2>1, OnEventType
  <1> HIDE DEF r, new
  <1>8. /\ results' = [results EXCEPT ![k] = new]
        /\ existing' \subseteq Nodes /\ hasInconsistencies' \in BOOLEAN
        /\ shown' \in [Keys -> ResultType]
    BY <1>4, <1>5, <1>7, RecordType DEF WatchInv
  <1>9. \A d \in Dirs : toWatch'[d] = "exists" =>
            IF KeyOf(d) = k THEN Exists(new) ELSE toWatch[d] = "exists"
    BY <1>4, <1>5 DEF tree
  <1>10. QED
    BY <1>4, <1>5, <1>7, <1>8, <1>9, WatchesStay, RunStep

(* The result of a directory that was created says that it exists.           *)
LEMMA OnDirCreatedStep ==
    ASSUME WatchInv, NEW n \in Dirs, phase = "running", phase' = phase,
           stack = <<>>, queue' \in Seq(Event),
           UNCHANGED <<disk, makes, hasty, lost, lastWd, atStart>>,
           OnDirCreated(n)
    PROVE  WatchInv'
  <1> DEFINE k == KeyOf(n)
             r == results[k]
             new == Reconsider(n, r, OnEvent(r, "create", n \in existing))
  <1>1. n \in Nodes /\ k \in Keys /\ \A d \in Dirs : KeyOf(d) = k => d = n
    BY KeysDiffer, KeyOfKey DEF Nodes
  <1>2. Record(k, r, new, Emits(r, "create")) /\ Enter(n, r, <<>>)
    BY DEF OnDirCreated
  <1> HIDE DEF k
  <1>3. r \in WatchedResult
    BY <1>1 DEF WatchInv, TypeOK
  <1>4. /\ OnEvent(r, "create", n \in existing) \in WatchedResult
        /\ Exists(OnEvent(r, "create", n \in existing))
    <2>1. "create" \in Action /\ "create" # "delete"
      BY DEF Action
    <2>2. (n \in existing) \in BOOLEAN
      OBVIOUS
    <2>3. Exists(OnEvent(r, "create", n \in existing)) = ("create" # "delete")
      BY <1>3, <2>1, <2>2, OnEventPresent
    <2>4. QED
      BY <1>3, <2>1, <2>2, <2>3, OnEventType
  <1>5. new \in WatchedResult /\ Exists(new)
    BY <1>4, ReconsiderResult
  <1> HIDE DEF r, new
  <1>6. /\ results' = [results EXCEPT ![k] = new]
        /\ existing' \subseteq Nodes /\ hasInconsistencies' \in BOOLEAN
        /\ shown' \in [Keys -> ResultType]
    BY <1>1, <1>2, <1>5, RecordType DEF WatchInv
  <1>7. <<>> \in Seq(Frame) /\ \A i \in DOMAIN <<>> : <<>>[i].stage = "walk"
    OBVIOUS
  <1>8. /\ stack' \in Seq(Frame)
        /\ kernelWd' \in [AllDirs -> Nat]
        /\ wd' \in [AllDirs -> Nat]
        /\ toWatch' \in [AllDirs -> {"none", "exists", "gone"}]
        /\ \A d \in AllDirs \ {n} : toWatch'[d] = toWatch[d]
        /\ StackInv'
        /\ \A i \in DOMAIN stack' :
              stack'[i].stage = "watch" => kernelWd'[stack'[i].dir] = 0 /\ wd'[stack'[i].dir] = 0
        /\ \A d \in AllDirs : kernelWd'[d] # 0 => kernelWd'[d] = wd'[d]
        /\ \A d \in AllDirs : wd'[d] # 0 => toWatch'[d] = "exists"
    BY <1>2, <1>7, EnterStep
  <1>9. \A d \in Dirs : toWatch'[d] = "exists" =>
            IF KeyOf(d) = k THEN Exists(new) ELSE toWatch[d] = "exists"
    BY <1>5, <1>8 DEF AllDirs, k
  <1>10. QED
    BY <1>1, <1>5, <1>6, <1>8, <1>9, RunStep

(* The result of a directory that changed its mode says that it exists.       *)
LEMMA OnDirAttribStep ==
    ASSUME WatchInv, NEW n \in Dirs, phase = "running", phase' = phase,
           stack = <<>>, queue' \in Seq(Event),
           UNCHANGED <<disk, makes, hasty, lost, lastWd, atStart>>,
           OnDirAttrib(n)
    PROVE  WatchInv'
  <1> DEFINE k == KeyOf(n)
             r == results[k]
             new == OnEvent(r, "attrib", n \in existing)
  <1>1. n \in Nodes /\ k \in Keys
    BY KeyOfKey DEF Nodes
  <1>2. Record(k, r, new, FALSE) /\ UNCHANGED <<kernelWd, stack>> /\ UNCHANGED tree
    BY DEF OnDirAttrib
  <1> HIDE DEF k
  <1>3. r \in WatchedResult
    BY <1>1 DEF WatchInv, TypeOK
  <1>4. new \in WatchedResult /\ Exists(new)
    <2>1. "attrib" \in Action /\ "attrib" # "delete"
      BY DEF Action
    <2>2. (n \in existing) \in BOOLEAN
      OBVIOUS
    <2>3. Exists(new) = ("attrib" # "delete")
      BY <1>3, <2>1, <2>2, OnEventPresent
    <2>4. QED
      BY <1>3, <2>1, <2>2, <2>3, OnEventType
  <1> HIDE DEF r, new
  <1>5. /\ results' = [results EXCEPT ![k] = new]
        /\ existing' \subseteq Nodes /\ hasInconsistencies' \in BOOLEAN
        /\ shown' \in [Keys -> ResultType]
    BY <1>1, <1>2, <1>4, RecordType DEF WatchInv
  <1>6. \A d \in Dirs : toWatch'[d] = "exists" =>
            IF KeyOf(d) = k THEN Exists(new) ELSE toWatch[d] = "exists"
    BY <1>2, <1>4 DEF tree
  <1>7. QED
    BY <1>1, <1>2, <1>4, <1>5, <1>6, WatchesStay, RunStep

(* A directory that is gone has no ToWatchDir that exists.                   *)
LEMMA OnDirDeletedStep ==
    ASSUME WatchInv, NEW n \in Dirs, phase = "running", phase' = phase,
           stack = <<>>, queue' \in Seq(Event),
           UNCHANGED <<disk, makes, hasty, lost, lastWd, atStart>>,
           OnDirDeleted(n)
    PROVE  WatchInv'
  <1> DEFINE k == KeyOf(n)
             r == results[k]
             new == OnEvent(r, "delete", n \in existing)
  <1>1. n \in Nodes /\ n \in AllDirs /\ k \in Keys /\ \A d \in Dirs : KeyOf(d) = k => d = n
    BY KeysDiffer, KeyOfKey DEF Nodes, AllDirs
  <1>2. r \in WatchedResult
    BY <1>1 DEF WatchInv, TypeOK
  <1>3. new \in WatchedResult
    <2>1. "delete" \in Action /\ (n \in existing) \in BOOLEAN
      BY DEF Action
    <2>2. QED
      BY <1>2, <2>1, OnEventType
  <1>4. /\ results' = [results EXCEPT ![k] = new]
        /\ hasInconsistencies' = (hasInconsistencies \/ (new.inconsistent /\ ~r.inconsistent))
        /\ shown' = [shown EXCEPT ![k] = new.type]
        /\ \/ /\ toWatch[n] = "exists"
              /\ toWatch' = [toWatch EXCEPT ![n] = "gone"]
              /\ wd' = [wd EXCEPT ![n] = 0]
              /\ kernelWd' = [kernelWd EXCEPT ![n] = 0]
           \/ /\ toWatch[n] # "exists"
              /\ UNCHANGED <<toWatch, wd, kernelWd>>
        /\ UNCHANGED stack
    BY DEF OnDirDeleted
  <1>5. existing' \subseteq Nodes
    BY DEF OnDirDeleted, WatchInv, TypeOK
  <1> HIDE DEF k, r
  <1>6. hasInconsistencies' \in BOOLEAN /\ shown' \in [Keys -> ResultType]
    <2> HIDE DEF new
    <2>1. hasInconsistencies \in BOOLEAN /\ shown \in [Keys -> ResultType]
      BY DEF WatchInv, TypeOK
    <2>2. new.type \in ResultType
      BY <1>3 DEF WatchedResult
    <2>3. shown' \in [Keys -> ResultType]
      BY <1>1, <1>4, <2>1, <2>2
    <2>4. hasInconsistencies' \in BOOLEAN
      BY <1>4
    <2>5. QED
      BY <2>3, <2>4
  <1> HIDE DEF new
  <1>7. /\ kernelWd \in [AllDirs -> Nat] /\ wd \in [AllDirs -> Nat]
        /\ toWatch \in [AllDirs -> {"none", "exists", "gone"}]
        /\ \A d \in AllDirs : kernelWd[d] # 0 => kernelWd[d] = wd[d]
        /\ \A d \in AllDirs : wd[d] # 0 => toWatch[d] = "exists"
    BY DEF WatchInv, TypeOK, AssertionsHold
  <1>8. /\ kernelWd' \in [AllDirs -> Nat] /\ wd' \in [AllDirs -> Nat]
        /\ toWatch' \in [AllDirs -> {"none", "exists", "gone"}]
        /\ toWatch'[n] # "exists"
        /\ \A d \in AllDirs : toWatch'[d] = "exists" => toWatch[d] = "exists"
    <2>1. CASE toWatch[n] = "exists"
      <3>1. /\ kernelWd' = [kernelWd EXCEPT ![n] = 0] /\ wd' = [wd EXCEPT ![n] = 0]
            /\ toWatch' = [toWatch EXCEPT ![n] = "gone"]
        BY <1>4, <2>1
      <3>2. kernelWd' \in [AllDirs -> Nat] /\ wd' \in [AllDirs -> Nat]
        BY <1>1, <1>7, <3>1
      <3>3. /\ toWatch' \in [AllDirs -> {"none", "exists", "gone"}]
            /\ toWatch'[n] # "exists"
            /\ \A d \in AllDirs : toWatch'[d] = "exists" => toWatch[d] = "exists"
        BY <1>1, <1>7, <2>1, <3>1
      <3>4. QED
        BY <3>2, <3>3
    <2>2. CASE toWatch[n] # "exists"
      BY <1>4, <1>7, <2>2
    <2>3. QED
      BY <2>1, <2>2
  <1>9. /\ \A d \in AllDirs : kernelWd'[d] # 0 => kernelWd'[d] = wd'[d]
        /\ \A d \in AllDirs : wd'[d] # 0 => toWatch'[d] = "exists"
    <2>1. CASE toWatch[n] = "exists"
      <3>1. /\ kernelWd' = [kernelWd EXCEPT ![n] = 0] /\ wd' = [wd EXCEPT ![n] = 0]
            /\ toWatch' = [toWatch EXCEPT ![n] = "gone"]
        BY <1>4, <2>1
      <3>2. \A d \in AllDirs : d # n =>
               kernelWd'[d] = kernelWd[d] /\ wd'[d] = wd[d] /\ toWatch'[d] = toWatch[d]
        BY <1>7, <3>1
      <3>3. kernelWd'[n] = 0 /\ wd'[n] = 0
        BY <1>1, <1>7, <3>1
      <3>4. QED
        BY <1>7, <3>2, <3>3
    <2>2. CASE toWatch[n] # "exists"
      BY <1>4, <1>7, <2>2
    <2>3. QED
      BY <2>1, <2>2
  <1>10. \A d \in Dirs : toWatch'[d] = "exists" =>
             IF KeyOf(d) = k THEN Exists(new) ELSE toWatch[d] = "exists"
    BY <1>1, <1>8 DEF AllDirs
  <1>11. /\ stack' \in Seq(Frame)
         /\ StackInv'
         /\ \A i \in DOMAIN stack' :
               stack'[i].stage = "watch" => kernelWd'[stack'[i].dir] = 0 /\ wd'[stack'[i].dir] = 0
    <2>1. stack' = <<>>
      BY <1>4
    <2>2. QED
      BY <2>1 DEF StackInv
  <1>12. QED
    BY <1>1, <1>3, <1>4, <1>5, <1>6, <1>8, <1>9, <1>10, <1>11, RunStep

(* An event is read, and handled if a ToWatchDir holds its watch.             *)
LEMMA DispatchStep == WatchInv /\ Dispatch => WatchInv'
  <1> SUFFICES ASSUME WatchInv, Dispatch PROVE WatchInv'
    OBVIOUS
  <1>1. /\ phase = "running" /\ phase' = phase /\ stack = <<>> /\ queue # <<>>
        /\ queue' = Tail(queue)
        /\ UNCHANGED <<disk, makes, hasty, lost, lastWd, atStart>>
    BY DEF Dispatch, files
  <1>2. queue \in Seq(Event)
    BY DEF WatchInv, TypeOK
  <1>3. queue' \in Seq(Event) /\ Head(queue) \in Event
    BY <1>1, <1>2
  <1>4. PICK e \in Event : e = Head(queue)
    BY <1>3
  <1>5. e.name \in Nodes /\ e.act \in Action
    BY DEF Event
  <1>6. PICK n \in Nodes : n = e.name
    BY <1>5
  <1>7. CASE OnFileModified(n, e.act)
    <2>1. PICK act \in Action :
              \/ n \in Files /\ OnFile(n, act)
              \/ n \in Dirs /\ OnDirCreated(n)
              \/ n \in Dirs /\ OnDirDeleted(n)
              \/ n \in Dirs /\ OnDirAttrib(n)
      BY <1>5, <1>7, EffectiveType DEF OnFileModified
    <2>2. QED
      BY <1>1, <1>3, <2>1, OnFileStep, OnDirCreatedStep, OnDirDeletedStep, OnDirAttribStep
  <1>8. CASE UNCHANGED <<kernelWd, stack>> /\ UNCHANGED tree /\ UNCHANGED model
    <2>1. TypeOK'
      BY <1>1, <1>3, <1>8 DEF WatchInv, TypeOK, tree, model
    <2>2. AssertionsHold' /\ StackInv'
      BY <1>8 DEF WatchInv, AssertionsHold, StackInv, tree, model
    <2>3. SetupInv'
      BY <1>1 DEF SetupInv
    <2>4. QED
      BY <2>1, <2>2, <2>3 DEF WatchInv
  <1>9. QED
    BY <1>4, <1>6, <1>7, <1>8 DEF Dispatch

-----------------------------------------------------------------------------
(* Every step keeps the invariant.                                            *)
LEMMA NextWatch == WatchInv /\ [Next]_vars => WatchInv'
  <1> SUFFICES ASSUME WatchInv, [Next]_vars PROVE WatchInv'
    OBVIOUS
  <1>1. CASE Environment
    BY <1>1, EnvironmentStep
  <1>2. CASE Listing
    BY <1>2, AddWatchStep, OpenDirectoryStep, RememberStep, SetUpStep, DiscoverStep, EndNamesStep
    DEF Listing
  <1>3. CASE EndSetup
    BY <1>3, EndSetupStep
  <1>4. CASE Dispatch
    BY <1>4, DispatchStep
  <1>5. CASE UNCHANGED vars
    <2> USE <1>5 DEF vars
    <2>1. TypeOK'
      BY DEF WatchInv, TypeOK
    <2>2. AssertionsHold' /\ StackInv'
      BY DEF WatchInv, AssertionsHold, StackInv
    <2>3. SetupInv'
      BY DEF WatchInv, SetupInv, AheadIsNew
    <2>4. QED
      BY <2>1, <2>2, <2>3 DEF WatchInv
  <1>6. QED
    BY <1>1, <1>2, <1>3, <1>4, <1>5 DEF Next

(* What each call under way may rely on, and what start() leaves to its calls, *)
(* whatever the others do between any two steps: see WatchInv.               *)
THEOREM WatchInvariance == Spec => []WatchInv
  BY InitWatch, NextWatch, PTL DEF Spec

(* Every variable keeps to its type, however directories come and go.        *)
THEOREM TypeCorrect == Spec => []TypeOK
  <1>1. WatchInv => TypeOK
    BY DEF WatchInv
  <1>2. QED
    BY <1>1, WatchInvariance, PTL

(* In any tree of directories and files, of any depth: a directory about to be *)
(* watched has no watch, so that addPath() never finds its descriptor taken;  *)
(* the kernel's watches are those the ToWatchDirs hold; only a ToWatchDir that *)
(* exists holds one; and an existing one never has a result that denies it.  *)
THEOREM AssertionsCorrect == Spec => []AssertionsHold
  <1>1. WatchInv => AssertionsHold
    BY DEF WatchInv
  <1>2. QED
    BY <1>1, WatchInvariance, PTL

-----------------------------------------------------------------------------
(* What the listener hears.                                                 *)

\* A result becomes "new", and the listener is told if "emits": it misses little.
Told(r, new, isDir, emits) ==
    /\ new.immediate => Exists(new)
    /\ \/ emits
       \/ new.type = r.type /\ (r.inconsistent => new.inconsistent)
       \/ isDir /\ Exists(new) /\ (new.type = "modified" \/ new.inconsistent)

(* An event of a file is told of when it changes the type of the result.      *)
LEMMA EventTold ==
    ASSUME NEW r \in WatchedResult, r.immediate => Exists(r),
           NEW act \in Action, NEW known \in BOOLEAN, NEW isDir
    PROVE  Told(r, OnEvent(r, act, known), isDir, Emits(r, act))
  BY DEF Told, OnEvent, FirstResult, NextResult, FirstType, PresentType, GoneType, Exists,
         ExistedAtStart, Contradicts, WatchedResult, ResultType, Action, NoResult, Emits

(* So is the creation of a directory, whatever is made of it.                *)
LEMMA CreationTold ==
    ASSUME NEW r \in WatchedResult, r.immediate => Exists(r), NEW known \in BOOLEAN, NEW n, NEW isDir
    PROVE  Told(r, Reconsider(n, r, OnEvent(r, "create", known)), isDir, Emits(r, "create"))
  BY DEF Told, Reconsider, OnEvent, FirstResult, NextResult, FirstType, PresentType, GoneType, Exists,
         ExistedAtStart, Contradicts, WatchedResult, ResultType, Action, NoResult, Emits

(* A change of mode is not told of.                                         *)
LEMMA AttribTold ==
    ASSUME NEW r \in WatchedResult, r.immediate => Exists(r), NEW known \in BOOLEAN
    PROVE  Told(r, OnEvent(r, "attrib", known), TRUE, FALSE)
  BY DEF Told, OnEvent, FirstResult, NextResult, FirstType, PresentType, GoneType, Exists,
         ExistedAtStart, Contradicts, WatchedResult, ResultType, Action, NoResult

(* What a scan finds is told of the first time.                             *)
LEMMA ScanTold ==
    ASSUME NEW r \in WatchedResult, r.immediate => Exists(r), NEW n, NEW isDir
    PROVE  /\ Told(r, OnScan(r), isDir, ScanEmits(r))
           /\ Told(r, Reconsider(n, r, OnScan(r)), isDir, ScanEmits(r))
  BY DEF Told, Reconsider, OnScan, ScanContradicts, PresentType, Exists, ExistedAtStart,
         WatchedResult, ResultType, NoResult, ScanEmits

(* One result that was told of keeps the invariant.                         *)
LEMMA ToldStep ==
    ASSUME HeardInv, NEW k \in Keys, NEW new \in WatchedResult, NEW emits \in BOOLEAN,
           results' = [results EXCEPT ![k] = new],
           shown' = IF emits THEN [shown EXCEPT ![k] = new.type] ELSE shown,
           Told(results[k], new, k[2], emits)
    PROVE  ListenerMissesLittle' /\ ImmediateInv'
  <1>1. /\ results \in [Keys -> WatchedResult] /\ shown \in [Keys -> ResultType]
        /\ ListenerMissesLittle /\ ImmediateInv
    BY DEF HeardInv, TypeOK
  <1>2. /\ results'[k] = new
        /\ \A j \in Keys : j # k => results'[j] = results[j] /\ shown'[j] = shown[j]
        /\ shown'[k] = IF emits THEN new.type ELSE shown[k]
    BY <1>1
  <1>3. ImmediateInv'
    BY <1>1, <1>2 DEF ImmediateInv, Told
  <1>4. shown'[k] # new.type => k[2] /\ Exists(new) /\ (new.type = "modified" \/ new.inconsistent)
    <2>1. CASE emits
      BY <1>2, <2>1
    <2>2. CASE ~emits
      <3>1. shown[k] # results[k].type =>
                k[2] /\ Exists(results[k]) /\ (results[k].type = "modified" \/ results[k].inconsistent)
        BY <1>1 DEF ListenerMissesLittle
      <3>2. QED
        BY <1>2, <2>2, <3>1 DEF Told, Exists
    <2>3. QED
      BY <2>1, <2>2
  <1>5. QED
    BY <1>1, <1>2, <1>3, <1>4 DEF ListenerMissesLittle

(* What a step may do to the results: nothing, or one result is changed and told *)
(* of if it must.                                                           *)
LEMMA RecordTold ==
    ASSUME HeardInv, NEW k \in Keys, NEW new \in WatchedResult, NEW emits \in BOOLEAN,
           Record(k, results[k], new, emits),
           Told(results[k], new, k[2], emits)
    PROVE  ListenerMissesLittle' /\ ImmediateInv'
  BY ToldStep DEF Record

(* Emits() is a truth value.                                                *)
LEMMA EmitsBoolean ==
    ASSUME NEW r \in WatchedResult, NEW act
    PROVE  Emits(r, act) \in BOOLEAN /\ ScanEmits(r) \in BOOLEAN
  BY DEF Emits, ScanEmits, WatchedResult

(* What a scan finds.                                                       *)
LEMMA DiscoverHeard ==
    ASSUME HeardInv, NEW n \in Nodes, Discover(n)
    PROVE  ListenerMissesLittle' /\ ImmediateInv'
  <1> DEFINE k == <<n, n \in Dirs /\ disk[n]>>
             r == results[k]
  <1>1. PICK new \in {OnScan(r), Reconsider(n, r, OnScan(r))} : Record(k, r, new, ScanEmits(r))
    BY DEF Discover
  <1>2. k \in Keys
    <2>1. CASE n \in Dirs /\ disk[n]
      <3>1. (n \in Dirs /\ disk[n]) = TRUE
        BY <2>1
      <3>2. k = <<n, TRUE>>
        BY <3>1, Zenon
      <3>3. QED
        BY <2>1, <3>2 DEF Keys
    <2>2. CASE ~(n \in Dirs /\ disk[n])
      <3>1. (n \in Dirs /\ disk[n]) = FALSE
        BY <2>2
      <3>2. k = <<n, FALSE>>
        BY <3>1, Zenon
      <3>3. QED
        BY <3>2 DEF Keys
    <2>3. QED
      BY <2>1, <2>2
  <1> HIDE DEF k
  <1>3. r \in WatchedResult /\ (r.immediate => Exists(r))
    BY <1>2 DEF HeardInv, TypeOK, ImmediateInv
  <1>4. new \in WatchedResult
    BY <1>1, <1>3, OnScanResult, ReconsiderResult
  <1>5. Told(r, new, k[2], ScanEmits(r)) /\ ScanEmits(r) \in BOOLEAN
    BY <1>1, <1>3, ScanTold, EmitsBoolean
  <1>6. QED
    BY <1>1, <1>2, <1>4, <1>5, RecordTold

(* What an event tells.                                                     *)
LEMMA ModifiedHeard ==
    ASSUME HeardInv, NEW n \in Nodes, NEW event \in Action, OnFileModified(n, event)
    PROVE  ListenerMissesLittle' /\ ImmediateInv'
  <1> DEFINE k == KeyOf(n)
             r == results[k]
  <1>1. PICK act \in Action :
            \/ n \in Files /\ OnFile(n, act)
            \/ n \in Dirs /\ OnDirCreated(n)
            \/ n \in Dirs /\ OnDirDeleted(n)
            \/ n \in Dirs /\ OnDirAttrib(n)
    BY EffectiveType DEF OnFileModified
  <1>2. k \in Keys
    BY KeyOfKey
  <1>3. n \in Dirs => k[2] = TRUE
    <2>1. n \in Dirs => k = <<n, TRUE>>
      BY KeysDiffer
    <2>2. <<n, TRUE>>[2] = TRUE
      OBVIOUS
    <2> HIDE DEF k
    <2>3. QED
      BY <2>1, <2>2
  <1>4. r \in WatchedResult /\ (r.immediate => Exists(r))
    BY <1>2 DEF HeardInv, TypeOK, ImmediateInv
  <1>5. PICK known \in BOOLEAN : known = (n \in existing)
    <2>1. (n \in existing) \in BOOLEAN
      OBVIOUS
    <2>2. QED
      BY <2>1, Zenon
  <1>6. {"create", "delete", "attrib"} \subseteq Action
    BY DEF Action
  <1> HIDE DEF k
  <1>7. CASE OnFile(n, act)
    <2>1. Record(k, r, OnEvent(r, act, known), Emits(r, act))
      BY <1>5, <1>7 DEF OnFile, k
    <2>2. OnEvent(r, act, known) \in WatchedResult
      BY <1>4, OnEventType
    <2>3. Told(r, OnEvent(r, act, known), k[2], Emits(r, act)) /\ Emits(r, act) \in BOOLEAN
      BY <1>4, EventTold, EmitsBoolean
    <2>4. QED
      BY <1>2, <2>1, <2>2, <2>3, RecordTold
  <1>8. CASE OnDirCreated(n)
    <2> DEFINE new == Reconsider(n, r, OnEvent(r, "create", known))
    <2>1. Record(k, r, new, Emits(r, "create"))
      BY <1>5, <1>8 DEF OnDirCreated, k
    <2>2. OnEvent(r, "create", known) \in WatchedResult /\ Exists(OnEvent(r, "create", known))
      <3>1. Exists(OnEvent(r, "create", known)) = ("create" # "delete")
        BY <1>4, <1>6, OnEventPresent
      <3>2. QED
        BY <1>4, <1>6, <3>1, OnEventType
    <2>3. new \in WatchedResult
      BY <2>2, ReconsiderResult
    <2>4. Told(r, new, k[2], Emits(r, "create")) /\ Emits(r, "create") \in BOOLEAN
      BY <1>4, CreationTold, EmitsBoolean
    <2>5. QED
      BY <1>2, <2>1, <2>3, <2>4, RecordTold
  <1>9. CASE OnDirDeleted(n)
    <2> DEFINE new == OnEvent(r, "delete", known)
    <2>1. results' = [results EXCEPT ![k] = new] /\ shown' = [shown EXCEPT ![k] = new.type]
      BY <1>5, <1>9 DEF OnDirDeleted, k
    <2>2. new \in WatchedResult
      BY <1>4, <1>6, OnEventType
    <2>3. Told(r, new, k[2], Emits(r, "delete"))
      BY <1>4, <1>6, EventTold
    <2>4. Told(r, new, k[2], TRUE)
      BY <2>3 DEF Told
    <2> HIDE DEF new
    <2>5. QED
      BY <1>2, <2>1, <2>2, <2>4, ToldStep
  <1>10. CASE n \in Dirs /\ OnDirAttrib(n)
    <2> DEFINE new == OnEvent(r, "attrib", known)
    <2>1. Record(k, r, new, FALSE)
      BY <1>5, <1>10 DEF OnDirAttrib, k
    <2>2. new \in WatchedResult
      BY <1>4, <1>6, OnEventType
    <2>3. Told(r, new, k[2], FALSE)
      BY <1>3, <1>4, <1>10, AttribTold
    <2> HIDE DEF new
    <2>4. QED
      BY <1>2, <2>1, <2>2, <2>3, RecordTold
  <1>11. QED
    BY <1>1, <1>7, <1>8, <1>9, <1>10

(* Every step keeps the listener up to date.                                *)
LEMMA HeardStep == ASSUME HeardInv, WatchInv, [Next]_vars PROVE HeardInv'
  <1>1. TypeOK'
    <2>1. WatchInv'
      BY NextWatch
    <2>2. QED
      BY <2>1 DEF WatchInv
  <1>2. ListenerMissesLittle' /\ ImmediateInv'
    <2>1. CASE UNCHANGED <<results, shown>>
      BY <2>1 DEF HeardInv, ListenerMissesLittle, ImmediateInv
    <2>2. CASE Environment
      BY <2>1, <2>2, EnvironmentShape DEF HeardInv
    <2>3. CASE AddWatch \/ OpenDirectory \/ EndNames \/ EndSetup \/ UNCHANGED vars
      BY <2>1, <2>3 DEF AddWatch, OpenDirectory, EndNames, EndSetup, model, vars
    <2>4. ASSUME NEW n \in Nodes, Remember(n) \/ SetUp(n)
          PROVE  UNCHANGED <<results, shown>>
      BY <2>4 DEF Remember, SetUp, model
    <2>5. CASE Dispatch
      <3>1. queue # <<>> /\ queue \in Seq(Event)
        BY <2>5 DEF Dispatch, HeardInv, TypeOK
      <3>2. PICK e \in Event : e = Head(queue)
        BY <3>1
      <3>3. e.name \in Nodes /\ e.act \in Action
        BY DEF Event
      <3>4. OnFileModified(e.name, e.act) \/ UNCHANGED <<results, shown>>
        BY <2>5, <3>2 DEF Dispatch, model
      <3>5. QED
        BY <2>1, <3>3, <3>4, ModifiedHeard
    <2>6. QED
      BY <2>1, <2>2, <2>3, <2>4, <2>5, DiscoverHeard DEF Next, Listing
  <1>3. QED
    BY <1>1, <1>2 DEF HeardInv

(* Every type a result has was sent to the listener, but for existing          *)
(* directories that were modified, or are back without anyone having told.   *)
THEOREM ListenerCorrect == Spec => []ListenerMissesLittle
  <1>1. Init => HeardInv
    <2> SUFFICES ASSUME Init PROVE HeardInv
      OBVIOUS
    <2>1. TypeOK
      BY InitWatch DEF WatchInv
    <2>2. QED
      BY <2>1 DEF Init, HeardInv, ListenerMissesLittle, ImmediateInv, NoResult
  <1>2. HeardInv /\ WatchInv /\ [Next]_vars => HeardInv'
    BY HeardStep
  <1>3. HeardInv => ListenerMissesLittle
    BY DEF HeardInv
  <1>4. QED
    BY <1>1, <1>2, <1>3, WatchInvariance, PTL DEF Spec

-----------------------------------------------------------------------------
(* The calls under way, as a set.                                           *)

\* The calls that wait for the innermost one
RestCalls == {Rest[i] : i \in DOMAIN Rest}

\* The innermost call, done with n
Done(n) == [Top EXCEPT !.names = @ \ {n}]

(* The calls are the innermost one and those that wait for it.               *)
LEMMA CallsSplit ==
    ASSUME TypeOK, stack # <<>>
    PROVE  /\ Calls = {Top} \cup RestCalls
           /\ Top \in Frame /\ RestCalls \subseteq Frame
  <1>1. stack \in Seq(Frame)
    BY DEF TypeOK
  <1>2. PICK k \in Nat : k = Len(stack) - 1 /\ Len(stack) = k + 1
    BY <1>1
  <1>3. /\ Top = stack[1] /\ Top \in Frame
        /\ DOMAIN stack = 1..(k + 1) /\ DOMAIN Rest = 1..k
        /\ \A i \in 1..k : Rest[i] = stack[i + 1] /\ Rest[i] \in Frame
    BY <1>1, <1>2 DEF Top, Rest
  <1>4. RestCalls \subseteq Frame
    BY <1>3 DEF RestCalls
  <1>5. \A c \in RestCalls : c \in Calls
    BY <1>3 DEF RestCalls, Calls
  <1>6. \A c \in Calls : c = Top \/ c \in RestCalls
    <2>1. SUFFICES ASSUME NEW i \in 1..(k + 1) PROVE stack[i] = Top \/ stack[i] \in RestCalls
      BY <1>3 DEF Calls
    <2>2. CASE i = 1
      BY <1>3, <2>2
    <2>3. CASE i # 1
      <3>1. i - 1 \in 1..k /\ (i - 1) + 1 = i
        BY <2>3
      <3>2. Rest[i - 1] = stack[i]
        BY <1>3, <3>1
      <3>3. QED
        BY <1>3, <3>1, <3>2 DEF RestCalls
    <2>4. QED
      BY <2>2, <2>3
  <1>7. Top \in Calls
    BY <1>3 DEF Calls
  <1>8. QED
    BY <1>3, <1>4, <1>5, <1>6, <1>7

(* The calls after the innermost one made another, or became another one, or   *)
(* returned.                                                                *)
LEMMA CallsAfter ==
    ASSUME NEW s \in Seq(Frame), NEW f \in Frame, NEW S, S = {s[i] : i \in DOMAIN s}
    PROVE  /\ stack' = <<f>> \o s => Calls' = {f} \cup S
           /\ stack' = s => Calls' = S
  <1>1. ASSUME stack' = <<f>> \o s PROVE Calls' = {f} \cup S
    <2>1. /\ DOMAIN (<<f>> \o s) = 1..(Len(s) + 1) /\ DOMAIN s = 1..Len(s) /\ Len(s) \in Nat
          /\ (<<f>> \o s)[1] = f
          /\ \A i \in 1..Len(s) : (<<f>> \o s)[i + 1] = s[i]
      BY PushSeq
    <2> DEFINE t == <<f>> \o s
    <2>2. \A c \in S : \E i \in DOMAIN t : t[i] = c
      <3>1. SUFFICES ASSUME NEW i \in 1..Len(s) PROVE \E j \in DOMAIN t : t[j] = s[i]
        BY <2>1
      <3>2. i + 1 \in 1..(Len(s) + 1)
        BY <2>1
      <3>3. QED
        BY <2>1, <3>2
    <2>3. \A i \in DOMAIN t : t[i] = f \/ t[i] \in S
      <3>1. SUFFICES ASSUME NEW i \in 1..(Len(s) + 1), i # 1 PROVE t[i] \in S
        BY <2>1
      <3>2. i - 1 \in 1..Len(s) /\ (i - 1) + 1 = i
        BY <2>1, <3>1
      <3>3. t[i] = s[i - 1]
        BY <2>1, <3>2
      <3>4. QED
        BY <2>1, <3>2, <3>3
    <2>4. \E i \in DOMAIN t : t[i] = f
      BY <2>1
    <2> HIDE DEF t
    <2>5. Calls' = {t[i] : i \in DOMAIN t}
      BY <1>1 DEF Calls, t
    <2>6. QED
      BY <2>2, <2>3, <2>4, <2>5
  <1>2. ASSUME stack' = s PROVE Calls' = S
    BY <1>2 DEF Calls
  <1>3. QED
    BY <1>1, <1>2

(* What createINotifyWatch() makes of the calls.                             *)
LEMMA AddWatchCalls ==
    ASSUME TypeOK, AddWatch
    PROVE  LET d == Top.dir IN
           /\ Top \in Frame /\ d \in AllDirs /\ Top \in Calls /\ Top.stage = "watch" /\ RestCalls \subseteq Calls
           /\ IF disk[d]
              THEN Calls' = {Call(d, IF phase = "setup" THEN "list" ELSE "open")} \cup RestCalls
              ELSE Calls' = RestCalls
  <1>1. stack # <<>> /\ Top.stage = "watch"
    BY DEF AddWatch
  <1>2. Calls = {Top} \cup RestCalls /\ Top \in Frame
    BY <1>1, CallsSplit
  <1> DEFINE d == Top.dir
             f == Call(d, IF phase = "setup" THEN "list" ELSE "open")
  <1>3. d \in AllDirs
    BY <1>2 DEF Frame
  <1>4. f \in Frame
    BY <1>3 DEF Call, Frame
  <1>5. Rest \in Seq(Frame)
    BY <1>1, Frames
  <1>6. IF disk[d] THEN stack' = <<f>> \o Rest ELSE stack' = Rest
    BY DEF AddWatch
  <1> HIDE DEF f
  <1>7. IF disk[d] THEN Calls' = {f} \cup RestCalls ELSE Calls' = RestCalls
    BY <1>4, <1>5, <1>6, CallsAfter DEF RestCalls
  <1>8. QED
    BY <1>1, <1>2, <1>3, <1>7 DEF f

(* What is left of addExistingContent() when it is over.                     *)
LEMMA AfterListingCalls ==
    ASSUME TypeOK, stack # <<>>, stack' = AfterListing(Top.dir)
    PROVE  Calls' = (IF Top.dir \in Leaves THEN {} ELSE {Call(Top.dir, "open")}) \cup RestCalls
  <1>1. Top \in Frame /\ Rest \in Seq(Frame)
    BY Frames
  <1>2. Call(Top.dir, "open") \in Frame
    BY <1>1 DEF Call, Frame
  <1> DEFINE f == Call(Top.dir, "open")
  <1>3. IF Top.dir \in Leaves THEN stack' = Rest ELSE stack' = <<f>> \o Rest
    BY DEF AfterListing
  <1>4. f \in Frame
    BY <1>2
  <1> HIDE DEF f
  <1>5. stack' = Rest => Calls' = RestCalls
    BY <1>1, <1>4, CallsAfter DEF RestCalls
  <1>6. stack' = <<f>> \o Rest => Calls' = {f} \cup RestCalls
    BY <1>1, <1>4, CallsAfter DEF RestCalls
  <1>7. IF Top.dir \in Leaves THEN Calls' = RestCalls ELSE Calls' = {f} \cup RestCalls
    BY <1>3, <1>5, <1>6, Zenon
  <1>8. QED
    BY <1>7 DEF f

(* What opendir() and readdir() make of the calls.                           *)
LEMMA OpenDirectoryCalls ==
    ASSUME TypeOK, OpenDirectory
    PROVE  LET d == Top.dir IN
           /\ Top \in Frame /\ d \in AllDirs /\ Top \in Calls /\ RestCalls \subseteq Calls
           /\ Top.stage \in {"list", "open"}
           /\ IF Present(d)
              THEN Calls' = {[dir |-> d, stage |-> IF Top.stage = "list" THEN "remember" ELSE "walk",
                              names |-> {n \in Children(d) : disk[n]}]} \cup RestCalls
              ELSE Calls' = (IF Top.stage = "open" \/ d \in Leaves THEN {} ELSE {Call(d, "open")})
                                \cup RestCalls
  <1> DEFINE d == Top.dir
             f == [dir |-> d, stage |-> IF Top.stage = "list" THEN "remember" ELSE "walk",
                   names |-> {n \in Children(d) : disk[n]}]
  <1>1. /\ stack # <<>> /\ Top.stage \in {"list", "open"}
        /\ stack' = IF Present(d) THEN <<f>> \o Rest
                    ELSE IF Top.stage = "list" THEN AfterListing(d) ELSE Rest
    BY DEF OpenDirectory
  <1>2. Calls = {Top} \cup RestCalls /\ Top \in Frame /\ Rest \in Seq(Frame)
    BY <1>1, CallsSplit, Frames
  <1>3. d \in AllDirs
    BY <1>2 DEF Frame
  <1>4. f \in Frame
    BY <1>3 DEF Frame, Children
  <1> HIDE DEF f
  <1>5. CASE Present(d)
    <2>1. Calls' = {f} \cup RestCalls
      BY <1>1, <1>2, <1>4, <1>5, CallsAfter DEF RestCalls
    <2>2. QED
      BY <1>1, <1>2, <1>3, <1>5, <2>1 DEF f
  <1>6. CASE ~Present(d) /\ Top.stage = "list"
    BY <1>1, <1>2, <1>3, <1>6, AfterListingCalls
  <1>7. CASE ~Present(d) /\ Top.stage = "open"
    <2>1. Calls' = RestCalls
      BY <1>1, <1>2, <1>4, <1>7, CallsAfter DEF RestCalls
    <2>2. QED
      BY <1>1, <1>2, <1>3, <1>7, <2>1
  <1>8. QED
    BY <1>1, <1>5, <1>6, <1>7

(* The innermost call, done with one of its names, is a call.                *)
LEMMA DoneFrame ==
    ASSUME Top \in Frame, NEW n
    PROVE  /\ Done(n) \in Frame
           /\ Done(n).dir = Top.dir /\ Done(n).stage = Top.stage
           /\ Done(n).names = Top.names \ {n}
  BY DEF Done, Frame

(* The calls that go on to the next name.                                    *)
LEMMA AfterNameSet ==
    ASSUME TypeOK, stack # <<>>, NEW n
    PROVE  \E s \in Seq(Frame) :
              s = AfterName(n) /\ {s[i] : i \in DOMAIN s} = {Done(n)} \cup RestCalls
  <1>0. PICK s : s = AfterName(n)
    OBVIOUS
  <1>1. Top \in Frame /\ Rest \in Seq(Frame)
    BY Frames
  <1>2. Done(n) \in Frame
    BY <1>1, DoneFrame
  <1>3. s = <<Done(n)>> \o Rest
    BY <1>0 DEF AfterName, Done
  <1>4. s \in Seq(Frame)
    BY <1>1, <1>2, <1>3, PushSeq
  <1>5. /\ DOMAIN s = 1..(Len(Rest) + 1) /\ DOMAIN Rest = 1..Len(Rest) /\ Len(Rest) \in Nat
        /\ s[1] = Done(n)
        /\ \A i \in 1..Len(Rest) : s[i + 1] = Rest[i]
    BY <1>1, <1>2, <1>3, PushSeq
  <1>6. \A i \in DOMAIN s : s[i] \in {Done(n)} \cup RestCalls
    <2>1. SUFFICES ASSUME NEW i \in DOMAIN s, i # 1 PROVE s[i] \in RestCalls
      BY <1>5
    <2>2. i - 1 \in 1..Len(Rest) /\ (i - 1) + 1 = i
      BY <1>5, <2>1
    <2>3. s[i] = Rest[i - 1]
      BY <1>5, <2>2
    <2>4. QED
      BY <1>5, <2>2, <2>3 DEF RestCalls
  <1>7. \A c \in RestCalls : \E i \in DOMAIN s : s[i] = c
    <2>1. SUFFICES ASSUME NEW i \in 1..Len(Rest) PROVE \E j \in DOMAIN s : s[j] = Rest[i]
      BY <1>5 DEF RestCalls
    <2>2. i + 1 \in DOMAIN s
      BY <1>5
    <2>3. QED
      BY <1>5, <2>2
  <1>8. \E i \in DOMAIN s : s[i] = Done(n)
    BY <1>5
  <1>9. {s[i] : i \in DOMAIN s} = {Done(n)} \cup RestCalls
    BY <1>6, <1>7, <1>8
  <1>10. QED
    BY <1>0, <1>4, <1>9

(* Going on to the next name, after making another call or not.               *)
LEMMA AfterNameCalls ==
    ASSUME TypeOK, stack # <<>>, NEW n, NEW g \in Frame
    PROVE  /\ stack' = AfterName(n) => Calls' = {Done(n)} \cup RestCalls
           /\ stack' = <<g>> \o AfterName(n) => Calls' = {g, Done(n)} \cup RestCalls
  <1>1. PICK s \in Seq(Frame) :
           s = AfterName(n) /\ {s[i] : i \in DOMAIN s} = {Done(n)} \cup RestCalls
    BY AfterNameSet
  <1>3. stack' = s => Calls' = {Done(n)} \cup RestCalls
    BY <1>1, CallsAfter
  <1>4. stack' = <<g>> \o s => Calls' = {g} \cup ({Done(n)} \cup RestCalls)
    BY <1>1, CallsAfter
  <1>5. QED
    BY <1>1, <1>3, <1>4

(* What goes on to the next name, and what the call made of it.              *)
LEMMA WalkCalls ==
    ASSUME TypeOK, stack # <<>>, NEW n
    PROVE  /\ Calls = {Top} \cup RestCalls
           /\ Top \in Frame /\ RestCalls \subseteq Frame /\ Done(n) \in Frame
           /\ Done(n).dir = Top.dir /\ Done(n).stage = Top.stage /\ Done(n).names = Top.names \ {n}
           /\ stack' = AfterName(n) => Calls' = {Done(n)} \cup RestCalls
           /\ \A g \in Frame : stack' = <<g>> \o AfterName(n) => Calls' = {g, Done(n)} \cup RestCalls
  <1>1. Calls = {Top} \cup RestCalls /\ Top \in Frame /\ RestCalls \subseteq Frame
    BY CallsSplit
  <1>2. /\ Done(n) \in Frame
        /\ Done(n).dir = Top.dir /\ Done(n).stage = Top.stage /\ Done(n).names = Top.names \ {n}
    BY <1>1, DoneFrame
  <1>3. QED
    BY <1>1, <1>2, AfterNameCalls

(* The innermost call is over.                                               *)
LEMMA EndNamesCalls ==
    ASSUME TypeOK, EndNames
    PROVE  /\ Calls = {Top} \cup RestCalls
           /\ Top \in Frame /\ RestCalls \subseteq Frame
           /\ Top.stage \in {"remember", "walk"} /\ Top.names = {}
           /\ IF Top.stage = "walk" \/ Top.dir \in Leaves
              THEN Calls' = RestCalls
              ELSE Calls' = {Call(Top.dir, "open")} \cup RestCalls
  <1>1. /\ stack # <<>> /\ Top.stage \in {"remember", "walk"} /\ Top.names = {}
        /\ stack' = IF Top.stage = "remember" THEN AfterListing(Top.dir) ELSE Rest
    BY DEF EndNames
  <1>2. Calls = {Top} \cup RestCalls /\ Top \in Frame /\ RestCalls \subseteq Frame
    BY <1>1, CallsSplit
  <1>3. Rest \in Seq(Frame)
    BY <1>1, Frames
  <1>4. CASE Top.stage = "remember"
    <2>1. Calls' = (IF Top.dir \in Leaves THEN {} ELSE {Call(Top.dir, "open")}) \cup RestCalls
      BY <1>1, <1>4, AfterListingCalls
    <2>2. QED
      BY <1>1, <1>2, <1>4, <2>1
  <1>5. CASE Top.stage = "walk"
    <2>1. Calls' = RestCalls
      BY <1>1, <1>2, <1>3, <1>5, CallsAfter DEF RestCalls
    <2>2. QED
      BY <1>1, <1>2, <1>5, <2>1
  <1>6. QED
    BY <1>1, <1>4, <1>5

-----------------------------------------------------------------------------
(* What a step that handles an event or a found name leaves of the results.   *)

(* A key tells its name.                                                    *)
LEMMA KeysApart ==
    /\ \A m \in Nodes : KeyOf(m)[1] = m
    /\ \A m, n \in Nodes : m # n => KeyOf(m) # KeyOf(n)
  <1>1. ASSUME NEW m \in Nodes, NEW b, b = (m \in Dirs) PROVE <<m, b>>[1] = m
    OBVIOUS
  <1>2. \A m \in Nodes : KeyOf(m)[1] = m
    <2>1. SUFFICES ASSUME NEW m \in Nodes PROVE KeyOf(m)[1] = m
      OBVIOUS
    <2>2. PICK b : b = (m \in Dirs)
      OBVIOUS
    <2>3. KeyOf(m) = <<m, b>>
      BY <2>2, Zenon DEF KeyOf
    <2>4. QED
      BY <2>3
  <1>3. QED
    BY <1>2

(* Only the result of the name at hand changes, and it is not flagged unless   *)
(* the model is.                                                            *)
LEMMA ResultSet ==
    ASSUME TypeOK, FlagInv, NEW n \in Nodes, NEW new \in WatchedResult,
           NEW r, r = results[KeyOf(n)],
           results' = [results EXCEPT ![KeyOf(n)] = new],
           hasInconsistencies' = (hasInconsistencies \/ (new.inconsistent /\ ~r.inconsistent))
    PROVE  /\ results'[KeyOf(n)] = new
           /\ \A m \in Nodes : m # n => results'[KeyOf(m)] = results[KeyOf(m)]
           /\ FlagInv'
           /\ hasInconsistencies => hasInconsistencies'
           /\ ~hasInconsistencies' => ~new.inconsistent
  <1> DEFINE k == KeyOf(n)
  <1>1. k \in Keys
    BY KeyOfKey
  <1>2. results \in [Keys -> WatchedResult] /\ results' = [results EXCEPT ![k] = new]
    BY DEF TypeOK
  <1>3. \A m \in Nodes : m # n => KeyOf(m) # k /\ KeyOf(m) \in Keys
    BY KeysApart, KeyOfKey
  <1>4. r.inconsistent => hasInconsistencies
    BY <1>1 DEF FlagInv
  <1> HIDE DEF k
  <1>5. /\ ~hasInconsistencies' => ~new.inconsistent
        /\ hasInconsistencies => hasInconsistencies'
    BY <1>4
  <1>6. FlagInv'
    <2>1. SUFFICES ASSUME NEW key \in Keys, results'[key].inconsistent PROVE hasInconsistencies'
      BY DEF FlagInv
    <2>2. CASE key = k
      BY <1>1, <1>2, <1>5, <2>1, <2>2
    <2>3. CASE key # k
      <3>1. results[key].inconsistent
        BY <1>2, <2>1, <2>3
      <3>2. QED
        BY <1>5, <3>1 DEF FlagInv
    <2>4. QED
      BY <2>2, <2>3
  <1>7. results'[k] = new
    BY <1>1, <1>2
  <1>8. \A m \in Nodes : m # n => results'[KeyOf(m)] = results[KeyOf(m)]
    BY <1>2, <1>3
  <1>9. QED
    BY <1>5, <1>6, <1>7, <1>8 DEF k

(* Record() also forgets that the name was there when its directory was       *)
(* listed.                                                                  *)
LEMMA Recorded ==
    ASSUME TypeOK, FlagInv, NEW n \in Nodes, NEW new \in WatchedResult, NEW emits,
           NEW r, r = results[KeyOf(n)],
           Record(KeyOf(n), r, new, emits)
    PROVE  /\ results'[KeyOf(n)] = new
           /\ \A m \in Nodes : m # n => results'[KeyOf(m)] = results[KeyOf(m)]
           /\ \A m \in Nodes : m # n => (m \in existing' <=> m \in existing)
           /\ existing' \subseteq existing
           /\ FlagInv'
           /\ hasInconsistencies => hasInconsistencies'
           /\ ~hasInconsistencies' => ~new.inconsistent
  <1>1. KeyOf(n)[1] = n
    BY KeysApart
  <1>2. /\ results' = [results EXCEPT ![KeyOf(n)] = new]
        /\ existing' = existing \/ existing' = existing \ {n}
        /\ hasInconsistencies' = (hasInconsistencies \/ (new.inconsistent /\ ~r.inconsistent))
    BY <1>1 DEF Record
  <1>3. existing' \subseteq existing /\ \A m \in Nodes : m # n => (m \in existing' <=> m \in existing)
    BY <1>2
  <1>4. QED
    BY <1>2, <1>3, ResultSet

(* A result that no name has is recorded for a directory that vanished.       *)
LEMMA PhantomRecorded ==
    ASSUME TypeOK, FlagInv, NEW n \in Dirs, NEW new \in WatchedResult, NEW emits,
           NEW k, k = <<n, FALSE>>, NEW r, r = results[k],
           Record(k, r, new, emits)
    PROVE  /\ \A m \in Nodes : results'[KeyOf(m)] = results[KeyOf(m)]
           /\ existing' = existing
           /\ FlagInv'
           /\ hasInconsistencies => hasInconsistencies'
  <1>1. k \in Keys /\ k[1] = n
    BY DEF Keys, Nodes
  <1>2. results \in [Keys -> WatchedResult]
    BY DEF TypeOK
  <1>3. KeyOf(n) # k
    BY KeysDiffer DEF Nodes
  <1>4. \A m \in Nodes : KeyOf(m) # k /\ KeyOf(m) \in Keys
    <2>1. SUFFICES ASSUME NEW m \in Nodes PROVE KeyOf(m) # k
      BY KeyOfKey
    <2>2. CASE m = n
      BY <1>3, <2>2
    <2>3. CASE m # n
      BY <1>1, <2>3, KeysApart
    <2>4. QED
      BY <2>2, <2>3
  <1>5. /\ results' = [results EXCEPT ![k] = new]
        /\ existing' = existing
        /\ hasInconsistencies' = (hasInconsistencies \/ (new.inconsistent /\ ~r.inconsistent))
    BY <1>1, <1>3 DEF Record
  <1>6. r.inconsistent => hasInconsistencies
    BY <1>1 DEF FlagInv
  <1>7. FlagInv'
    <2>1. SUFFICES ASSUME NEW key \in Keys, results'[key].inconsistent PROVE hasInconsistencies'
      BY DEF FlagInv
    <2>2. CASE key = k
      BY <1>1, <1>2, <1>5, <1>6, <2>1, <2>2
    <2>3. CASE key # k
      <3>1. results[key].inconsistent
        BY <1>2, <1>5, <2>1, <2>3
      <3>2. QED
        BY <1>5, <3>1 DEF FlagInv
    <2>4. QED
      BY <2>2, <2>3
  <1>8. \A m \in Nodes : results'[KeyOf(m)] = results[KeyOf(m)]
    BY <1>2, <1>4, <1>5
  <1>9. QED
    BY <1>5, <1>7, <1>8

-----------------------------------------------------------------------------
(* What a change on the disk does to the queue.                               *)

(* A change in a watched directory puts an event at the end of the queue, or   *)
(* finds the same event there; or it is lost.                                *)
LEMMA Posted ==
    ASSUME TypeOK, NEW n \in Nodes, NEW act \in Action, Notify(n, act),
           NEW w, w = kernelWd[Parent[n]]
    PROVE  /\ lost => lost'
           /\ \/ queue' = queue /\ (w = 0 \/ lost')
              \/ /\ w # 0
                 /\ \E k \in DOMAIN queue' :
                       /\ queue'[k] = [wd |-> w, name |-> n, act |-> act]
                       /\ \A i \in DOMAIN queue' : i <= k /\ (i = k \/ i \in DOMAIN queue)
                       /\ \A i \in DOMAIN queue : i \in DOMAIN queue' /\ queue'[i] = queue[i]
  <1> DEFINE e == [wd |-> w, name |-> n, act |-> act]
             merged == Len(queue) > 0 /\ queue[Len(queue)] = e
             full == Len(queue) >= MaxQueue
  <1>1. /\ queue' = IF w = 0 \/ merged \/ full THEN queue ELSE Append(queue, e)
        /\ lost' = (lost \/ (w # 0 /\ ~merged /\ full))
    BY DEF Notify
  <1>2. e \in Event /\ queue \in Seq(Event)
    BY ParentAssumption DEF Event, TypeOK, AllDirs
  <1>3. PICK k \in Nat : k = Len(queue) /\ DOMAIN queue = 1..k
    BY <1>2
  <1>4. merged => k \in DOMAIN queue /\ queue[k] = e
    BY <1>3
  <1> HIDE DEF e, full
  <1>5. lost => lost'
    BY <1>1
  <1>6. CASE w = 0 \/ (~merged /\ full)
    BY <1>1, <1>6
  <1>7. CASE w # 0 /\ merged
    <2>1. queue' = queue
      BY <1>1, <1>7
    <2>2. \A i \in DOMAIN queue : i <= k
      BY <1>3
    <2>3. QED
      BY <1>4, <1>5, <1>7, <2>1, <2>2 DEF e
  <1>8. CASE w # 0 /\ ~merged /\ ~full
    <2>1. queue' = Append(queue, e)
      BY <1>1, <1>8
    <2>2. DOMAIN queue' = 1..(k + 1) /\ queue'[k + 1] = e /\ \A i \in 1..k : queue'[i] = queue[i]
      BY <1>2, <1>3, <2>1
    <2>3. \A i \in 1..(k + 1) : i <= k + 1 /\ (i = k + 1 \/ i \in 1..k)
      OBVIOUS
    <2>4. k + 1 \in 1..(k + 1) /\ \A i \in 1..k : i \in 1..(k + 1)
      OBVIOUS
    <2>5. QED
      BY <1>3, <1>5, <1>8, <2>2, <2>3, <2>4 DEF e
  <1>9. QED
    BY <1>6, <1>7, <1>8

(* What another process does to the name n.                                   *)
Alters(n, act) ==
    /\ Notify(n, act)
    /\ disk' = [disk EXCEPT ![n] = (act # "delete")]
    /\ disk[n] <=> act # "create"
    /\ act = "create" => Present(Parent[n])
    /\ act = "create" /\ Queued(n) /\ n \in Dirs => hasty'
    /\ act = "delete" /\ n \in Dirs => \A c \in Children(n) : ~disk[c]
    /\ kernelWd' = IF n \in Dirs /\ act = "delete" THEN [kernelWd EXCEPT ![n] = 0] ELSE kernelWd

LEMMA EnvironmentAlters ==
    ASSUME TypeOK, Environment
    PROVE  /\ \E n \in Nodes, act \in Action : Alters(n, act)
           /\ hasty => hasty'
           /\ UNCHANGED <<lastWd, phase, stack, atStart, toWatch, wd, existing, results,
                          hasInconsistencies, shown>>
  <1>1. UNCHANGED <<lastWd, phase, stack, atStart, toWatch, wd, existing, results,
                    hasInconsistencies, shown>>
    BY EnvironmentShape
  <1>2. disk \in [Nodes -> BOOLEAN]
    BY DEF TypeOK
  <1>3. ASSUME NEW d \in Dirs, MakeDir(d) \/ RemoveDir(d) \/ ChangeMode(d)
        PROVE  (\E n \in Nodes, act \in Action : Alters(n, act)) /\ (hasty => hasty')
    <2>1. d \in Nodes /\ {"create", "delete", "attrib"} \subseteq Action
      BY DEF Nodes, Action
    <2>2. CASE MakeDir(d)
      <3>1. Alters(d, "create")
        BY <2>1, <2>2 DEF MakeDir, Change, Alters
      <3>2. hasty => hasty'
        BY <2>2 DEF MakeDir
      <3>3. QED
        BY <2>1, <3>1, <3>2
    <2>3. CASE RemoveDir(d)
      <3>1. Alters(d, "delete")
        BY <2>1, <2>3 DEF RemoveDir, Change, Alters
      <3>2. QED
        BY <2>1, <2>3, <3>1 DEF RemoveDir
    <2>4. CASE ChangeMode(d)
      <3>1. disk' = [disk EXCEPT ![d] = TRUE]
        BY <1>2, <2>1, <2>4 DEF ChangeMode
      <3>2. Alters(d, "attrib")
        BY <2>1, <2>4, <3>1 DEF ChangeMode, Change, Alters
      <3>3. QED
        BY <2>1, <2>4, <3>2 DEF ChangeMode
    <2>5. QED
      BY <1>3, <2>2, <2>3, <2>4
  <1>4. ASSUME NEW f \in Files, CreateFile(f) \/ DeleteFile(f)
        PROVE  (\E n \in Nodes, act \in Action : Alters(n, act)) /\ (hasty => hasty')
    <2>1. f \in Nodes /\ f \notin Dirs /\ {"create", "delete"} \subseteq Action
      BY KindsAssumption DEF Nodes, Action
    <2>2. CASE CreateFile(f)
      <3>1. Alters(f, "create")
        BY <2>1, <2>2 DEF CreateFile, Change, Alters
      <3>2. QED
        BY <2>1, <2>2, <3>1 DEF CreateFile
    <2>3. CASE DeleteFile(f)
      <3>1. Alters(f, "delete")
        BY <2>1, <2>3 DEF DeleteFile, Change, Alters
      <3>2. QED
        BY <2>1, <2>3, <3>1 DEF DeleteFile
    <2>4. QED
      BY <1>4, <2>2, <2>3
  <1>5. QED
    BY <1>1, <1>3, <1>4 DEF Environment

-----------------------------------------------------------------------------
(* While all is calm a ToWatchDir's watch is the one on its directory.        *)

(* Every parent is a directory of the model.                                  *)
LEMMA ParentDir == \A n \in Nodes : Parent[n] \in AllDirs
  BY ParentAssumption DEF AllDirs

(* The watch of a directory that is there is not a stale one.                 *)
LEMMA WatchIsCurrent ==
    ASSUME CalmInv, Calm, NEW p \in AllDirs, wd[p] # 0, Present(p)
    PROVE  kernelWd[p] = wd[p]
  <1>1. kernelWd[p] # 0 => kernelWd[p] = wd[p]
    BY DEF CalmInv, WatchInv, AssertionsHold
  <1>2. CASE p = Base
    BY <1>1, <1>2 DEF CalmInv, DiskInv
  <1>3. CASE p \in Dirs
    <2>1. SUFFICES ASSUME kernelWd[p] = 0 PROVE FALSE
      BY <1>1
    <2>2. PICK i \in DOMAIN queue : Matched(i, p) /\ queue[i].act = "delete"
      BY <1>3, <2>1 DEF CalmInv, StaleInv
    <2>3. ~disk[p]
      BY <1>3, <2>2 DEF CalmInv, RemovalInv, Matched
    <2>4. QED
      BY <1>3, <2>3 DEF Present
  <1>4. QED
    BY <1>2, <1>3 DEF AllDirs

(* What changes in a directory is told of while the directory has a ToWatchDir *)
(* that watches it, and only then.                                           *)
LEMMA CalmChange ==
    ASSUME CalmInv, Calm, Calm', NEW n \in Nodes, NEW act \in Action, Alters(n, act),
           NEW p, p = Parent[n]
    PROVE  /\ Present(p)
           /\ \/ wd[p] = 0 /\ kernelWd[p] = 0 /\ queue' = queue
              \/ /\ wd[p] # 0 /\ kernelWd[p] = wd[p]
                 /\ \E k \in DOMAIN queue' :
                       /\ queue'[k] = [wd |-> wd[p], name |-> n, act |-> act]
                       /\ \A i \in DOMAIN queue' : i <= k /\ (i = k \/ i \in DOMAIN queue)
                       /\ \A i \in DOMAIN queue : i \in DOMAIN queue' /\ queue'[i] = queue[i]
  <1>1. p \in AllDirs
    BY ParentDir
  <1>2. TypeOK
    BY DEF CalmInv, WatchInv
  <1>3. Present(p)
    <2>1. CASE act = "create"
      BY <2>1 DEF Alters
    <2>2. CASE act # "create"
      BY <2>2 DEF Alters, CalmInv, DiskInv
    <2>3. QED
      BY <2>1, <2>2
  <1>4. wd[p] # 0 => kernelWd[p] = wd[p]
    BY <1>1, <1>3, WatchIsCurrent
  <1>5. kernelWd[p] # 0 => kernelWd[p] = wd[p]
    BY <1>1 DEF CalmInv, WatchInv, AssertionsHold
  <1>6. Notify(n, act) /\ ~lost'
    BY DEF Alters, Calm
  <1>7. \/ queue' = queue /\ kernelWd[p] = 0
        \/ /\ kernelWd[p] # 0
           /\ \E k \in DOMAIN queue' :
                 /\ queue'[k] = [wd |-> kernelWd[p], name |-> n, act |-> act]
                 /\ \A i \in DOMAIN queue' : i <= k /\ (i = k \/ i \in DOMAIN queue)
                 /\ \A i \in DOMAIN queue : i \in DOMAIN queue' /\ queue'[i] = queue[i]
    BY <1>2, <1>6, Posted
  <1>8. QED
    BY <1>3, <1>4, <1>5, <1>7

(* A change keeps what is known of the tree and of the watches.               *)
LEMMA EnvironmentCalm ==
    ASSUME CalmInv, WatchInv', Environment PROVE CalmInv'
  <1>1. PICK n \in Nodes, act \in Action : Alters(n, act)
    BY EnvironmentAlters DEF CalmInv, WatchInv
  <1>2. /\ hasty => hasty'
        /\ UNCHANGED <<lastWd, phase, stack, atStart, toWatch, wd, existing, results,
                       hasInconsistencies, shown>>
    BY EnvironmentAlters DEF CalmInv, WatchInv
  <1>3. TypeOK
    BY DEF CalmInv, WatchInv
  <1>4. lost => lost'
    BY <1>1, <1>3, Posted DEF Alters
  <1> DEFINE p == Parent[n]
  <1>5. p \in AllDirs /\ Base \notin Nodes /\ Base \notin Dirs /\ Dirs \subseteq Nodes
    BY ParentDir, KindsAssumption DEF Nodes
  <1>6. disk'[n] = (act # "delete") /\ \A m \in Nodes : m # n => disk'[m] = disk[m]
    BY <1>1, <1>3 DEF Alters, TypeOK
  <1>7. /\ kernelWd'[n] # 0 /\ n \in Dirs => act # "delete"
        /\ \A d \in AllDirs : d # n => kernelWd'[d] = kernelWd[d]
        /\ \A d \in AllDirs : kernelWd'[d] # 0 => kernelWd'[d] = kernelWd[d]
        /\ act # "delete" => kernelWd' = kernelWd
    BY <1>1, <1>3, <1>5 DEF Alters, TypeOK, AllDirs
  <1>8. DiskInv'
    <2>1. \A m \in Nodes : disk'[m] => Present(Parent[m])'
      <3>1. SUFFICES ASSUME NEW m \in Nodes, disk'[m], Parent[m] \in Dirs PROVE disk'[Parent[m]]
        BY DEF Present
      <3>2. CASE m = n /\ act = "create"
        <4>1. disk[Parent[m]] /\ ~disk[m]
          BY <1>1, <3>1, <3>2 DEF Alters, Present
        <4>2. Parent[m] # n /\ Parent[m] \in Nodes
          BY <1>5, <3>1, <3>2, <4>1
        <4>3. QED
          BY <1>6, <4>1, <4>2
      <3>3. CASE m # n \/ act # "create"
        <4>1. disk[m]
          BY <1>1, <1>6, <3>1, <3>3 DEF Alters
        <4>2. disk[Parent[m]]
          BY <3>1, <4>1 DEF CalmInv, DiskInv, Present
        <4>3. CASE Parent[m] = n
          <5>1. act # "delete"
            BY <1>1, <3>1, <4>1, <4>3 DEF Alters, Children
          <5>2. QED
            BY <1>6, <4>3, <5>1
        <4>4. CASE Parent[m] # n
          BY <1>5, <1>6, <3>1, <4>2, <4>4
        <4>5. QED
          BY <4>3, <4>4
      <3>4. QED
        BY <3>2, <3>3
    <2>2. \A d \in Dirs : kernelWd'[d] # 0 => disk'[d]
      <3>1. SUFFICES ASSUME NEW d \in Dirs, kernelWd'[d] # 0 PROVE disk'[d]
        OBVIOUS
      <3>2. disk[d]
        BY <1>7, <3>1 DEF CalmInv, DiskInv, AllDirs
      <3>3. CASE d = n
        BY <1>6, <1>7, <3>1, <3>3
      <3>4. CASE d # n
        BY <1>5, <1>6, <3>2, <3>4
      <3>5. QED
        BY <3>3, <3>4
    <2>3. kernelWd'[Base] # 0
      BY <1>5, <1>7 DEF CalmInv, DiskInv, AllDirs
    <2>4. QED
      BY <2>1, <2>2, <2>3 DEF DiskInv
  <1>9. DescriptorInv'
    <2>1. \A i \in DOMAIN queue' : queue'[i].wd # 0 /\ queue'[i].wd <= lastWd
      <3>1. CASE queue' = queue
        BY <3>1 DEF CalmInv, DescriptorInv
      <3>2. CASE queue' # queue
        <4>1. kernelWd[p] # 0
          BY <1>1, <1>3, <3>2, Posted DEF Alters
        <4>2. kernelWd[p] <= lastWd
          BY <1>5, <4>1 DEF CalmInv, DescriptorInv, WatchInv, AssertionsHold
        <4>3. PICK k \in DOMAIN queue' :
                 /\ queue'[k] = [wd |-> kernelWd[p], name |-> n, act |-> act]
                 /\ \A i \in DOMAIN queue' : i <= k /\ (i = k \/ i \in DOMAIN queue)
                 /\ \A i \in DOMAIN queue : i \in DOMAIN queue' /\ queue'[i] = queue[i]
          BY <1>1, <1>3, <3>2, Posted DEF Alters
        <4>4. queue'[k].wd = kernelWd[p]
          BY <4>3
        <4>5. QED
          BY <4>1, <4>2, <4>3, <4>4 DEF CalmInv, DescriptorInv
      <3>3. QED
        BY <3>1, <3>2
    <2>2. QED
      BY <1>2, <2>1 DEF CalmInv, DescriptorInv
  <1>10. NamesInv' /\ FlagInv'
    BY <1>2 DEF CalmInv, NamesInv, FlagInv, Calls
  <1>11. ASSUME Calm' PROVE RemovalInv' /\ StaleInv' /\ OrderInv' /\ ParentsInv'
    <2>1. Calm
      BY <1>2, <1>4, <1>11 DEF Calm
    <2>2. RemovalInv /\ StaleInv /\ OrderInv /\ ParentsInv
      BY <2>1 DEF CalmInv
    <2>3. /\ Present(p)
          /\ \/ wd[p] = 0 /\ kernelWd[p] = 0 /\ queue' = queue
             \/ /\ wd[p] # 0 /\ kernelWd[p] = wd[p]
                /\ \E k \in DOMAIN queue' :
                      /\ queue'[k] = [wd |-> wd[p], name |-> n, act |-> act]
                      /\ \A i \in DOMAIN queue' : i <= k /\ (i = k \/ i \in DOMAIN queue)
                      /\ \A i \in DOMAIN queue : i \in DOMAIN queue' /\ queue'[i] = queue[i]
      BY <1>1, <1>11, <2>1, CalmChange
    <2> HIDE DEF p
    <2>4. ParentsInv'
      BY <1>2, <2>2 DEF ParentsInv, Calls
    <2>5. \A i \in DOMAIN queue : i \in DOMAIN queue' /\ queue'[i] = queue[i]
      BY <2>3
    <2>6. \A i \in DOMAIN queue' :
             \/ i \in DOMAIN queue /\ queue'[i] = queue[i]
             \/ /\ queue'[i] = [wd |-> wd[p], name |-> n, act |-> act]
                /\ wd[p] # 0 /\ kernelWd[p] = wd[p]
                /\ \A j \in DOMAIN queue' : j <= i
      BY <2>3
    <2>7. DOMAIN queue' \subseteq Nat
      BY DEF WatchInv, TypeOK
    <2>8. RemovalInv'
      <3>1. SUFFICES ASSUME NEW i \in DOMAIN queue', queue'[i].name \in Dirs, queue'[i].act = "delete"
                     PROVE  ~disk'[queue'[i].name]
        BY DEF RemovalInv
      <3>2. CASE i \in DOMAIN queue /\ queue'[i] = queue[i]
        <4>1. ~disk[queue[i].name]
          BY <2>2, <3>1, <3>2 DEF RemovalInv
        <4>2. CASE queue[i].name = n
          <5>1. Queued(n) /\ n \in Dirs
            BY <3>1, <3>2, <4>2 DEF Queued
          <5>2. act # "create"
            BY <1>1, <1>11, <5>1 DEF Alters, Calm
          <5>3. QED
            BY <1>1, <4>1, <4>2, <5>2 DEF Alters
        <4>3. CASE queue[i].name # n
          BY <1>5, <1>6, <3>1, <3>2, <4>1, <4>3
        <4>4. QED
          BY <4>2, <4>3
      <3>3. CASE queue'[i] = [wd |-> wd[p], name |-> n, act |-> act]
        <4>1. queue'[i].name = n /\ act = "delete"
          BY <3>1, <3>3
        <4>2. QED
          BY <1>6, <4>1
      <3>4. QED
        BY <2>6, <3>2, <3>3
    <2>9. StaleInv'
      <3>1. SUFFICES ASSUME NEW d \in Dirs, wd[d] # 0, kernelWd'[d] = 0
                     PROVE  \E i \in DOMAIN queue' : Matched(i, d)' /\ queue'[i].act = "delete"
        BY <1>2 DEF StaleInv
      <3>2. CASE kernelWd[d] = 0
        <4>1. PICK i \in DOMAIN queue : Matched(i, d) /\ queue[i].act = "delete"
          BY <2>2, <3>1, <3>2 DEF StaleInv
        <4>2. i \in DOMAIN queue' /\ queue'[i] = queue[i]
          BY <2>5
        <4>3. QED
          BY <1>2, <4>1, <4>2 DEF Matched
      <3>3. CASE kernelWd[d] # 0
        <4>1. d = n /\ act = "delete"
          BY <1>7, <3>1, <3>3 DEF AllDirs
        <4>2. wd[p] # 0
          BY <2>2, <3>1, <4>1 DEF ParentsInv, p
        <4>3. PICK k \in DOMAIN queue' : queue'[k] = [wd |-> wd[p], name |-> n, act |-> act]
          BY <2>3, <4>2
        <4>4. Matched(k, d)' /\ queue'[k].act = "delete"
          BY <1>2, <4>1, <4>3 DEF Matched, p
        <4>5. QED
          BY <4>4
      <3>4. QED
        BY <3>2, <3>3
    <2>10. OrderInv'
      <3>1. SUFFICES ASSUME NEW i \in DOMAIN queue', NEW j \in DOMAIN queue', NEW d \in Dirs,
                            d = queue'[i].name, queue'[i].act = "delete",
                            Parent[queue'[j].name] = d, queue'[j].wd = wd[d]
                     PROVE  j < i
        BY <1>2 DEF OrderInv
      <3>2. CASE queue'[j] = [wd |-> wd[p], name |-> n, act |-> act] /\ wd[p] # 0 /\ kernelWd[p] = wd[p]
        <4>1. d = p
          BY <3>1, <3>2 DEF p
        <4>2. disk[d]
          BY <3>2, <4>1 DEF CalmInv, DiskInv
        <4>3. CASE i \in DOMAIN queue /\ queue'[i] = queue[i]
          BY <2>2, <3>1, <4>2, <4>3 DEF RemovalInv
        <4>4. CASE queue'[i] = [wd |-> wd[p], name |-> n, act |-> act]
          <5>1. d = n /\ act = "delete"
            BY <3>1, <4>4
          <5>2. n \in Children(d) /\ ~disk[n]
            BY <1>1, <4>1, <5>1 DEF Alters, Children, p
          <5>3. QED
            BY <4>2, <5>1, <5>2
        <4>5. QED
          BY <2>6, <4>3, <4>4
      <3>3. CASE j \in DOMAIN queue /\ queue'[j] = queue[j]
        <4>1. CASE i \in DOMAIN queue /\ queue'[i] = queue[i]
          BY <2>2, <3>1, <3>3, <4>1 DEF OrderInv
        <4>2. CASE ~(i \in DOMAIN queue /\ queue'[i] = queue[i])
          <5>1. j <= i /\ i # j
            BY <2>6, <3>3, <4>2
          <5>2. QED
            BY <2>7, <5>1
        <4>3. QED
          BY <4>1, <4>2
      <3>4. QED
        BY <2>6, <3>2, <3>3
    <2>11. QED
      BY <2>4, <2>8, <2>9, <2>10
  <1>12. QED
    BY <1>8, <1>9, <1>10, <1>11 DEF CalmInv

-----------------------------------------------------------------------------
(* A listing keeps what is known of the tree and of the watches.              *)

(* A descriptor that is new is not in the queue.                              *)
LEMMA AddWatchShape ==
    ASSUME CalmInv, AddWatch
    PROVE  /\ Top.dir \in Dirs /\ wd[Top.dir] = 0 /\ kernelWd[Top.dir] = 0
           /\ UNCHANGED <<queue, lost, toWatch, phase, disk, makes, hasty, existing, results,
                          hasInconsistencies, shown>>
           /\ \A n \in Nodes : \A i \in DOMAIN queue : Matched(i, n)' <=> Matched(i, n)
           /\ \A d \in AllDirs : d # Top.dir => wd'[d] = wd[d] /\ kernelWd'[d] = kernelWd[d]
           /\ IF disk[Top.dir] THEN wd'[Top.dir] = lastWd + 1 /\ kernelWd'[Top.dir] = lastWd + 1
                                    /\ lastWd' = lastWd + 1
                               ELSE UNCHANGED <<wd, kernelWd, lastWd>>
  <1> DEFINE d == Top.dir
  <1>1. /\ stack # <<>> /\ Top.stage = "watch"
        /\ IF disk[d]
           THEN /\ lastWd' = lastWd + 1
                /\ kernelWd' = [kernelWd EXCEPT ![d] = lastWd + 1]
                /\ wd' = [wd EXCEPT ![d] = lastWd + 1]
           ELSE UNCHANGED <<lastWd, kernelWd, wd>>
        /\ UNCHANGED <<queue, lost, toWatch, phase, disk, makes, hasty, existing, results,
                       hasInconsistencies, shown>>
    BY DEF AddWatch, files, model
  <1>2. TypeOK /\ AssertionsHold
    BY DEF CalmInv, WatchInv
  <1>3. Top \in Frame /\ 1 \in DOMAIN stack /\ Top = stack[1]
    BY <1>1, <1>2, Frames
  <1>4. d \in AllDirs /\ wd[d] = 0 /\ kernelWd[d] = 0
    BY <1>1, <1>2, <1>3 DEF AssertionsHold, Frame
  <1>5. d \in Dirs
    BY <1>4 DEF CalmInv, DiskInv, AllDirs
  <1> HIDE DEF d
  <1>6. /\ \A x \in AllDirs : x # d => wd'[x] = wd[x] /\ kernelWd'[x] = kernelWd[x]
        /\ IF disk[d] THEN wd'[d] = lastWd + 1 /\ kernelWd'[d] = lastWd + 1
                           /\ lastWd' = lastWd + 1
                      ELSE UNCHANGED <<wd, kernelWd, lastWd>>
    <2>1. wd \in [AllDirs -> Nat] /\ kernelWd \in [AllDirs -> Nat]
      BY <1>2 DEF TypeOK
    <2>2. QED
      BY <1>1, <1>4, <2>1
  <1>7. ASSUME NEW n \in Nodes, NEW i \in DOMAIN queue
        PROVE  Matched(i, n)' <=> Matched(i, n)
    <2>1. CASE Parent[n] # d
      BY <1>1, <1>6, <2>1, ParentDir DEF Matched
    <2>2. CASE Parent[n] = d
      <3>1. queue[i].wd # 0 /\ queue[i].wd <= lastWd
        BY DEF CalmInv, DescriptorInv
      <3>2. queue[i].wd \in Nat /\ lastWd \in Nat
        <4>1. queue \in Seq(Event) /\ lastWd \in Nat
          BY <1>2 DEF TypeOK
        <4>2. queue[i] \in Event
          BY <4>1
        <4>3. QED
          BY <4>1, <4>2 DEF Event
      <3>3. queue[i].wd # wd[d] /\ queue[i].wd # wd'[d]
        <4>1. wd'[d] = lastWd + 1 \/ wd'[d] = 0
          BY <1>4, <1>6
        <4>2. QED
          BY <1>4, <3>1, <3>2, <4>1
      <3>4. QED
        BY <1>1, <2>2, <3>3 DEF Matched
    <2>3. QED
      BY <2>1, <2>2
  <1>8. QED
    BY <1>1, <1>4, <1>5, <1>6, <1>7 DEF d

(* The queue still tells what it told, when no directory loses its watch.     *)
LEMMA SameQueueCalm ==
    ASSUME CalmInv, Calm, WatchInv', UNCHANGED <<queue, disk>>,
           \A n \in Nodes : \A i \in DOMAIN queue : Matched(i, n)' <=> Matched(i, n),
           \A d \in AllDirs : wd'[d] # 0 /\ kernelWd'[d] = 0 => wd[d] # 0 /\ kernelWd[d] = 0
    PROVE  RemovalInv' /\ StaleInv' /\ OrderInv'
  <1>1. RemovalInv /\ StaleInv /\ OrderInv
    BY DEF CalmInv
  <1>2. RemovalInv'
    BY <1>1 DEF RemovalInv
  <1>3. StaleInv'
    <2>1. SUFFICES ASSUME NEW d \in Dirs, wd'[d] # 0, kernelWd'[d] = 0
                   PROVE  \E i \in DOMAIN queue' : Matched(i, d)' /\ queue'[i].act = "delete"
      BY DEF StaleInv
    <2>2. wd[d] # 0 /\ kernelWd[d] = 0 /\ d \in Nodes
      BY <2>1 DEF AllDirs, Nodes
    <2>3. PICK i \in DOMAIN queue : Matched(i, d) /\ queue[i].act = "delete"
      BY <1>1, <2>2 DEF StaleInv
    <2>4. QED
      BY <2>2, <2>3
  <1>4. OrderInv'
    <2>1. SUFFICES ASSUME NEW i \in DOMAIN queue, NEW j \in DOMAIN queue, NEW d \in Dirs,
                          d = queue[i].name, queue[i].act = "delete",
                          Parent[queue[j].name] = d, queue[j].wd = wd'[d]
                   PROVE  j < i
      BY DEF OrderInv
    <2>2. queue[j].name \in Nodes
      <3>1. queue' \in Seq(Event)
        BY DEF WatchInv, TypeOK
      <3>2. queue[j] \in Event
        BY <3>1
      <3>3. QED
        BY <3>2 DEF Event
    <2>3. Matched(j, queue[j].name)'
      BY <2>1 DEF Matched
    <2>4. Matched(j, queue[j].name)
      BY <2>2, <2>3
    <2>5. queue[j].wd = wd[d]
      BY <2>1, <2>4 DEF Matched
    <2>6. QED
      BY <1>1, <2>1, <2>5 DEF OrderInv
  <1>5. QED
    BY <1>2, <1>3, <1>4

(* The calls after createINotifyWatch() have the directory or are old.        *)
LEMMA AddWatchCalm == ASSUME CalmInv, WatchInv', AddWatch PROVE CalmInv'
  <1> DEFINE d == Top.dir
             f == Call(d, IF phase = "setup" THEN "list" ELSE "open")
  <1>1. /\ d \in Dirs /\ wd[d] = 0 /\ kernelWd[d] = 0
        /\ UNCHANGED <<queue, lost, toWatch, phase, disk, makes, hasty, existing, results,
                       hasInconsistencies, shown>>
        /\ \A n \in Nodes : \A i \in DOMAIN queue : Matched(i, n)' <=> Matched(i, n)
        /\ \A x \in AllDirs : x # d => wd'[x] = wd[x] /\ kernelWd'[x] = kernelWd[x]
        /\ IF disk[d] THEN wd'[d] = lastWd + 1 /\ kernelWd'[d] = lastWd + 1 /\ lastWd' = lastWd + 1
                      ELSE UNCHANGED <<wd, kernelWd, lastWd>>
    BY AddWatchShape
  <1>2. /\ Top \in Calls /\ Top.stage = "watch" /\ RestCalls \subseteq Calls
        /\ Calls' = (IF disk[d] THEN {f} ELSE {}) \cup RestCalls
    <2>1. TypeOK
      BY DEF CalmInv, WatchInv
    <2>2. /\ Top \in Calls /\ Top.stage = "watch" /\ RestCalls \subseteq Calls
          /\ IF disk[d] THEN Calls' = {f} \cup RestCalls ELSE Calls' = RestCalls
      BY <2>1, AddWatchCalls
    <2> HIDE DEF d, f
    <2>3. QED
      BY <2>2
  <1>3. f.dir = d /\ f.names = {} /\ f.stage # "watch" /\ (f.stage = "list" => phase = "setup")
        /\ f.stage # "remember"
    BY DEF Call
  <1> HIDE DEF d, f
  <1>4. lastWd \in Nat /\ lastWd' \in Nat /\ wd \in [AllDirs -> Nat] /\ d \in AllDirs
    BY <1>1 DEF CalmInv, WatchInv, TypeOK, AllDirs
  <1>5. DiskInv'
    <2>1. \A x \in AllDirs : kernelWd'[x] # 0 => kernelWd[x] # 0 \/ (x = d /\ disk[d])
      BY <1>1
    <2>2. kernelWd'[Base] # 0
      BY <1>1, KindsAssumption DEF CalmInv, DiskInv, AllDirs, Nodes
    <2>3. \A n \in Nodes : disk'[n] => Present(Parent[n])'
      BY <1>1 DEF CalmInv, DiskInv, Present
    <2>4. QED
      BY <1>1, <2>1, <2>2, <2>3 DEF CalmInv, DiskInv, AllDirs
  <1>6. DescriptorInv'
    <2>1. lastWd <= lastWd' /\ lastWd + 1 <= lastWd + 1
      BY <1>1, <1>4
    <2>2. \A x \in AllDirs : wd'[x] <= lastWd'
      <3>1. SUFFICES ASSUME NEW x \in AllDirs PROVE wd'[x] <= lastWd'
        OBVIOUS
      <3>2. wd[x] <= lastWd /\ wd[x] \in Nat
        BY <1>4 DEF CalmInv, DescriptorInv
      <3>3. CASE x = d /\ disk[d]
        BY <1>1, <2>1, <3>3
      <3>4. CASE ~(x = d /\ disk[d])
        <4>1. wd'[x] = wd[x]
          BY <1>1, <3>4
        <4>2. QED
          BY <1>4, <2>1, <3>2, <4>1
      <3>5. QED
        BY <3>3, <3>4
    <2>3. \A i \in DOMAIN queue : queue[i].wd # 0 /\ queue[i].wd <= lastWd'
      <3>1. SUFFICES ASSUME NEW i \in DOMAIN queue PROVE queue[i].wd # 0 /\ queue[i].wd <= lastWd'
        OBVIOUS
      <3>2. queue[i].wd # 0 /\ queue[i].wd <= lastWd
        BY DEF CalmInv, DescriptorInv
      <3>3. queue[i].wd \in Nat
        <4>1. queue \in Seq(Event)
          BY DEF CalmInv, WatchInv, TypeOK
        <4>2. queue[i] \in Event
          BY <4>1
        <4>3. QED
          BY <4>2 DEF Event
      <3>4. QED
        BY <1>4, <2>1, <3>2, <3>3
    <2>4. QED
      BY <1>1, <2>2, <2>3 DEF DescriptorInv
  <1>7. NamesInv'
    BY <1>1, <1>2, <1>3 DEF CalmInv, NamesInv
  <1>8. FlagInv'
    BY <1>1 DEF CalmInv, FlagInv
  <1>9. ASSUME Calm' PROVE RemovalInv' /\ StaleInv' /\ OrderInv' /\ ParentsInv'
    <2>1. Calm
      BY <1>1, <1>9 DEF Calm
    <2>2. \A x \in AllDirs : wd'[x] # 0 /\ kernelWd'[x] = 0 => wd[x] # 0 /\ kernelWd[x] = 0
      BY <1>1, <1>4
    <2>3. RemovalInv' /\ StaleInv' /\ OrderInv'
      BY <1>1, <2>1, <2>2, SameQueueCalm
    <2>4. ParentsInv /\ wd[Parent[d]] # 0
      BY <1>1, <1>2, <2>1 DEF CalmInv, ParentsInv, d
    <2>5. \A x \in AllDirs : wd[x] # 0 => wd'[x] # 0
      BY <1>1, <1>4
    <2>6. disk[d] => wd'[d] # 0
      BY <1>1, <1>4
    <2>7. \A x \in Dirs : wd'[x] # 0 => wd'[Parent[x]] # 0
      <3>1. SUFFICES ASSUME NEW x \in Dirs, wd'[x] # 0 PROVE wd[Parent[x]] # 0
        BY <2>5, ParentDir DEF Nodes
      <3>2. x = d \/ wd[x] # 0
        BY <1>1, <3>1 DEF AllDirs
      <3>3. QED
        BY <2>4, <3>2 DEF ParentsInv
    <2>8. \A c \in Calls : c.dir \in AllDirs
      <3>1. SUFFICES ASSUME NEW i \in DOMAIN stack PROVE stack[i].dir \in AllDirs
        BY DEF Calls
      <3>2. QED
        BY FrameDir DEF CalmInv, WatchInv
    <2>9. ASSUME NEW c \in Calls'
          PROVE  IF c.stage = "watch" THEN c.dir \in Dirs /\ wd'[Parent[c.dir]] # 0 ELSE wd'[c.dir] # 0
      <3>1. CASE c = f /\ disk[d]
        BY <1>3, <2>6, <3>1
      <3>2. CASE c \in Calls
        <4>1. IF c.stage = "watch" THEN c.dir \in Dirs /\ wd[Parent[c.dir]] # 0 ELSE wd[c.dir] # 0
          BY <2>4, <3>2 DEF ParentsInv
        <4>2. QED
          BY <2>5, <2>8, <3>2, <4>1, ParentDir DEF Nodes
      <3>3. QED
        BY <1>2, <2>9, <3>1, <3>2
    <2>10. ParentsInv'
      BY <2>7, <2>9 DEF ParentsInv
    <2>11. QED
      BY <2>3, <2>10
  <1>10. QED
    BY <1>5, <1>6, <1>7, <1>8, <1>9 DEF CalmInv

(* A step that only makes, ends or moves on calls, in directories that are     *)
(* being listed or for one of their names.                                   *)
LEMMA CallsCalm ==
    ASSUME CalmInv, WatchInv',
           UNCHANGED <<disk, kernelWd, queue, lost, lastWd, hasty, wd>>,
           hasInconsistencies => hasInconsistencies', FlagInv',
           NamesInv',
           Calm' => \A f \in Calls' :
               IF f.stage = "watch" THEN f.dir \in Dirs /\ wd[Parent[f.dir]] # 0 ELSE wd[f.dir] # 0
    PROVE  CalmInv'
  <1>1. DiskInv'
    BY DEF CalmInv, DiskInv, Present
  <1>2. DescriptorInv'
    BY DEF CalmInv, DescriptorInv
  <1>3. ASSUME Calm' PROVE RemovalInv' /\ StaleInv' /\ OrderInv' /\ ParentsInv'
    <2>1. Calm
      BY <1>3 DEF Calm
    <2>2. RemovalInv /\ StaleInv /\ OrderInv /\ ParentsInv
      BY <2>1 DEF CalmInv
    <2>3. ParentsInv'
      BY <1>3, <2>2 DEF ParentsInv
    <2>4. RemovalInv' /\ StaleInv' /\ OrderInv'
      BY <2>2 DEF RemovalInv, StaleInv, OrderInv, Matched
    <2>5. QED
      BY <2>3, <2>4
  <1>4. QED
    BY <1>1, <1>2, <1>3 DEF CalmInv

(* The calls after a directory was reported as created.                       *)
LEMMA EnterCalls ==
    ASSUME TypeOK, NEW n \in Dirs, NEW r, NEW s \in Seq(Frame), Enter(n, r, s),
           NEW S, S = {s[i] : i \in DOMAIN s}
    PROVE  \/ /\ toWatch[n] = "none" /\ Parent[n] \in Leaves
              /\ Calls' = S /\ UNCHANGED <<kernelWd, toWatch, wd>>
           \/ /\ Calls' = {Call(n, IF wd'[n] = 0 THEN "watch" ELSE "open")} \cup S
              /\ \/ CreatedAgain(n, r) /\ wd' = [wd EXCEPT ![n] = 0] /\ kernelWd' = [kernelWd EXCEPT ![n] = 0]
                 \/ ~CreatedAgain(n, r) /\ UNCHANGED <<wd, kernelWd>>
  <1> DEFINE f == Call(n, IF wd'[n] = 0 THEN "watch" ELSE "open")
  <1>1. f \in Frame
    BY DEF Call, Frame, AllDirs
  <1>2. \/ /\ toWatch[n] = "none" /\ Parent[n] \in Leaves
           /\ stack' = s /\ UNCHANGED <<kernelWd, toWatch, wd>>
        \/ /\ stack' = <<f>> \o s
           /\ \/ CreatedAgain(n, r) /\ wd' = [wd EXCEPT ![n] = 0] /\ kernelWd' = [kernelWd EXCEPT ![n] = 0]
              \/ ~CreatedAgain(n, r) /\ UNCHANGED <<wd, kernelWd>>
    BY DEF Enter
  <1> HIDE DEF f
  <1>3. /\ stack' = <<f>> \o s => Calls' = {f} \cup S
        /\ stack' = s => Calls' = S
    BY <1>1, CallsAfter
  <1>4. QED
    BY <1>2, <1>3 DEF f

(* The same when no call waits for it.                                       *)
LEMMA EnterAlone ==
    ASSUME NEW n, NEW r, Enter(n, r, <<>>)
    PROVE  \/ /\ toWatch[n] = "none" /\ Parent[n] \in Leaves
              /\ Calls' = {} /\ UNCHANGED <<kernelWd, wd>>
           \/ /\ Calls' = {Call(n, IF wd'[n] = 0 THEN "watch" ELSE "open")}
              /\ \/ CreatedAgain(n, r) /\ wd' = [wd EXCEPT ![n] = 0] /\ kernelWd' = [kernelWd EXCEPT ![n] = 0]
                 \/ ~CreatedAgain(n, r) /\ UNCHANGED <<wd, kernelWd>>
  <1> DEFINE g == Call(n, IF wd'[n] = 0 THEN "watch" ELSE "open")
  <1>1. \/ /\ toWatch[n] = "none" /\ Parent[n] \in Leaves
           /\ stack' = <<>> /\ UNCHANGED <<kernelWd, wd>>
        \/ /\ stack' = <<g>> \o <<>>
           /\ \/ CreatedAgain(n, r) /\ wd' = [wd EXCEPT ![n] = 0] /\ kernelWd' = [kernelWd EXCEPT ![n] = 0]
              \/ ~CreatedAgain(n, r) /\ UNCHANGED <<wd, kernelWd>>
    BY DEF Enter
  <1> HIDE DEF g
  <1>2. stack' = <<>> => Calls' = {}
    BY DEF Calls
  <1>3. stack' = <<g>> \o <<>> => Calls' = {g}
    <2>1. DOMAIN (<<g>> \o <<>>) = {1} /\ (<<g>> \o <<>>)[1] = g
      OBVIOUS
    <2>2. QED
      BY <2>1 DEF Calls
  <1>4. QED
    BY <1>1, <1>2, <1>3 DEF g

(* A watch is given up only when its directory is created again, and that is   *)
(* flagged.                                                                 *)
LEMMA NotAgain ==
    ASSUME WatchInv, NEW n \in Dirs, NEW r, r = results[KeyOf(n)], NEW new,
           r # NoResult /\ Exists(r) /\ ~r.immediate => new.inconsistent,
           ~Reconsider(n, r, new).inconsistent, new \in WatchedResult
    PROVE  ~CreatedAgain(n, r) /\ Reconsider(n, r, new) = new
  <1>1. SUFFICES ASSUME CreatedAgain(n, r) PROVE FALSE
    BY DEF Reconsider
  <1>2. CASE r = NoResult
    BY <1>1, <1>2 DEF Reconsider, WatchedResult
  <1>3. CASE r # NoResult
    <2>1. Exists(r) /\ ~r.immediate
      BY <1>1, <1>3 DEF CreatedAgain, WatchInv, AssertionsHold
    <2>2. QED
      BY <1>3, <2>1 DEF Reconsider
  <1>4. QED
    BY <1>2, <1>3

(* A name that a scan comes to, while all stays calm: its result is that of    *)
(* something found, unless it is a directory that vanished, and one that is    *)
(* there is gone into if it may have a ToWatchDir.                            *)
LEMMA DiscoverShape ==
    ASSUME CalmInv, NEW n \in Nodes, Discover(n)
    PROVE  /\ phase = "running" /\ Top.stage = "walk" /\ n \in Top.names /\ stack # <<>>
           /\ UNCHANGED <<queue, lost, lastWd, phase, atStart, disk, makes, hasty>>
           /\ FlagInv' /\ (hasInconsistencies => hasInconsistencies')
           /\ existing' \subseteq existing
           /\ \A m \in Nodes : m # n =>
                 results'[KeyOf(m)] = results[KeyOf(m)] /\ (m \in existing' <=> m \in existing)
           /\ \/ /\ n \notin Dirs \/ ~disk[n]
                 /\ Calls' = {Done(n)} \cup RestCalls
                 /\ UNCHANGED <<kernelWd, toWatch, wd>>
                 /\ IF n \in Dirs THEN results'[KeyOf(n)] = results[KeyOf(n)] /\ existing' = existing
                                  ELSE /\ results'[KeyOf(n)] = OnScan(results[KeyOf(n)])
                                       /\ ~hasInconsistencies' => ~OnScan(results[KeyOf(n)]).inconsistent
              \/ /\ n \in Dirs /\ disk[n]
                 /\ \/ /\ toWatch[n] = "none" /\ Parent[n] \in Leaves
                       /\ Calls' = {Done(n)} \cup RestCalls
                       /\ UNCHANGED <<wd, kernelWd>>
                    \/ /\ Calls' = {Call(n, IF wd'[n] = 0 THEN "watch" ELSE "open"), Done(n)} \cup RestCalls
                       /\ \/ wd' = [wd EXCEPT ![n] = 0] /\ kernelWd' = [kernelWd EXCEPT ![n] = 0]
                          \/ UNCHANGED <<wd, kernelWd>>
                 /\ ~hasInconsistencies' =>
                       /\ ~CreatedAgain(n, results[KeyOf(n)])
                       /\ UNCHANGED <<wd, kernelWd>>
                       /\ results'[KeyOf(n)] = OnScan(results[KeyOf(n)])
                       /\ ~OnScan(results[KeyOf(n)]).inconsistent
  <1> DEFINE k == <<n, n \in Dirs /\ disk[n]>>
             r == results[k]
             new == Reconsider(n, r, OnScan(r))
  <1>1. /\ phase = "running" /\ Top.stage = "walk" /\ n \in Top.names /\ stack # <<>>
        /\ UNCHANGED <<queue, lost, lastWd, phase, atStart, disk, makes, hasty>>
    BY DEF Discover, files
  <1>2. TypeOK /\ FlagInv /\ WatchInv
    BY DEF CalmInv, WatchInv
  <1>3. /\ Top \in Frame /\ Rest \in Seq(Frame) /\ Done(n) \in Frame
        /\ AfterName(n) = <<Done(n)>> \o Rest
        /\ stack' = AfterName(n) => Calls' = {Done(n)} \cup RestCalls
    <2>1. Top \in Frame /\ Rest \in Seq(Frame)
      BY <1>1, <1>2, Frames
    <2>2. AfterName(n) = <<Done(n)>> \o Rest
      BY DEF AfterName, Done
    <2>3. Done(n) \in Frame
      BY <2>1, DoneFrame
    <2>4. QED
      BY <1>1, <1>2, <2>1, <2>2, <2>3, AfterNameCalls
  <1>4. CASE /\ n \in Dirs /\ disk[n]
             /\ Record(k, r, new, ScanEmits(r))
             /\ Enter(n, r, AfterName(n))
    <2>1. (n \in Dirs /\ disk[n]) = TRUE
      BY <1>4
    <2>2. k = <<n, TRUE>>
      BY <2>1, Zenon
    <2>3. k = KeyOf(n) /\ k \in Keys
      BY <1>4, <2>2, KeysDiffer, KeyOfKey
    <2> HIDE DEF k
    <2>4. results[k] \in WatchedResult
      BY <1>2, <2>3 DEF TypeOK
    <2>5. OnScan(r) \in WatchedResult /\ Exists(OnScan(r))
      BY <2>4, OnScanResult
    <2>6. new \in WatchedResult
      BY <2>5, ReconsiderResult
    <2>7. r # NoResult /\ Exists(r) /\ ~r.immediate => OnScan(r).inconsistent
      BY DEF OnScan, ScanContradicts
    <2>8. r = results[KeyOf(n)]
      BY <2>3
    <2> HIDE DEF r
    <2>9. ~new.inconsistent => ~CreatedAgain(n, r) /\ new = OnScan(r)
      BY <1>2, <1>4, <2>5, <2>7, <2>8, NotAgain
    <2> HIDE DEF new
    <2>10. Record(KeyOf(n), r, new, ScanEmits(r))
      BY <1>4, <2>3
    <2>11. /\ results'[KeyOf(n)] = new
           /\ \A m \in Nodes : m # n => results'[KeyOf(m)] = results[KeyOf(m)]
           /\ \A m \in Nodes : m # n => (m \in existing' <=> m \in existing)
           /\ existing' \subseteq existing
           /\ FlagInv'
           /\ hasInconsistencies => hasInconsistencies'
           /\ ~hasInconsistencies' => ~new.inconsistent
      BY <1>2, <2>6, <2>8, <2>10, Recorded
    <2>12. AfterName(n) \in Seq(Frame) /\ {AfterName(n)[i] : i \in DOMAIN AfterName(n)} = {Done(n)} \cup RestCalls
      BY <1>1, <1>2, AfterNameSet
    <2>13. \/ /\ toWatch[n] = "none" /\ Parent[n] \in Leaves
              /\ Calls' = {Done(n)} \cup RestCalls /\ UNCHANGED <<kernelWd, toWatch, wd>>
           \/ /\ Calls' = {Call(n, IF wd'[n] = 0 THEN "watch" ELSE "open")} \cup ({Done(n)} \cup RestCalls)
              /\ \/ CreatedAgain(n, r) /\ wd' = [wd EXCEPT ![n] = 0] /\ kernelWd' = [kernelWd EXCEPT ![n] = 0]
                 \/ ~CreatedAgain(n, r) /\ UNCHANGED <<wd, kernelWd>>
      BY <1>2, <1>4, <2>12, EnterCalls
    <2>14. QED
      BY <1>1, <1>4, <2>8, <2>9, <2>11, <2>13
  <1>5. CASE /\ ~(n \in Dirs /\ disk[n])
             /\ Record(k, r, OnScan(r), ScanEmits(r))
             /\ stack' = AfterName(n)
             /\ UNCHANGED <<kernelWd, toWatch, wd>>
    <2>1. (n \in Dirs /\ disk[n]) = FALSE
      BY <1>5
    <2>2. k = <<n, FALSE>>
      BY <2>1, Zenon
    <2>3. k \in Keys
      BY <2>2 DEF Keys
    <2> HIDE DEF k
    <2>4. r \in WatchedResult
      BY <1>2, <2>3 DEF TypeOK
    <2>5. OnScan(r) \in WatchedResult
      BY <2>4, OnScanResult
    <2>6. r = results[k]
      OBVIOUS
    <2> HIDE DEF r
    <2>7. CASE n \in Dirs
      <3>1. /\ \A m \in Nodes : results'[KeyOf(m)] = results[KeyOf(m)]
            /\ existing' = existing
            /\ FlagInv'
            /\ hasInconsistencies => hasInconsistencies'
        BY <1>2, <1>5, <2>2, <2>5, <2>6, <2>7, PhantomRecorded
      <3>2. QED
        BY <1>1, <1>3, <1>5, <2>7, <3>1
    <2>8. CASE n \notin Dirs
      <3>1. (n \in Dirs) = FALSE
        BY <2>8
      <3>2. KeyOf(n) = <<n, FALSE>>
        BY <3>1, Zenon DEF KeyOf
      <3>3. k = KeyOf(n)
        BY <2>2, <3>2
      <3>4. Record(KeyOf(n), r, OnScan(r), ScanEmits(r)) /\ r = results[KeyOf(n)]
        BY <1>5, <2>6, <3>3
      <3>5. /\ results'[KeyOf(n)] = OnScan(r)
            /\ \A m \in Nodes : m # n => results'[KeyOf(m)] = results[KeyOf(m)]
            /\ \A m \in Nodes : m # n => (m \in existing' <=> m \in existing)
            /\ existing' \subseteq existing
            /\ FlagInv'
            /\ hasInconsistencies => hasInconsistencies'
            /\ ~hasInconsistencies' => ~OnScan(r).inconsistent
        BY <1>2, <2>5, <3>4, Recorded
      <3>6. QED
        BY <1>1, <1>3, <1>5, <2>8, <3>4, <3>5
    <2>9. QED
      BY <2>7, <2>8
  <1>6. QED
    BY <1>4, <1>5 DEF Discover

(* The calls that a step makes are for directories that a call lists, or for a *)
(* name that one has read.                                                  *)
LEMMA CallInNames ==
    ASSUME CalmInv, stack # <<>>, NEW n \in Top.names
    PROVE  n \in Nodes /\ Parent[n] = Top.dir /\ Top \in Calls
  <1>1. Top \in Calls
    BY CallsSplit DEF CalmInv, WatchInv
  <1>2. n \in Children(Top.dir)
    BY <1>1 DEF CalmInv, NamesInv
  <1>3. QED
    BY <1>1, <1>2 DEF Children

LEMMA OpenDirectoryCalm == ASSUME CalmInv, WatchInv', OpenDirectory PROVE CalmInv'
  <1>1. TypeOK
    BY DEF CalmInv, WatchInv
  <1> DEFINE d == Top.dir
             g == [dir |-> d, stage |-> IF Top.stage = "list" THEN "remember" ELSE "walk",
                   names |-> {n \in Children(d) : disk[n]}]
  <1>2. /\ Top \in Frame /\ d \in AllDirs /\ Top \in Calls /\ RestCalls \subseteq Calls
        /\ Top.stage \in {"list", "open"}
        /\ IF Present(d)
           THEN Calls' = {g} \cup RestCalls
           ELSE Calls' = (IF Top.stage = "open" \/ d \in Leaves THEN {} ELSE {Call(d, "open")}) \cup RestCalls
    BY <1>1, OpenDirectoryCalls
  <1>3. g.dir = d /\ g.names \subseteq Children(d) /\ (g.stage = "remember" => Top.stage = "list")
        /\ g.stage # "list" /\ g.stage # "watch"
    BY DEF Children
  <1>4. Call(d, "open").dir = d /\ Call(d, "open").names = {} /\ Call(d, "open").stage = "open"
    BY DEF Call
  <1> HIDE DEF g, d
  <1>5. \A f \in Calls' : f \in Calls \/ (f = g) \/ f = Call(d, "open")
    BY <1>2
  <1>6. UNCHANGED <<disk, kernelWd, queue, lost, lastWd, hasty, wd, hasInconsistencies, results, phase>>
    BY DEF OpenDirectory, files, inotify, tree, model
  <1>7. Top.stage = "list" => phase = "setup"
    BY <1>2 DEF CalmInv, NamesInv
  <1>8. NamesInv'
    <2>1. SUFFICES ASSUME NEW f \in Calls'
                   PROVE  f.names \subseteq Children(f.dir) /\ (f.stage \in {"list", "remember"} => phase = "setup")
      BY <1>6 DEF NamesInv, Children
    <2>2. QED
      BY <1>3, <1>4, <1>5, <1>7 DEF CalmInv, NamesInv
  <1>9. ASSUME Calm, NEW f \in Calls'
        PROVE  IF f.stage = "watch" THEN f.dir \in Dirs /\ wd[Parent[f.dir]] # 0 ELSE wd[f.dir] # 0
    <2>1. wd[d] # 0
      BY <1>2, <1>9 DEF CalmInv, ParentsInv, d
    <2>2. CASE f \in Calls
      BY <1>9, <2>2 DEF CalmInv, ParentsInv
    <2>3. CASE f = g
      BY <1>3, <2>1, <2>3
    <2>4. CASE f = Call(d, "open")
      BY <1>4, <2>1, <2>4
    <2>5. QED
      BY <1>5, <1>9, <2>2, <2>3, <2>4
  <1>10. FlagInv'
    BY <1>6 DEF CalmInv, FlagInv
  <1>11. Calm' => Calm
    BY <1>6 DEF Calm
  <1>12. QED
    BY <1>6, <1>8, <1>9, <1>10, <1>11, CallsCalm

LEMMA EndNamesCalm == ASSUME CalmInv, WatchInv', EndNames PROVE CalmInv'
  <1>1. TypeOK
    BY DEF CalmInv, WatchInv
  <1> DEFINE d == Top.dir
             g == Call(d, "open")
  <1>2. /\ Calls = {Top} \cup RestCalls
        /\ Top.stage \in {"remember", "walk"}
        /\ Calls' = RestCalls \/ Calls' = {g} \cup RestCalls
    BY <1>1, EndNamesCalls
  <1>3. g.dir = d /\ g.names = {} /\ g.stage = "open"
    BY DEF Call
  <1> HIDE DEF g, d
  <1>4. \A f \in Calls' : f \in Calls \/ f = g
    BY <1>2
  <1>5. UNCHANGED <<disk, kernelWd, queue, lost, lastWd, hasty, wd, hasInconsistencies, results, phase>>
    BY DEF EndNames, files, inotify, tree, model
  <1>6. NamesInv'
    BY <1>3, <1>4, <1>5 DEF CalmInv, NamesInv, Children
  <1>7. ASSUME Calm, NEW f \in Calls'
        PROVE  IF f.stage = "watch" THEN f.dir \in Dirs /\ wd[Parent[f.dir]] # 0 ELSE wd[f.dir] # 0
    <2>1. wd[d] # 0
      BY <1>2, <1>7 DEF CalmInv, ParentsInv, d
    <2>2. CASE f \in Calls
      BY <1>7, <2>2 DEF CalmInv, ParentsInv
    <2>3. CASE f = g
      BY <1>3, <2>1, <2>3
    <2>4. QED
      BY <1>4, <1>7, <2>2, <2>3
  <1>8. FlagInv'
    BY <1>5 DEF CalmInv, FlagInv
  <1>9. Calm' => Calm
    BY <1>5 DEF Calm
  <1>10. QED
    BY <1>5, <1>6, <1>7, <1>8, <1>9, CallsCalm

(* What the steps that come to a name leave of the calls.                     *)
LEMMA NamedCalm ==
    ASSUME CalmInv, WatchInv', stack # <<>>, NEW n \in Top.names, Top.stage # "watch",
           NEW g, g.dir = n /\ g.names = {} /\ g.stage \in {"watch", "open"},
           g.stage = "open" => wd[n] # 0, n \in Dirs \/ Calls' = {Done(n)} \cup RestCalls,
           Calls' = {Done(n)} \cup RestCalls \/ Calls' = {g, Done(n)} \cup RestCalls,
           UNCHANGED <<disk, kernelWd, queue, lost, lastWd, hasty, wd, phase>>,
           hasInconsistencies => hasInconsistencies', FlagInv'
    PROVE  CalmInv'
  <1>1. n \in Nodes /\ Parent[n] = Top.dir /\ Top \in Calls
    BY CallInNames
  <1>2. /\ Calls = {Top} \cup RestCalls
        /\ Done(n).dir = Top.dir /\ Done(n).stage = Top.stage /\ Done(n).names = Top.names \ {n}
    BY WalkCalls DEF CalmInv, WatchInv
  <1>3. \A f \in Calls' : f \in Calls \/ f = Done(n) \/ (f = g /\ n \in Dirs)
    BY <1>2
  <1>4. NamesInv'
    <2>1. SUFFICES ASSUME NEW f \in Calls'
                   PROVE  f.names \subseteq Children(f.dir) /\ (f.stage \in {"list", "remember"} => phase = "setup")
      BY DEF NamesInv, Children
    <2>2. QED
      BY <1>1, <1>2, <1>3 DEF CalmInv, NamesInv
  <1>5. ASSUME Calm, NEW f \in Calls'
        PROVE  IF f.stage = "watch" THEN f.dir \in Dirs /\ wd[Parent[f.dir]] # 0 ELSE wd[f.dir] # 0
    <2>1. wd[Top.dir] # 0
      BY <1>1, <1>5 DEF CalmInv, ParentsInv
    <2>2. CASE f \in Calls
      BY <1>5, <2>2 DEF CalmInv, ParentsInv
    <2>3. CASE f = Done(n)
      BY <1>2, <2>1, <2>3
    <2>4. CASE f = g /\ n \in Dirs
      BY <1>1, <2>1, <2>4
    <2>5. QED
      BY <1>3, <1>5, <2>2, <2>3, <2>4
  <1>6. Calm' => Calm
    BY DEF Calm
  <1>7. QED
    BY <1>4, <1>5, <1>6, CallsCalm

LEMMA RememberCalm == ASSUME CalmInv, WatchInv', NEW n \in Nodes, Remember(n) PROVE CalmInv'
  <1> DEFINE g == Call(n, "watch")
  <1>1. /\ stack # <<>> /\ n \in Top.names /\ Top.stage = "remember" /\ stack' = AfterName(n)
        /\ UNCHANGED <<disk, kernelWd, queue, lost, lastWd, hasty, wd, phase, results, hasInconsistencies>>
    BY DEF Remember, AfterName, files, inotify, tree
  <1>2. g.dir = n /\ g.names = {} /\ g.stage = "watch"
    BY DEF Call
  <1>3. Calls' = {Done(n)} \cup RestCalls
    BY <1>1, WalkCalls DEF CalmInv, WatchInv
  <1> HIDE DEF g
  <1>4. FlagInv'
    BY <1>1 DEF CalmInv, FlagInv
  <1>5. QED
    BY <1>1, <1>2, <1>3, <1>4, NamedCalm

(* initialCreateToWatchDir() calls itself for a directory.                    *)
LEMMA SetUpCalls ==
    ASSUME TypeOK, NEW n \in Nodes, SetUp(n)
    PROVE  /\ stack # <<>> /\ n \in Top.names /\ Top.stage = "walk" /\ phase = "setup"
           /\ UNCHANGED <<disk, kernelWd, queue, lost, lastWd, hasty, wd, phase, existing, results,
                          hasInconsistencies, atStart>>
           /\ IF n \in Dirs /\ disk[n] THEN Calls' = {Call(n, "watch"), Done(n)} \cup RestCalls
                                       ELSE Calls' = {Done(n)} \cup RestCalls
  <1> DEFINE g == Call(n, "watch")
  <1>1. /\ stack # <<>> /\ n \in Top.names /\ Top.stage = "walk" /\ phase = "setup"
        /\ UNCHANGED <<disk, kernelWd, queue, lost, lastWd, hasty, wd, phase, existing, results,
                       hasInconsistencies, atStart>>
        /\ IF n \in Dirs /\ disk[n] THEN stack' = <<g>> \o AfterName(n) ELSE stack' = AfterName(n)
    BY DEF SetUp, files, inotify, model
  <1>2. n \in Dirs => g \in Frame
    BY DEF Call, Frame, AllDirs
  <1> HIDE DEF g
  <1>3. /\ stack' = AfterName(n) => Calls' = {Done(n)} \cup RestCalls
        /\ n \in Dirs /\ stack' = <<g>> \o AfterName(n) => Calls' = {g, Done(n)} \cup RestCalls
    BY <1>1, <1>2, WalkCalls
  <1>4. IF n \in Dirs /\ disk[n] THEN Calls' = {g, Done(n)} \cup RestCalls
                                 ELSE Calls' = {Done(n)} \cup RestCalls
    BY <1>1, <1>3
  <1>5. QED
    BY <1>1, <1>4 DEF g

LEMMA SetUpCalm == ASSUME CalmInv, WatchInv', NEW n \in Nodes, SetUp(n) PROVE CalmInv'
  <1> DEFINE g == Call(n, "watch")
  <1>1. /\ stack # <<>> /\ n \in Top.names /\ Top.stage = "walk"
        /\ UNCHANGED <<disk, kernelWd, queue, lost, lastWd, hasty, wd, phase, results, hasInconsistencies>>
        /\ IF n \in Dirs /\ disk[n] THEN Calls' = {g, Done(n)} \cup RestCalls
                                    ELSE Calls' = {Done(n)} \cup RestCalls
    BY SetUpCalls DEF CalmInv, WatchInv
  <1>2. g.dir = n /\ g.names = {} /\ g.stage = "watch"
    BY DEF Call
  <1> HIDE DEF g
  <1>3. FlagInv'
    BY <1>1 DEF CalmInv, FlagInv
  <1>4. QED
    BY <1>1, <1>2, <1>3, NamedCalm

LEMMA EndSetupCalm == ASSUME CalmInv, WatchInv', EndSetup PROVE CalmInv'
  <1>1. /\ stack = <<>> /\ stack' = stack
        /\ UNCHANGED <<disk, kernelWd, queue, lost, lastWd, hasty, wd, results, hasInconsistencies>>
    BY DEF EndSetup, files, inotify, tree, model
  <1>2. Calls' = {}
    BY <1>1 DEF Calls
  <1>3. NamesInv'
    BY <1>2 DEF NamesInv
  <1>4. FlagInv'
    BY <1>1 DEF CalmInv, FlagInv
  <1>5. QED
    BY <1>1, <1>2, <1>3, <1>4, CallsCalm

(* A watch given up for a directory reported again, when nothing is calm any   *)
(* more.                                                                    *)
LEMMA DiscoverCalm == ASSUME CalmInv, WatchInv', NEW n \in Nodes, Discover(n) PROVE CalmInv'
  <1> DEFINE g == Call(n, IF wd'[n] = 0 THEN "watch" ELSE "open")
  <1>1. /\ phase = "running" /\ Top.stage = "walk" /\ n \in Top.names /\ stack # <<>>
        /\ UNCHANGED <<queue, lost, lastWd, phase, atStart, disk, makes, hasty>>
        /\ FlagInv' /\ (hasInconsistencies => hasInconsistencies')
    BY DiscoverShape
  <1>2. /\ Calls' = {Done(n)} \cup RestCalls \/ (n \in Dirs /\ Calls' = {g, Done(n)} \cup RestCalls)
        /\ \/ UNCHANGED <<wd, kernelWd>>
           \/ /\ n \in Dirs
              /\ wd' = [wd EXCEPT ![n] = 0] /\ kernelWd' = [kernelWd EXCEPT ![n] = 0]
              /\ hasInconsistencies'
    BY DiscoverShape
  <1>3. g.dir = n /\ g.names = {} /\ g.stage \in {"watch", "open"}
        /\ (g.stage = "open" => wd'[n] # 0)
    BY DEF Call
  <1> HIDE DEF g
  <1>4. CASE UNCHANGED <<wd, kernelWd>>
    BY <1>1, <1>2, <1>3, <1>4, NamedCalm
  <1>5. CASE /\ n \in Dirs
             /\ wd' = [wd EXCEPT ![n] = 0] /\ kernelWd' = [kernelWd EXCEPT ![n] = 0]
             /\ hasInconsistencies'
    <2>1. wd \in [AllDirs -> Nat] /\ kernelWd \in [AllDirs -> Nat] /\ n \in AllDirs /\ n # Base
      BY <1>5, KindsAssumption DEF CalmInv, WatchInv, TypeOK, AllDirs, Nodes
    <2>2. /\ \A d \in AllDirs : kernelWd'[d] # 0 => kernelWd[d] # 0
          /\ kernelWd'[Base] = kernelWd[Base]
      BY <1>5, <2>1 DEF AllDirs
    <2>3. DiskInv'
      BY <1>1, <2>2 DEF CalmInv, DiskInv, Present, AllDirs
    <2>4. \A d \in AllDirs : wd'[d] <= lastWd
      <3>1. SUFFICES ASSUME NEW d \in AllDirs PROVE wd'[d] <= lastWd
        OBVIOUS
      <3>2. wd[d] <= lastWd /\ lastWd \in Nat
        BY DEF CalmInv, WatchInv, TypeOK, DescriptorInv
      <3>3. wd'[d] = 0 \/ wd'[d] = wd[d]
        BY <1>5, <2>1
      <3>4. 0 <= lastWd
        BY <3>2
      <3>5. QED
        BY <3>2, <3>3, <3>4
    <2>5. DescriptorInv'
      BY <1>1, <2>4 DEF CalmInv, DescriptorInv
    <2>6. /\ Calls = {Top} \cup RestCalls
          /\ Done(n).dir = Top.dir /\ Done(n).stage = Top.stage /\ Done(n).names = Top.names \ {n}
      BY <1>1, WalkCalls DEF CalmInv, WatchInv
    <2>7. \A f \in Calls' : f \in Calls \/ f = Done(n) \/ f = g
      BY <1>2, <2>6
    <2>8. NamesInv'
      <3>1. SUFFICES ASSUME NEW f \in Calls'
                     PROVE  f.names \subseteq Children(f.dir) /\ (f.stage \in {"list", "remember"} => phase = "setup")
        BY <1>1 DEF NamesInv, Children
      <3>2. QED
        BY <1>1, <1>3, <2>6, <2>7 DEF CalmInv, NamesInv
    <2>9. ~Calm'
      BY <1>5 DEF Calm
    <2>10. QED
      BY <1>1, <2>3, <2>5, <2>8, <2>9 DEF CalmInv
  <1>6. QED
    BY <1>2, <1>4, <1>5

-----------------------------------------------------------------------------
(* Handling an event.                                                        *)

(* What reading the queue leaves in it.                                      *)
LEMMA ReadQueue ==
    ASSUME TypeOK, queue # <<>>, queue' = Tail(queue)
    PROVE  /\ 1 \in DOMAIN queue /\ Head(queue) = queue[1] /\ queue[1] \in Event
           /\ DOMAIN queue \subseteq Nat \ {0}
           /\ DOMAIN queue' \subseteq Nat \ {0}
           /\ \A i \in DOMAIN queue' : i + 1 \in DOMAIN queue /\ queue'[i] = queue[i + 1]
           /\ \A i \in DOMAIN queue : i # 1 =>
                 i - 1 \in DOMAIN queue' /\ queue'[i - 1] = queue[i] /\ (i - 1) + 1 = i
  <1>1. queue \in Seq(Event)
    BY DEF TypeOK
  <1>2. PICK k \in Nat : Len(queue) = k + 1 /\ k = Len(queue) - 1
    BY <1>1
  <1>3. /\ Head(queue) = queue[1] /\ queue[1] \in Event
        /\ DOMAIN queue = 1..(k + 1) /\ DOMAIN queue' = 1..k
        /\ \A i \in 1..k : queue'[i] = queue[i + 1]
    BY <1>1, <1>2
  <1>4. /\ 1 \in 1..(k + 1) /\ 1..k \subseteq Nat \ {0} /\ 1..(k + 1) \subseteq Nat \ {0}
        /\ \A i \in 1..k : i + 1 \in 1..(k + 1)
        /\ \A i \in 1..(k + 1) : i # 1 => i - 1 \in 1..k /\ (i - 1) + 1 = i
    OBVIOUS
  <1>5. QED
    BY <1>3, <1>4

(* What handling the event act of the name n does to results, to what is known *)
(* of the listed directories, to the watches and to the calls, if all stays    *)
(* calm.                                                                    *)
LEMMA Handled ==
    ASSUME CalmInv, NEW n \in Nodes, NEW event \in Action, phase = "running", stack = <<>>,
           OnFileModified(n, event),
           NEW r, r = results[KeyOf(n)], NEW act, act = Effective(r, event, n \in existing, IsRoot)
    PROVE  /\ FlagInv' /\ (hasInconsistencies => hasInconsistencies')
           /\ existing' \subseteq existing
           /\ \A m \in Nodes : m # n => results'[KeyOf(m)] = results[KeyOf(m)]
           /\ results'[KeyOf(n)] # NoResult
           /\ Exists(results'[KeyOf(n)]) <=> event # "delete"
           /\ ~hasInconsistencies' =>
                 /\ results'[KeyOf(n)] = OnEvent(r, act, n \in existing)
                 /\ ~OnEvent(r, act, n \in existing).inconsistent
           /\ \/ /\ n \notin Dirs \/ act \notin {"create", "delete"}
                 /\ \A m \in Nodes : m # n => (m \in existing' <=> m \in existing)
                 /\ UNCHANGED <<kernelWd, wd>> /\ Calls' = {}
              \/ /\ n \in Dirs /\ act = "create"
                 /\ \A m \in Nodes : m # n => (m \in existing' <=> m \in existing)
                 /\ \/ /\ toWatch[n] = "none" /\ Parent[n] \in Leaves
                       /\ UNCHANGED <<kernelWd, wd>> /\ Calls' = {}
                    \/ /\ Calls' = {Call(n, IF wd'[n] = 0 THEN "watch" ELSE "open")}
                       /\ \/ wd' = [wd EXCEPT ![n] = 0] /\ kernelWd' = [kernelWd EXCEPT ![n] = 0]
                          \/ UNCHANGED <<wd, kernelWd>>
                 /\ ~hasInconsistencies' => ~CreatedAgain(n, r) /\ UNCHANGED <<wd, kernelWd>>
              \/ /\ n \in Dirs /\ event = "delete"
                 /\ Calls' = {}
                 /\ \/ /\ toWatch[n] = "exists"
                       /\ wd' = [wd EXCEPT ![n] = 0] /\ kernelWd' = [kernelWd EXCEPT ![n] = 0]
                       /\ existing' = existing \ ({n} \cup Children(n))
                    \/ /\ toWatch[n] # "exists"
                       /\ UNCHANGED <<wd, kernelWd>>
                       /\ existing' = existing \ {n}
  <1>1. TypeOK /\ FlagInv /\ WatchInv
    BY DEF CalmInv, WatchInv
  <1>2. r \in WatchedResult
    BY <1>1, KeyOfKey DEF TypeOK
  <1> DEFINE known == n \in existing
             new == OnEvent(r, act, known)
  <1>3. act \in Action /\ (act = "delete" <=> event = "delete")
    BY EffectiveType
  <1>4. known \in BOOLEAN
    OBVIOUS
  <1> HIDE DEF known
  <1>5. new \in WatchedResult /\ new # NoResult /\ (Exists(new) <=> event # "delete")
    <2>1. new \in WatchedResult /\ new # NoResult
      BY <1>2, <1>3, <1>4, OnEventType
    <2>2. Exists(new) = (act # "delete")
      BY <1>2, <1>3, <1>4, OnEventPresent
    <2>3. QED
      BY <1>3, <2>1, <2>2
  <1>6. stack' = stack => Calls' = {}
    BY DEF Calls
  <1>7. \/ n \in Files /\ OnFile(n, act)
        \/ n \in Dirs /\ act = "create" /\ OnDirCreated(n)
        \/ n \in Dirs /\ act = "delete" /\ OnDirDeleted(n)
        \/ n \in Dirs /\ act = "attrib" /\ OnDirAttrib(n)
    BY DEF OnFileModified
  <1>8. CASE n \in Files /\ OnFile(n, act)
    <2>1. /\ Record(KeyOf(n), r, new, Emits(r, act))
          /\ UNCHANGED <<kernelWd, stack, wd>>
      BY <1>8 DEF OnFile, tree, known
    <2>2. n \notin Dirs
      BY <1>8, KindsAssumption
    <2> HIDE DEF new
    <2>3. QED
      BY <1>1, <1>5, <1>6, <2>1, <2>2, Recorded DEF new, known
  <1>9. CASE n \in Dirs /\ act = "attrib" /\ OnDirAttrib(n)
    <2>1. /\ Record(KeyOf(n), r, new, FALSE)
          /\ UNCHANGED <<kernelWd, stack, wd>>
      BY <1>9 DEF OnDirAttrib, tree, known
    <2> HIDE DEF new
    <2>2. QED
      BY <1>1, <1>5, <1>6, <1>9, <2>1, Recorded DEF new, known
  <1>10. CASE n \in Dirs /\ act = "delete" /\ OnDirDeleted(n)
    <2>1. /\ results' = [results EXCEPT ![KeyOf(n)] = new]
          /\ hasInconsistencies' = (hasInconsistencies \/ (new.inconsistent /\ ~r.inconsistent))
          /\ UNCHANGED stack
          /\ \/ /\ toWatch[n] = "exists"
                /\ wd' = [wd EXCEPT ![n] = 0] /\ kernelWd' = [kernelWd EXCEPT ![n] = 0]
                /\ existing' = existing \ ({n} \cup Children(n))
             \/ /\ toWatch[n] # "exists"
                /\ UNCHANGED <<wd, kernelWd>>
                /\ existing' = existing \ {n}
      BY <1>10 DEF OnDirDeleted, known
    <2> HIDE DEF new
    <2>2. /\ results'[KeyOf(n)] = new
          /\ \A m \in Nodes : m # n => results'[KeyOf(m)] = results[KeyOf(m)]
          /\ FlagInv'
          /\ hasInconsistencies => hasInconsistencies'
          /\ ~hasInconsistencies' => ~new.inconsistent
      BY <1>1, <1>5, <2>1, ResultSet
    <2>3. existing' \subseteq existing
      BY <2>1
    <2>4. QED
      BY <1>3, <1>5, <1>6, <1>10, <2>1, <2>2, <2>3 DEF new, known
  <1>11. CASE n \in Dirs /\ act = "create" /\ OnDirCreated(n)
    <2> DEFINE fin == Reconsider(n, r, new)
    <2>1. Record(KeyOf(n), r, fin, Emits(r, "create")) /\ Enter(n, r, <<>>)
      BY <1>11 DEF OnDirCreated, known
    <2>2. event # "delete"
      BY <1>3, <1>11
    <2>3. fin \in WatchedResult /\ Exists(fin)
      BY <1>5, <2>2, ReconsiderResult
    <2>4. r # NoResult /\ Exists(r) /\ ~r.immediate => new.inconsistent
      BY <1>11 DEF OnEvent, NextResult, Contradicts
    <2> HIDE DEF new
    <2>5. ~fin.inconsistent => ~CreatedAgain(n, r) /\ fin = new
      BY <1>1, <1>5, <1>11, <2>4, NotAgain
    <2> HIDE DEF fin
    <2>6. /\ results'[KeyOf(n)] = fin
          /\ \A m \in Nodes : m # n => results'[KeyOf(m)] = results[KeyOf(m)]
          /\ \A m \in Nodes : m # n => (m \in existing' <=> m \in existing)
          /\ existing' \subseteq existing
          /\ FlagInv'
          /\ hasInconsistencies => hasInconsistencies'
          /\ ~hasInconsistencies' => ~fin.inconsistent
      BY <1>1, <2>1, <2>3, Recorded
    <2>9. \/ /\ toWatch[n] = "none" /\ Parent[n] \in Leaves
             /\ Calls' = {} /\ UNCHANGED <<kernelWd, wd>>
          \/ /\ Calls' = {Call(n, IF wd'[n] = 0 THEN "watch" ELSE "open")}
             /\ \/ CreatedAgain(n, r) /\ wd' = [wd EXCEPT ![n] = 0] /\ kernelWd' = [kernelWd EXCEPT ![n] = 0]
                \/ ~CreatedAgain(n, r) /\ UNCHANGED <<wd, kernelWd>>
      BY <2>1, EnterAlone
    <2>10. fin # NoResult
      BY <2>3, NoResultType
    <2>11. QED
      BY <1>11, <2>2, <2>3, <2>5, <2>6, <2>9, <2>10 DEF new, known
  <1>12. QED
    BY <1>7, <1>8, <1>9, <1>10, <1>11

(* An event is skipped, or handled as what onFileModified() makes of it.      *)
LEMMA DispatchShape ==
    ASSUME CalmInv, Dispatch
    PROVE  \E n \in Nodes, event \in Action :
           /\ phase = "running" /\ stack = <<>>
           /\ 1 \in DOMAIN queue /\ queue[1].name = n /\ queue[1].act = event
           /\ DOMAIN queue \subseteq Nat \ {0} /\ DOMAIN queue' \subseteq Nat \ {0}
           /\ \A i \in DOMAIN queue' : i + 1 \in DOMAIN queue /\ queue'[i] = queue[i + 1]
           /\ \A i \in DOMAIN queue : i # 1 =>
                 i - 1 \in DOMAIN queue' /\ queue'[i - 1] = queue[i] /\ (i - 1) + 1 = i
           /\ UNCHANGED <<lost, lastWd, phase, atStart, disk, makes, hasty>>
           /\ \/ /\ ~Matched(1, n)
                 /\ UNCHANGED <<kernelWd, wd, results, existing, hasInconsistencies>> /\ Calls' = {}
              \/ Matched(1, n) /\ OnFileModified(n, event)
  <1>1. /\ phase = "running" /\ stack = <<>> /\ queue # <<>> /\ queue' = Tail(queue)
        /\ UNCHANGED <<lost, lastWd, phase, atStart, disk, makes, hasty>>
    BY DEF Dispatch, files
  <1>2. TypeOK
    BY DEF CalmInv, WatchInv
  <1>3. /\ 1 \in DOMAIN queue /\ Head(queue) = queue[1] /\ queue[1] \in Event
        /\ DOMAIN queue \subseteq Nat \ {0} /\ DOMAIN queue' \subseteq Nat \ {0}
        /\ \A i \in DOMAIN queue' : i + 1 \in DOMAIN queue /\ queue'[i] = queue[i + 1]
        /\ \A i \in DOMAIN queue : i # 1 =>
              i - 1 \in DOMAIN queue' /\ queue'[i - 1] = queue[i] /\ (i - 1) + 1 = i
    BY <1>1, <1>2, ReadQueue
  <1>4. PICK n, event : n = queue[1].name /\ event = queue[1].act
    OBVIOUS
  <1>5. n \in Nodes /\ event \in Action
    BY <1>3, <1>4 DEF Event
  <1>6. stack' = stack => Calls' = {}
    BY <1>1 DEF Calls
  <1>7. \/ /\ ~Matched(1, n)
           /\ UNCHANGED <<kernelWd, wd, results, existing, hasInconsistencies>> /\ Calls' = {}
        \/ Matched(1, n) /\ OnFileModified(n, event)
    <2>1. Matched(1, n) <=> wd[Parent[n]] = queue[1].wd
      BY <1>4 DEF Matched
    <2>2. IF wd[Parent[n]] = queue[1].wd
          THEN OnFileModified(n, event)
          ELSE UNCHANGED <<kernelWd, wd, stack, results, existing, hasInconsistencies>>
      BY <1>3, <1>4 DEF Dispatch, tree, model
    <2>3. QED
      BY <1>6, <2>1, <2>2
  <1>8. QED
    BY <1>1, <1>3, <1>4, <1>5, <1>7

(* While all is calm a watch goes only with the removal of its directory, and  *)
(* nothing that happened in that directory is left to be read.                *)
LEMMA HandledWatches ==
    ASSUME CalmInv, NEW n \in Nodes, NEW event \in Action, phase = "running", stack = <<>>,
           1 \in DOMAIN queue, queue[1].name = n, queue[1].act = event,
           DOMAIN queue \subseteq Nat \ {0},
           OnFileModified(n, event), Calm, ~hasInconsistencies'
    PROVE  /\ \A d \in AllDirs :
                 \/ wd'[d] = wd[d] /\ kernelWd'[d] = kernelWd[d]
                 \/ d = n /\ n \in Dirs /\ event = "delete"
           /\ n \in Dirs /\ event = "delete" =>
                 /\ wd'[n] = 0 /\ kernelWd'[n] = 0 /\ ~disk[n]
                 /\ \A m \in Nodes : Parent[m] = n => ~disk[m] /\ Quiet(m)
  <1>1. PICK r, act : r = results[KeyOf(n)] /\ act = Effective(r, event, n \in existing, IsRoot)
    OBVIOUS
  <1>2. wd \in [AllDirs -> Nat] /\ kernelWd \in [AllDirs -> Nat]
    BY DEF CalmInv, WatchInv, TypeOK
  <1>3. \/ UNCHANGED <<wd, kernelWd>> /\ (n \in Dirs /\ event = "delete" => toWatch[n] # "exists")
        \/ /\ n \in Dirs /\ event = "delete"
           /\ wd' = [wd EXCEPT ![n] = 0] /\ kernelWd' = [kernelWd EXCEPT ![n] = 0]
    <2>1. act = "delete" <=> event = "delete"
      BY <1>1, EffectiveType
    <2>2. \/ /\ n \notin Dirs \/ act \notin {"create", "delete"}
             /\ UNCHANGED <<kernelWd, wd>>
          \/ act = "create" /\ UNCHANGED <<kernelWd, wd>>
          \/ /\ n \in Dirs /\ event = "delete"
             /\ \/ wd' = [wd EXCEPT ![n] = 0] /\ kernelWd' = [kernelWd EXCEPT ![n] = 0]
                \/ toWatch[n] # "exists" /\ UNCHANGED <<wd, kernelWd>>
      BY <1>1, Handled
    <2>3. QED
      BY <2>1, <2>2
  <1>4. \A d \in AllDirs :
           \/ wd'[d] = wd[d] /\ kernelWd'[d] = kernelWd[d]
           \/ d = n /\ n \in Dirs /\ event = "delete"
    BY <1>2, <1>3
  <1>5. ASSUME n \in Dirs, event = "delete"
        PROVE  /\ wd'[n] = 0 /\ kernelWd'[n] = 0 /\ ~disk[n]
               /\ \A m \in Nodes : Parent[m] = n => ~disk[m] /\ Quiet(m)
    <2>1. n \in AllDirs
      BY <1>5 DEF AllDirs
    <2>2. toWatch[n] # "exists" => wd[n] = 0 /\ kernelWd[n] = 0
      BY <2>1 DEF CalmInv, WatchInv, AssertionsHold
    <2>3. wd'[n] = 0 /\ kernelWd'[n] = 0
      BY <1>2, <1>3, <1>5, <2>1, <2>2
    <2>4. ~disk[n]
      BY <1>5 DEF CalmInv, RemovalInv
    <2>5. ASSUME NEW m \in Nodes, Parent[m] = n PROVE ~disk[m] /\ Quiet(m)
      <3>1. ~disk[m]
        BY <1>5, <2>4, <2>5 DEF CalmInv, DiskInv, Present
      <3>2. ASSUME NEW i \in DOMAIN queue, Matched(i, m) PROVE FALSE
        <4>1. Parent[queue[i].name] = n /\ queue[i].wd = wd[n]
          BY <2>5, <3>2 DEF Matched
        <4>2. i < 1
          BY <1>5, <4>1 DEF CalmInv, OrderInv
        <4>3. QED
          BY <4>2
      <3>3. QED
        BY <3>1, <3>2 DEF Quiet
    <2>6. QED
      BY <2>3, <2>4, <2>5
  <1>6. QED
    BY <1>4, <1>5

(* The event at the head of the queue was about something that is over.       *)
LEMMA DispatchCalm == ASSUME CalmInv, WatchInv', Dispatch PROVE CalmInv'
  <1>1. PICK n \in Nodes, event \in Action :
           /\ phase = "running" /\ stack = <<>>
           /\ 1 \in DOMAIN queue /\ queue[1].name = n /\ queue[1].act = event
           /\ DOMAIN queue \subseteq Nat \ {0} /\ DOMAIN queue' \subseteq Nat \ {0}
           /\ \A i \in DOMAIN queue' : i + 1 \in DOMAIN queue /\ queue'[i] = queue[i + 1]
           /\ \A i \in DOMAIN queue : i # 1 =>
                 i - 1 \in DOMAIN queue' /\ queue'[i - 1] = queue[i] /\ (i - 1) + 1 = i
           /\ UNCHANGED <<lost, lastWd, phase, atStart, disk, makes, hasty>>
           /\ \/ /\ ~Matched(1, n)
                 /\ UNCHANGED <<kernelWd, wd, results, existing, hasInconsistencies>> /\ Calls' = {}
              \/ Matched(1, n) /\ OnFileModified(n, event)
    BY DispatchShape
  <1>2. PICK r, act : r = results[KeyOf(n)] /\ act = Effective(r, event, n \in existing, IsRoot)
    OBVIOUS
  <1> DEFINE g == Call(n, IF wd'[n] = 0 THEN "watch" ELSE "open")
  <1>3. /\ FlagInv' /\ (hasInconsistencies => hasInconsistencies')
        /\ \/ UNCHANGED <<wd, kernelWd>>
           \/ n \in Dirs /\ wd' = [wd EXCEPT ![n] = 0] /\ kernelWd' = [kernelWd EXCEPT ![n] = 0]
        /\ Calls' = {} \/ (n \in Dirs /\ Matched(1, n) /\ act = "create" /\ Calls' = {g})
    <2>1. CASE Matched(1, n) /\ OnFileModified(n, event)
      BY <1>1, <1>2, <2>1, Handled
    <2>2. CASE ~Matched(1, n) /\ UNCHANGED <<kernelWd, wd, results, existing, hasInconsistencies>> /\ Calls' = {}
      BY <2>2 DEF CalmInv, FlagInv
    <2>3. QED
      BY <1>1, <2>1, <2>2
  <1>4. g.dir = n /\ g.names = {} /\ g.stage \in {"watch", "open"}
        /\ (g.stage = "open" => wd'[n] # 0)
    BY DEF Call
  <1> HIDE DEF g
  <1>5. wd \in [AllDirs -> Nat] /\ kernelWd \in [AllDirs -> Nat] /\ Base \notin Dirs
    BY KindsAssumption DEF CalmInv, WatchInv, TypeOK, Nodes
  <1>6. /\ \A d \in AllDirs : kernelWd'[d] # 0 => kernelWd[d] # 0
        /\ kernelWd'[Base] = kernelWd[Base]
        /\ \A d \in AllDirs : wd'[d] = 0 \/ wd'[d] = wd[d]
    BY <1>3, <1>5 DEF AllDirs
  <1>7. DiskInv'
    BY <1>1, <1>6 DEF CalmInv, DiskInv, Present, AllDirs
  <1>8. DescriptorInv'
    <2>1. \A d \in AllDirs : wd'[d] <= lastWd
      <3>1. SUFFICES ASSUME NEW d \in AllDirs PROVE wd'[d] <= lastWd
        OBVIOUS
      <3>2. wd[d] <= lastWd /\ lastWd \in Nat
        BY DEF CalmInv, WatchInv, TypeOK, DescriptorInv
      <3>3. wd'[d] = 0 \/ wd'[d] = wd[d]
        BY <1>6
      <3>4. 0 <= lastWd
        BY <3>2
      <3>5. QED
        BY <3>2, <3>3, <3>4
    <2>2. \A i \in DOMAIN queue' : queue'[i].wd # 0 /\ queue'[i].wd <= lastWd
      BY <1>1 DEF CalmInv, DescriptorInv
    <2>3. QED
      BY <1>1, <2>1, <2>2 DEF DescriptorInv
  <1>9. NamesInv'
    BY <1>3, <1>4 DEF NamesInv
  <1>10. ASSUME Calm' PROVE RemovalInv' /\ StaleInv' /\ OrderInv' /\ ParentsInv'
    <2>1. Calm /\ ~hasInconsistencies'
      BY <1>1, <1>3, <1>10 DEF Calm
    <2>2. RemovalInv /\ StaleInv /\ OrderInv /\ ParentsInv
      BY <2>1 DEF CalmInv
    <2> DEFINE gone == Matched(1, n) /\ n \in Dirs /\ event = "delete"
    <2>3. /\ \A d \in AllDirs : (wd'[d] = wd[d] /\ kernelWd'[d] = kernelWd[d]) \/ (gone /\ d = n)
          /\ gone => /\ wd'[n] = 0 /\ kernelWd'[n] = 0 /\ ~disk[n]
                     /\ \A m \in Nodes : Parent[m] = n => ~disk[m] /\ Quiet(m)
      <3>1. CASE Matched(1, n) /\ OnFileModified(n, event)
        BY <1>1, <2>1, <3>1, HandledWatches
      <3>2. CASE ~Matched(1, n) /\ UNCHANGED <<kernelWd, wd>>
        BY <3>2
      <3>3. QED
        BY <1>1, <3>1, <3>2
    <2>4. gone => Matched(1, n) /\ n \in Dirs /\ event = "delete"
      OBVIOUS
    <2>5. Matched(1, n) /\ n \in Dirs /\ event = "delete" => gone
      OBVIOUS
    <2> HIDE DEF gone
    <2>6. RemovalInv'
      BY <1>1, <2>2 DEF RemovalInv
    <2>7. \A d \in Dirs : wd'[d] # 0 => wd[d] # 0 /\ wd'[d] = wd[d] /\ wd'[Parent[d]] = wd[Parent[d]] /\ wd[Parent[d]] # 0
      <3>1. SUFFICES ASSUME NEW d \in Dirs, wd'[d] # 0
                     PROVE wd[d] # 0 /\ wd'[d] = wd[d] /\ wd'[Parent[d]] = wd[Parent[d]] /\ wd[Parent[d]] # 0
        OBVIOUS
      <3>2. d \in AllDirs /\ d \in Nodes /\ Parent[d] \in AllDirs
        BY ParentDir DEF AllDirs, Nodes
      <3>3. wd[d] # 0 /\ wd'[d] = wd[d] /\ wd[Parent[d]] # 0
        BY <1>6, <2>2, <3>1, <3>2 DEF ParentsInv
      <3>4. ASSUME gone, Parent[d] = n PROVE FALSE
        <4>1. ~disk[d] /\ Quiet(d)
          BY <2>3, <3>2, <3>4
        <4>2. kernelWd[d] = 0
          BY <4>1 DEF CalmInv, DiskInv
        <4>3. QED
          BY <2>2, <3>3, <4>1, <4>2 DEF StaleInv, Quiet
      <3>5. QED
        BY <2>3, <3>2, <3>3, <3>4
    <2>8. StaleInv'
      <3>1. SUFFICES ASSUME NEW d \in Dirs, wd'[d] # 0, kernelWd'[d] = 0
                     PROVE  \E i \in DOMAIN queue' : Matched(i, d)' /\ queue'[i].act = "delete"
        BY DEF StaleInv
      <3>2. wd[d] # 0 /\ wd'[Parent[d]] = wd[Parent[d]]
        BY <2>7, <3>1
      <3>3. kernelWd[d] = 0
        BY <2>3, <3>1 DEF AllDirs
      <3>4. PICK i \in DOMAIN queue : Matched(i, d) /\ queue[i].act = "delete"
        BY <2>2, <3>2, <3>3 DEF StaleInv
      <3>5. i # 1
        <4>1. SUFFICES ASSUME i = 1 PROVE FALSE
          OBVIOUS
        <4>2. d = n /\ event = "delete" /\ Matched(1, n)
          BY <1>1, <3>4, <4>1 DEF Matched
        <4>3. QED
          BY <2>3, <2>5, <3>1, <4>2
      <3>6. i - 1 \in DOMAIN queue' /\ queue'[i - 1] = queue[i]
        BY <1>1, <3>5
      <3>7. Matched(i - 1, d)' /\ queue'[i - 1].act = "delete"
        BY <3>2, <3>4, <3>6 DEF Matched
      <3>8. QED
        BY <3>6, <3>7
    <2>9. OrderInv'
      <3>1. SUFFICES ASSUME NEW i \in DOMAIN queue', NEW j \in DOMAIN queue', NEW d \in Dirs,
                            d = queue'[i].name, queue'[i].act = "delete",
                            Parent[queue'[j].name] = d, queue'[j].wd = wd'[d]
                     PROVE  j < i
        BY DEF OrderInv
      <3>2. i + 1 \in DOMAIN queue /\ queue'[i] = queue[i + 1] /\ j + 1 \in DOMAIN queue /\ queue'[j] = queue[j + 1]
        BY <1>1
      <3>3. queue'[j].wd # 0
        BY <3>2 DEF CalmInv, DescriptorInv
      <3>4. wd'[d] = wd[d]
        BY <1>6, <3>1, <3>3 DEF AllDirs
      <3>5. j + 1 < i + 1
        BY <2>2, <3>1, <3>2, <3>4 DEF OrderInv
      <3>6. i \in Nat /\ j \in Nat
        BY <1>1
      <3>7. QED
        BY <3>5, <3>6
    <2>10. ParentsInv'
      <3>1. \A d \in Dirs : wd'[d] # 0 => wd'[Parent[d]] # 0
        BY <2>7
      <3>2. ASSUME n \in Dirs, Matched(1, n), act = "create" PROVE wd'[Parent[n]] # 0
        <4>1. event # "delete"
          BY <1>2, <3>2, EffectiveType
        <4>2. ~gone
          BY <2>4, <4>1
        <4>3. queue[1].wd # 0 /\ queue[1].wd = wd[Parent[n]]
          BY <1>1, <3>2 DEF CalmInv, DescriptorInv, Matched
        <4>4. QED
          BY <2>3, <4>2, <4>3, ParentDir
      <3>3. \A f \in Calls' : f = g /\ n \in Dirs /\ wd'[Parent[n]] # 0
        BY <1>3, <3>2
      <3>4. QED
        BY <1>4, <3>1, <3>3 DEF ParentsInv
    <2>11. QED
      BY <2>6, <2>8, <2>9, <2>10
  <1>11. QED
    BY <1>3, <1>7, <1>8, <1>9, <1>10 DEF CalmInv

(* The tree and its watches stay in order, whoever moves.                     *)
LEMMA CalmStep == ASSUME CalmInv, [Next]_vars PROVE CalmInv'
  <1>1. WatchInv'
    BY NextWatch DEF CalmInv
  <1>2. CASE Environment
    BY <1>1, <1>2, EnvironmentCalm
  <1>3. CASE AddWatch
    BY <1>1, <1>3, AddWatchCalm
  <1>4. CASE OpenDirectory
    BY <1>1, <1>4, OpenDirectoryCalm
  <1>5. ASSUME NEW n \in Nodes, Remember(n) \/ SetUp(n) \/ Discover(n) PROVE CalmInv'
    BY <1>1, <1>5, RememberCalm, SetUpCalm, DiscoverCalm
  <1>6. CASE EndNames
    BY <1>1, <1>6, EndNamesCalm
  <1>7. CASE EndSetup
    BY <1>1, <1>7, EndSetupCalm
  <1>8. CASE Dispatch
    BY <1>1, <1>8, DispatchCalm
  <1>9. CASE UNCHANGED vars
    BY <1>9 DEF vars, CalmInv, WatchInv, TypeOK, AssertionsHold, StackInv, SetupInv, AheadIsNew, DiskInv, Present,
                DescriptorInv, NamesInv, FlagInv, RemovalInv, StaleInv, OrderInv, ParentsInv, Matched, Calls, Calm
  <1>10. QED
    BY <1>2, <1>3, <1>4, <1>5, <1>6, <1>7, <1>8, <1>9 DEF Next, Listing

LEMMA InitCalm == ASSUME Init PROVE CalmInv
  <1>1. WatchInv
    BY InitWatch
  <1>2. queue = <<>> /\ DOMAIN queue = {} /\ Base \in AllDirs /\ Base \notin Dirs
    BY KindsAssumption DEF Init, AllDirs, Nodes
  <1>3. Calls = {Call(Base, "list")}
    BY DEF Init, Calls
  <1>4. DiskInv
    BY <1>2 DEF Init, DiskInv, Present, AllDirs
  <1>5. DescriptorInv
    BY <1>2 DEF Init, DescriptorInv
  <1>6. NamesInv
    BY <1>3 DEF Init, NamesInv, Call
  <1>7. FlagInv
    BY DEF Init, FlagInv, NoResult
  <1>8. RemovalInv /\ OrderInv
    BY <1>2 DEF RemovalInv, OrderInv
  <1>9. \A d \in Dirs : wd[d] = 0
    BY <1>2 DEF Init, AllDirs
  <1>10. StaleInv
    BY <1>9 DEF StaleInv
  <1>11. ParentsInv
    <2>1. wd[Base] # 0
      BY <1>2 DEF Init
    <2>2. QED
      BY <1>3, <1>9, <2>1 DEF ParentsInv, Call
  <1>12. QED
    BY <1>1, <1>4, <1>5, <1>6, <1>7, <1>8, <1>10, <1>11 DEF CalmInv

-----------------------------------------------------------------------------
(* What the queue says of one name, before and after a step.                  *)

(* A step that leaves the queue and what of it will be handled.               *)
LEMMA SameQueue ==
    ASSUME UNCHANGED queue,
           \A n \in Nodes : \A i \in DOMAIN queue : Matched(i, n)' <=> Matched(i, n)
    PROVE  \A n \in Nodes :
              /\ Quiet(n)' <=> Quiet(n)
              /\ \A i \in DOMAIN queue : /\ IsFirst(i, n)' <=> IsFirst(i, n)
                                         /\ IsLast(i, n)' <=> IsLast(i, n)
  BY DEF Quiet, IsFirst, IsLast

(* A change on the disk says nothing new of other names.                      *)
LEMMA OthersQueue ==
    ASSUME NEW n, NEW m \in Nodes, m # n, UNCHANGED wd,
           \/ queue' = queue
           \/ \E k \in DOMAIN queue' :
                 /\ queue'[k].name = n
                 /\ \A i \in DOMAIN queue' : i <= k /\ (i = k \/ i \in DOMAIN queue)
                 /\ \A i \in DOMAIN queue : i \in DOMAIN queue' /\ queue'[i] = queue[i]
    PROVE  /\ Quiet(m)' <=> Quiet(m)
           /\ \A i \in DOMAIN queue' :
                 /\ IsFirst(i, m)' => i \in DOMAIN queue /\ IsFirst(i, m) /\ queue'[i] = queue[i]
                 /\ IsLast(i, m)' => i \in DOMAIN queue /\ IsLast(i, m) /\ queue'[i] = queue[i]
           /\ \A i \in DOMAIN queue : Matched(i, m) =>
                 i \in DOMAIN queue' /\ Matched(i, m)' /\ queue'[i] = queue[i]
  <1>1. \A i \in DOMAIN queue : i \in DOMAIN queue' /\ queue'[i] = queue[i]
    OBVIOUS
  <1>2. \A i \in DOMAIN queue : Matched(i, m)' <=> Matched(i, m)
    BY <1>1 DEF Matched
  <1>3. \A i \in DOMAIN queue' : Matched(i, m)' => i \in DOMAIN queue
    BY DEF Matched
  <1>4. Quiet(m)' <=> Quiet(m)
    BY <1>1, <1>2, <1>3 DEF Quiet
  <1>5. ASSUME NEW i \in DOMAIN queue'
        PROVE  /\ IsFirst(i, m)' => i \in DOMAIN queue /\ IsFirst(i, m) /\ queue'[i] = queue[i]
               /\ IsLast(i, m)' => i \in DOMAIN queue /\ IsLast(i, m) /\ queue'[i] = queue[i]
    BY <1>1, <1>2, <1>3 DEF IsFirst, IsLast
  <1>6. QED
    BY <1>1, <1>2, <1>4, <1>5

(* The last event of a name is the one just posted; if it is also the first,   *)
(* there was none.                                                          *)
LEMMA PostedQueue ==
    ASSUME NEW n \in Nodes, NEW act, UNCHANGED wd, NEW k \in DOMAIN queue', DOMAIN queue' \subseteq Nat,
           queue'[k] = [wd |-> wd[Parent[n]], name |-> n, act |-> act],
           \A i \in DOMAIN queue' : i <= k /\ (i = k \/ i \in DOMAIN queue),
           \A i \in DOMAIN queue : i \in DOMAIN queue' /\ queue'[i] = queue[i]
    PROVE  /\ Matched(k, n)' /\ queue'[k].act = act /\ ~Quiet(n)'
           /\ \A i \in DOMAIN queue' : IsLast(i, n)' => i = k
           /\ \A i \in DOMAIN queue' : IsFirst(i, n)' =>
                 \/ i \in DOMAIN queue /\ IsFirst(i, n) /\ queue'[i] = queue[i]
                 \/ i = k /\ Quiet(n)
  <1>1. Matched(k, n)' /\ queue'[k].act = act
    BY DEF Matched
  <1>2. ~Quiet(n)'
    BY <1>1 DEF Quiet
  <1>3. ASSUME NEW i \in DOMAIN queue', IsLast(i, n)' PROVE i = k
    <2>1. ~(k > i)
      BY <1>1, <1>3 DEF IsLast
    <2>2. i <= k /\ i \in Nat /\ k \in Nat
      OBVIOUS
    <2>3. QED
      BY <2>1, <2>2
  <1>4. \A j \in DOMAIN queue : Matched(j, n)' <=> Matched(j, n)
    BY DEF Matched
  <1>5. ASSUME NEW i \in DOMAIN queue', IsFirst(i, n)'
        PROVE  \/ i \in DOMAIN queue /\ IsFirst(i, n) /\ queue'[i] = queue[i]
               \/ i = k /\ Quiet(n)
    <2>1. Matched(i, n)' /\ \A j \in DOMAIN queue : j < i => ~Matched(j, n)
      BY <1>4, <1>5 DEF IsFirst
    <2>2. CASE i \in DOMAIN queue
      BY <1>4, <2>1, <2>2 DEF IsFirst
    <2>3. CASE i \notin DOMAIN queue
      <3>1. i = k
        BY <2>3
      <3>2. \A j \in DOMAIN queue : j < k
        <4>1. SUFFICES ASSUME NEW j \in DOMAIN queue PROVE j < k
          OBVIOUS
        <4>2. j \in Nat /\ k \in Nat /\ j <= k /\ j # k
          BY <2>3, <3>1
        <4>3. QED
          BY <4>2
      <3>3. QED
        BY <2>1, <3>1, <3>2 DEF Quiet
    <2>4. QED
      BY <2>2, <2>3
  <1>6. QED
    BY <1>1, <1>2, <1>3, <1>5

(* Reading an event leaves what is said of the names it is not about.         *)
LEMMA ReadOn ==
    ASSUME NEW m \in Nodes,
           wd'[Parent[m]] = 0 \/ wd'[Parent[m]] = wd[Parent[m]],
           \A i \in DOMAIN queue : queue[i].wd # 0,
           DOMAIN queue \subseteq Nat \ {0}, DOMAIN queue' \subseteq Nat \ {0}, 1 \in DOMAIN queue,
           \A i \in DOMAIN queue' : i + 1 \in DOMAIN queue /\ queue'[i] = queue[i + 1],
           \A i \in DOMAIN queue : i # 1 =>
              i - 1 \in DOMAIN queue' /\ queue'[i - 1] = queue[i] /\ (i - 1) + 1 = i
    PROVE  /\ wd'[Parent[m]] = 0 => Quiet(m)'
           /\ \A i \in DOMAIN queue' : Matched(i, m)' => Matched(i + 1, m) /\ wd'[Parent[m]] = wd[Parent[m]]
           /\ \A i \in DOMAIN queue' : IsLast(i, m)' => IsLast(i + 1, m)
           /\ ~Matched(1, m) => \A i \in DOMAIN queue' : IsFirst(i, m)' => IsFirst(i + 1, m)
           /\ wd'[Parent[m]] = wd[Parent[m]] =>
                 /\ ~Matched(1, m) => (Quiet(m)' <=> Quiet(m))
                 /\ Quiet(m)' /\ Matched(1, m) => IsLast(1, m)
                 /\ \A i \in DOMAIN queue : i # 1 /\ Matched(i, m) =>
                       i - 1 \in DOMAIN queue' /\ queue'[i - 1] = queue[i] /\ Matched(i - 1, m)'
  <1>1. ASSUME NEW i \in DOMAIN queue', Matched(i, m)'
        PROVE  Matched(i + 1, m) /\ wd'[Parent[m]] = wd[Parent[m]] /\ wd'[Parent[m]] # 0
    <2>1. i + 1 \in DOMAIN queue /\ queue'[i] = queue[i + 1] /\ queue'[i].wd = wd'[Parent[m]] /\ queue'[i].name = m
      BY <1>1 DEF Matched
    <2>2. QED
      BY <2>1 DEF Matched
  <1>2. wd'[Parent[m]] = 0 => Quiet(m)'
    BY <1>1 DEF Quiet
  <1>3. ASSUME wd'[Parent[m]] = wd[Parent[m]], NEW i \in DOMAIN queue, i # 1, Matched(i, m)
        PROVE  i - 1 \in DOMAIN queue' /\ queue'[i - 1] = queue[i] /\ Matched(i - 1, m)'
    BY <1>3 DEF Matched
  <1>4. ASSUME NEW i \in DOMAIN queue', IsLast(i, m)' PROVE IsLast(i + 1, m)
    <2>1. Matched(i + 1, m) /\ wd'[Parent[m]] = wd[Parent[m]]
      BY <1>1, <1>4 DEF IsLast
    <2>2. ASSUME NEW j \in DOMAIN queue, j > i + 1, Matched(j, m) PROVE FALSE
      <3>1. j # 1 /\ j \in Nat /\ i \in Nat
        BY <2>2
      <3>2. j - 1 \in DOMAIN queue' /\ Matched(j - 1, m)'
        BY <1>3, <2>1, <2>2, <3>1
      <3>3. j - 1 > i
        BY <2>2, <3>1
      <3>4. QED
        BY <1>4, <3>2, <3>3 DEF IsLast
    <2>3. QED
      BY <2>1, <2>2 DEF IsLast
  <1>5. ASSUME ~Matched(1, m), NEW i \in DOMAIN queue', IsFirst(i, m)' PROVE IsFirst(i + 1, m)
    <2>1. Matched(i + 1, m) /\ wd'[Parent[m]] = wd[Parent[m]]
      BY <1>1, <1>5 DEF IsFirst
    <2>2. ASSUME NEW j \in DOMAIN queue, j < i + 1, Matched(j, m) PROVE FALSE
      <3>1. j # 1 /\ j \in Nat /\ i \in Nat
        BY <1>5, <2>2
      <3>2. j - 1 \in DOMAIN queue' /\ Matched(j - 1, m)'
        BY <1>3, <2>1, <2>2, <3>1
      <3>3. j - 1 < i
        BY <2>2, <3>1
      <3>4. QED
        BY <1>5, <3>2, <3>3 DEF IsFirst
    <2>3. QED
      BY <2>1, <2>2 DEF IsFirst
  <1>6. ASSUME wd'[Parent[m]] = wd[Parent[m]], ~Matched(1, m) PROVE Quiet(m)' <=> Quiet(m)
    <2>1. ASSUME Quiet(m)', NEW i \in DOMAIN queue, Matched(i, m) PROVE FALSE
      <3>1. i # 1
        BY <1>6, <2>1
      <3>2. QED
        BY <1>3, <1>6, <2>1, <3>1 DEF Quiet
    <2>2. ASSUME Quiet(m), NEW i \in DOMAIN queue', Matched(i, m)' PROVE FALSE
      BY <1>1, <2>2 DEF Quiet
    <2>3. QED
      BY <2>1, <2>2 DEF Quiet
  <1>7. ASSUME wd'[Parent[m]] = wd[Parent[m]], Quiet(m)', Matched(1, m) PROVE IsLast(1, m)
    <2>1. ASSUME NEW j \in DOMAIN queue, j > 1, Matched(j, m) PROVE FALSE
      <3>1. j # 1
        BY <2>1
      <3>2. QED
        BY <1>3, <1>7, <2>1, <3>1 DEF Quiet
    <2>2. QED
      BY <1>7, <2>1 DEF IsLast
  <1>8. QED
    BY <1>1, <1>2, <1>3, <1>4, <1>5, <1>6, <1>7

-----------------------------------------------------------------------------
(* Every result tells the truth about the beginning of the run.               *)

Origins == OldInv /\ NewInv /\ FirstInv /\ ScanInv /\ OriginIsRight

(* The first thing that happens to a name is what changes it from what it was. *)
LEMMA EnvironmentOrigins ==
    ASSUME CalmInv, Calm, Calm', WatchInv', Origins, Environment PROVE Origins'
  <1>1. PICK n \in Nodes, act \in Action : Alters(n, act)
    BY EnvironmentAlters DEF CalmInv, WatchInv
  <1>2. UNCHANGED <<lastWd, phase, stack, atStart, toWatch, wd, existing, results,
                    hasInconsistencies, shown>>
    BY EnvironmentAlters DEF CalmInv, WatchInv
  <1>3. disk \in [Nodes -> BOOLEAN]
    BY DEF CalmInv, WatchInv, TypeOK
  <1>4. (disk'[n] <=> act # "delete") /\ (disk[n] <=> act # "create")
        /\ \A m \in Nodes : m # n => disk'[m] = disk[m]
    BY <1>1, <1>3 DEF Alters
  <1> DEFINE p == Parent[n]
  <1>5. \/ wd[p] = 0 /\ kernelWd[p] = 0 /\ queue' = queue
        \/ /\ wd[p] # 0
           /\ \E k \in DOMAIN queue' :
                 /\ queue'[k] = [wd |-> wd[p], name |-> n, act |-> act]
                 /\ \A i \in DOMAIN queue' : i <= k /\ (i = k \/ i \in DOMAIN queue)
                 /\ \A i \in DOMAIN queue : i \in DOMAIN queue' /\ queue'[i] = queue[i]
    BY <1>1, CalmChange
  <1>6. Origins
    OBVIOUS
  <1>7. \A m \in Nodes : Unheard(m)' <=> Unheard(m)
    BY <1>2 DEF Unheard
  <1>8. DOMAIN queue' \subseteq Nat
    BY DEF WatchInv, TypeOK
  <1>9. ASSUME NEW m \in Nodes
        PROVE  /\ Unheard(m) /\ atStart[m] => wd[Parent[m]] # 0 /\ (Quiet(m)' => disk'[m])
               /\ Unheard(m) /\ ~atStart[m] /\ Quiet(m)' =>
                     m \notin existing /\ (phase = "setup" /\ wd[Parent[m]] # 0 => ~disk'[m])
               /\ \A i \in DOMAIN queue' :
                     Unheard(m) /\ IsFirst(i, m)' /\ (atStart[m] \/ phase = "setup" \/ m \in existing)
                         => (queue'[i].act = "create" <=> ~atStart[m])
    <2>1. /\ Unheard(m) /\ atStart[m] => wd[Parent[m]] # 0 /\ (Quiet(m) => disk[m])
          /\ Unheard(m) /\ ~atStart[m] /\ Quiet(m) =>
                m \notin existing /\ (phase = "setup" /\ wd[Parent[m]] # 0 => ~disk[m])
          /\ \A i \in DOMAIN queue :
                Unheard(m) /\ IsFirst(i, m) /\ (atStart[m] \/ phase = "setup" \/ m \in existing)
                    => (queue[i].act = "create" <=> ~atStart[m])
      BY DEF Origins, OldInv, NewInv, FirstInv
    <2>2. CASE m # n
      <3>1. \/ queue' = queue
            \/ \E k \in DOMAIN queue' :
                  /\ queue'[k].name = n
                  /\ \A i \in DOMAIN queue' : i <= k /\ (i = k \/ i \in DOMAIN queue)
                  /\ \A i \in DOMAIN queue : i \in DOMAIN queue' /\ queue'[i] = queue[i]
        BY <1>5
      <3>2. /\ Quiet(m)' <=> Quiet(m)
            /\ \A i \in DOMAIN queue' :
                  IsFirst(i, m)' => i \in DOMAIN queue /\ IsFirst(i, m) /\ queue'[i] = queue[i]
        BY <1>2, <2>2, <3>1, OthersQueue
      <3>3. disk'[m] = disk[m]
        BY <1>4, <2>2
      <3>4. QED
        BY <2>1, <3>2, <3>3
    <2>3. CASE m = n /\ wd[p] = 0 /\ queue' = queue
      <3>1. \A i \in DOMAIN queue : ~Matched(i, n)
        BY <2>3 DEF CalmInv, DescriptorInv, Matched
      <3>2. (Quiet(n)' <=> Quiet(n)) /\ Quiet(n) /\ \A i \in DOMAIN queue : ~IsFirst(i, n)'
        BY <1>2, <2>3, <3>1 DEF Quiet, IsFirst, Matched
      <3>3. QED
        BY <2>1, <2>3, <3>2
    <2>4. CASE m = n /\ wd[p] # 0
      <3>1. PICK k \in DOMAIN queue' :
               /\ queue'[k] = [wd |-> wd[p], name |-> n, act |-> act]
               /\ \A i \in DOMAIN queue' : i <= k /\ (i = k \/ i \in DOMAIN queue)
               /\ \A i \in DOMAIN queue : i \in DOMAIN queue' /\ queue'[i] = queue[i]
        BY <1>5, <2>4
      <3>2. /\ queue'[k].act = act /\ ~Quiet(n)'
            /\ \A i \in DOMAIN queue' : IsFirst(i, n)' =>
                  \/ i \in DOMAIN queue /\ IsFirst(i, n) /\ queue'[i] = queue[i]
                  \/ i = k /\ Quiet(n)
        BY <1>2, <1>8, <3>1, PostedQueue
      <3>3. ASSUME NEW i \in DOMAIN queue', Unheard(m), IsFirst(i, m)', atStart[m] \/ phase = "setup" \/ m \in existing
            PROVE  queue'[i].act = "create" <=> ~atStart[m]
        <4>1. CASE i \in DOMAIN queue /\ IsFirst(i, n) /\ queue'[i] = queue[i]
          BY <2>1, <2>4, <3>3, <4>1
        <4>2. CASE i = k /\ Quiet(n)
          BY <1>4, <2>1, <2>4, <3>2, <3>3, <4>2
        <4>3. QED
          BY <2>4, <3>2, <3>3, <4>1, <4>2
      <3>4. QED
        BY <2>1, <2>4, <3>2, <3>3
    <2>5. QED
      BY <1>5, <2>2, <2>3, <2>4
  <1>10. OldInv' /\ NewInv' /\ FirstInv'
    <2>1. \A m \in Nodes : m \in existing' <=> m \in existing
      BY <1>2
    <2>2. QED
      BY <1>2, <1>7, <1>9, <2>1 DEF OldInv, NewInv, FirstInv
  <1>11. ScanInv'
    BY <1>2, <1>6, <1>7 DEF Origins, ScanInv, Calls, Children
  <1>12. OriginIsRight'
    BY <1>2, <1>6 DEF Origins, OriginIsRight, Calm
  <1>13. QED
    BY <1>10, <1>11, <1>12 DEF Origins

(* When a directory begins to be watched, what start() takes down as being     *)
(* there is there; and nothing that was there is in a directory watched later. *)
LEMMA AddWatchOrigins ==
    ASSUME CalmInv, Calm, Calm', WatchInv', Origins, AddWatch PROVE Origins'
  <1> DEFINE d == Top.dir
             f == Call(d, IF phase = "setup" THEN "list" ELSE "open")
  <1>1. /\ d \in Dirs /\ wd[d] = 0 /\ kernelWd[d] = 0
        /\ UNCHANGED <<queue, lost, toWatch, phase, disk, makes, hasty, existing, results,
                       hasInconsistencies, shown>>
        /\ \A n \in Nodes : \A i \in DOMAIN queue : Matched(i, n)' <=> Matched(i, n)
        /\ \A x \in AllDirs : x # d => wd'[x] = wd[x] /\ kernelWd'[x] = kernelWd[x]
        /\ IF disk[d] THEN wd'[d] = lastWd + 1 /\ kernelWd'[d] = lastWd + 1 /\ lastWd' = lastWd + 1
                      ELSE UNCHANGED <<wd, kernelWd, lastWd>>
    BY AddWatchShape
  <1>2. RestCalls \subseteq Calls /\ Calls' \subseteq {f} \cup RestCalls
    <2>1. TypeOK
      BY DEF CalmInv, WatchInv
    <2>2. RestCalls \subseteq Calls /\ IF disk[d] THEN Calls' = {f} \cup RestCalls ELSE Calls' = RestCalls
      BY <2>1, AddWatchCalls
    <2> HIDE DEF d, f
    <2>3. QED
      BY <2>2
  <1>3. f.dir = d
    BY DEF Call
  <1>4. atStart' = IF phase = "setup" /\ disk[d]
                   THEN [n \in Nodes |-> IF Parent[n] = d THEN disk[n] ELSE atStart[n]]
                   ELSE atStart
    BY DEF AddWatch
  <1> HIDE DEF d, f
  <1>5. \A n \in Nodes :
           /\ Quiet(n)' <=> Quiet(n)
           /\ \A i \in DOMAIN queue : IsFirst(i, n)' <=> IsFirst(i, n)
    BY <1>1, SameQueue
  <1>6. disk[d] => wd'[d] # 0
    <2>1. lastWd \in Nat
      BY DEF CalmInv, WatchInv, TypeOK
    <2>2. QED
      BY <1>1, <2>1
  <1>7. \A n \in Nodes : (Unheard(n)' <=> Unheard(n)) /\ (n \in existing' <=> n \in existing)
    BY <1>1 DEF Unheard
  <1>8. ASSUME NEW n \in Nodes
        PROVE  /\ Parent[n] = d /\ Unheard(n) => Quiet(n) /\ ~atStart[n] /\ n \notin existing
               /\ atStart'[n] = atStart[n] \/ (Parent[n] = d /\ phase = "setup" /\ disk[d] /\ atStart'[n] = disk[n])
               /\ wd[Parent[n]] # 0 => wd'[Parent[n]] # 0
    <2>1. Parent[n] \in AllDirs /\ atStart \in [Nodes -> BOOLEAN]
      BY ParentDir DEF CalmInv, WatchInv, TypeOK
    <2>2. Parent[n] = d => Quiet(n)
      BY <1>1 DEF Quiet, Matched, CalmInv, DescriptorInv
    <2>3. Parent[n] = d /\ Unheard(n) => ~atStart[n]
      BY <1>1 DEF Origins, OldInv
    <2>4. Parent[n] = d /\ Unheard(n) => n \notin existing
      BY <2>2, <2>3 DEF Origins, NewInv
    <2>5. wd[Parent[n]] # 0 => wd'[Parent[n]] # 0
      BY <1>1, <2>1
    <2>6. QED
      BY <1>4, <2>1, <2>2, <2>3, <2>4, <2>5
  <1>9. ASSUME NEW n \in Nodes
        PROVE  /\ Unheard(n) /\ atStart'[n] => wd'[Parent[n]] # 0 /\ (Quiet(n)' => disk[n])
               /\ Unheard(n) /\ ~atStart'[n] /\ Quiet(n)' =>
                     n \notin existing /\ (phase = "setup" /\ wd'[Parent[n]] # 0 => ~disk[n])
               /\ \A i \in DOMAIN queue :
                     Unheard(n) /\ IsFirst(i, n)' /\ (atStart'[n] \/ phase = "setup" \/ n \in existing)
                         => (queue[i].act = "create" <=> ~atStart'[n])
    <2>1. /\ Unheard(n) /\ atStart[n] => wd[Parent[n]] # 0 /\ (Quiet(n) => disk[n])
          /\ Unheard(n) /\ ~atStart[n] /\ Quiet(n) =>
                n \notin existing /\ (phase = "setup" /\ wd[Parent[n]] # 0 => ~disk[n])
          /\ \A i \in DOMAIN queue :
                Unheard(n) /\ IsFirst(i, n) /\ (atStart[n] \/ phase = "setup" \/ n \in existing)
                    => (queue[i].act = "create" <=> ~atStart[n])
      BY DEF Origins, OldInv, NewInv, FirstInv
    <2>2. CASE Parent[n] = d /\ phase = "setup" /\ disk[d] /\ atStart'[n] = disk[n]
      <3>1. Unheard(n) => Quiet(n) /\ n \notin existing
        BY <1>8, <2>2
      <3>2. \A i \in DOMAIN queue : Quiet(n) => ~IsFirst(i, n)'
        BY <1>5 DEF IsFirst, Quiet
      <3>3. QED
        BY <1>6, <2>2, <3>1, <3>2
    <2>3. CASE atStart'[n] = atStart[n]
      <3>1. CASE wd[Parent[n]] # 0
        BY <1>5, <1>8, <2>1, <2>3, <3>1
      <3>2. CASE wd[Parent[n]] = 0 /\ Parent[n] # d
        <4>1. wd'[Parent[n]] = 0
          BY <1>1, <3>2, ParentDir
        <4>2. QED
          BY <1>5, <2>1, <2>3, <3>2, <4>1
      <3>3. CASE Parent[n] = d
        <4>1. Unheard(n) => Quiet(n) /\ n \notin existing /\ ~atStart[n]
          BY <1>8, <3>3
        <4>2. \A i \in DOMAIN queue : Quiet(n) => ~IsFirst(i, n)'
          BY <1>5 DEF IsFirst, Quiet
        <4>3. phase = "setup" /\ wd'[Parent[n]] # 0 /\ Unheard(n) => ~disk[n]
          <5>1. SUFFICES ASSUME phase = "setup", wd'[Parent[n]] # 0, disk[n] PROVE ~Unheard(n)
            OBVIOUS
          <5>2. disk[d]
            BY <1>1, <3>3, <5>1
          <5>3. atStart'[n] = disk[n]
            BY <1>4, <3>3, <5>1, <5>2
          <5>4. QED
            BY <2>3, <4>1, <5>1, <5>3
        <4>4. QED
          BY <2>3, <4>1, <4>2, <4>3
      <3>4. QED
        BY <3>1, <3>2, <3>3
    <2>4. QED
      BY <1>8, <2>2, <2>3
  <1>10. OldInv' /\ NewInv' /\ FirstInv'
    BY <1>1, <1>7, <1>9 DEF OldInv, NewInv, FirstInv
  <1>11. ScanInv'
    <2>1. ASSUME phase = "running", NEW c \in Calls', NEW n \in Nodes, Parent[n] = c.dir, Unheard(n)
          PROVE  ~atStart'[n]
      <3>1. atStart' = atStart
        BY <1>4, <2>1
      <3>2. CASE c = f
        BY <1>3, <1>8, <2>1, <3>1, <3>2
      <3>3. CASE c \in Calls
        BY <2>1, <3>1, <3>3 DEF Origins, ScanInv, Children
      <3>4. QED
        BY <1>2, <2>1, <3>2, <3>3
    <2>2. ASSUME NEW x \in Dirs, results[KeyOf(x)].immediate, NEW n \in Nodes, Parent[n] = x, Unheard(n)
          PROVE  ~atStart'[n]
      <3>1. phase # "setup"
        <4>1. KeyOf(x) \in Keys
          BY KeyOfKey DEF Nodes
        <4>2. QED
          BY <2>2, <4>1 DEF CalmInv, WatchInv, SetupInv, NoResult
      <3>2. atStart' = atStart
        BY <1>4, <3>1
      <3>3. QED
        BY <2>2, <3>2 DEF Origins, ScanInv, Children
    <2>3. QED
      BY <1>1, <1>7, <2>1, <2>2 DEF ScanInv, Children
  <1>12. OriginIsRight'
    BY <1>1, <1>4 DEF Origins, OriginIsRight, Calm
  <1>13. QED
    BY <1>10, <1>11, <1>12 DEF Origins

(* A step that only makes, ends or moves on calls for directories already      *)
(* being listed.                                                            *)
LEMMA SameOrigins ==
    ASSUME Calm, Origins,
           UNCHANGED <<disk, queue, wd, phase, atStart, existing, results>>,
           phase = "running" => \A f \in Calls' : \E g \in Calls : f.dir = g.dir
    PROVE  Origins'
  <1>1. OldInv' /\ NewInv' /\ FirstInv'
    BY DEF Origins, OldInv, NewInv, FirstInv, Unheard, IsFirst, Quiet, Matched
  <1>2. ScanInv'
    <2>1. \A n \in Nodes : Unheard(n)' <=> Unheard(n)
      BY DEF Unheard
    <2>2. QED
      BY <2>1 DEF Origins, ScanInv, Children
  <1>3. OriginIsRight'
    BY DEF Origins, OriginIsRight, Calm
  <1>4. QED
    BY <1>1, <1>2, <1>3 DEF Origins

(* A directory that is watched only now, or was found by a scan, had nothing   *)
(* in it when start() began to watch its parent.                             *)
LEMMA NewInside ==
    ASSUME CalmInv, Origins, NEW n \in Dirs, ~CreatedAgain(n, results[KeyOf(n)]),
           NEW m \in Nodes, Parent[m] = n, Unheard(m)
    PROVE  ~atStart[m]
  <1>1. CASE toWatch[n] # "exists"
    <2>1. wd[n] = 0
      BY <1>1 DEF CalmInv, WatchInv, AssertionsHold, AllDirs
    <2>2. QED
      BY <2>1 DEF Origins, OldInv
  <1>2. CASE results[KeyOf(n)].immediate
    BY <1>2 DEF Origins, ScanInv, Children
  <1>3. QED
    BY <1>1, <1>2 DEF CreatedAgain

(* addExistingContent() remembers what was there when the watch was made.      *)
LEMMA RememberOrigins ==
    ASSUME CalmInv, Calm, Origins, NEW n \in Nodes, Remember(n) PROVE Origins'
  <1>1. /\ stack # <<>> /\ n \in Top.names /\ Top.stage = "remember" /\ stack' = AfterName(n)
        /\ existing' = IF disk[n] THEN existing \cup {n} ELSE existing
        /\ UNCHANGED <<disk, kernelWd, queue, lost, lastWd, hasty, wd, phase, results, hasInconsistencies, atStart>>
    BY DEF Remember, AfterName, files, inotify, tree
  <1>2. Parent[n] = Top.dir /\ Top \in Calls
    BY <1>1, CallInNames
  <1>3. phase = "setup" /\ wd[Parent[n]] # 0
    BY <1>1, <1>2 DEF CalmInv, NamesInv, ParentsInv
  <1>4. \A m \in Nodes : /\ Unheard(m)' <=> Unheard(m)
                         /\ Quiet(m)' <=> Quiet(m)
                         /\ \A i \in DOMAIN queue : IsFirst(i, m)' <=> IsFirst(i, m)
    BY <1>1 DEF Unheard, Quiet, IsFirst, Matched
  <1>5. \A m \in Nodes : m \in existing' => m \in existing \/ (m = n /\ disk[n])
    BY <1>1
  <1>6. OldInv'
    BY <1>1, <1>4 DEF Origins, OldInv
  <1>7. NewInv'
    <2>1. SUFFICES ASSUME NEW m \in Nodes, Unheard(m), ~atStart[m], Quiet(m)
                   PROVE  m \notin existing' /\ (wd[Parent[m]] # 0 => ~disk[m])
      BY <1>1, <1>3, <1>4 DEF NewInv
    <2>2. m \notin existing /\ (wd[Parent[m]] # 0 => ~disk[m])
      BY <1>3, <2>1 DEF Origins, NewInv
    <2>3. QED
      BY <1>3, <1>5, <2>2
  <1>8. FirstInv'
    BY <1>1, <1>3, <1>4 DEF Origins, FirstInv
  <1>9. ScanInv'
    BY <1>1, <1>3, <1>4 DEF Origins, ScanInv, Children
  <1>10. OriginIsRight'
    BY <1>1, <1>3 DEF OriginIsRight
  <1>11. QED
    BY <1>6, <1>7, <1>8, <1>9, <1>10 DEF Origins

(* The other steps of start().                                               *)
LEMMA ListingOrigins ==
    ASSUME CalmInv, Calm, Origins, OpenDirectory \/ EndNames \/ (\E n \in Nodes : SetUp(n))
    PROVE  Origins'
  <1>1. TypeOK
    BY DEF CalmInv, WatchInv
  <1>2. CASE OpenDirectory
    <2>1. UNCHANGED <<disk, queue, wd, phase, atStart, existing, results>>
      BY <1>2 DEF OpenDirectory, files, inotify, tree, model
    <2>2. \A f \in Calls' : \E g \in Calls : f.dir = g.dir
      <3> DEFINE h == [dir |-> Top.dir, stage |-> IF Top.stage = "list" THEN "remember" ELSE "walk",
                       names |-> {n \in Children(Top.dir) : disk[n]}]
      <3>1. /\ Top \in Calls /\ RestCalls \subseteq Calls
            /\ IF Present(Top.dir)
               THEN Calls' = {h} \cup RestCalls
               ELSE Calls' = (IF Top.stage = "open" \/ Top.dir \in Leaves THEN {} ELSE {Call(Top.dir, "open")})
                                \cup RestCalls
        BY <1>1, <1>2, OpenDirectoryCalls
      <3>2. h.dir = Top.dir /\ Call(Top.dir, "open").dir = Top.dir
        BY DEF Call
      <3> HIDE DEF h
      <3>3. \A f \in Calls' : f \in Calls \/ f = h \/ f = Call(Top.dir, "open")
        BY <3>1
      <3>4. QED
        BY <3>1, <3>2, <3>3
    <2>3. QED
      BY <2>1, <2>2, SameOrigins
  <1>3. CASE EndNames
    <2>1. UNCHANGED <<disk, queue, wd, phase, atStart, existing, results>>
      BY <1>3 DEF EndNames, files, inotify, tree, model
    <2>2. \A f \in Calls' : \E g \in Calls : f.dir = g.dir
      <3>1. /\ Calls = {Top} \cup RestCalls
            /\ Calls' = RestCalls \/ Calls' = {Call(Top.dir, "open")} \cup RestCalls
        BY <1>1, <1>3, EndNamesCalls
      <3>2. Call(Top.dir, "open").dir = Top.dir
        BY DEF Call
      <3>3. QED
        BY <3>1, <3>2
    <2>3. QED
      BY <2>1, <2>2, SameOrigins
  <1>4. CASE \E n \in Nodes : SetUp(n)
    <2>1. PICK n \in Nodes : SetUp(n)
      BY <1>4
    <2>2. /\ phase = "setup"
          /\ UNCHANGED <<disk, queue, wd, phase, atStart, existing, results>>
      BY <2>1 DEF SetUp, files, inotify, model
    <2>3. QED
      BY <2>2, SameOrigins
  <1>5. QED
    BY <1>2, <1>3, <1>4

(* No result says anything before the run.                                   *)
LEMMA EndSetupOrigins == ASSUME CalmInv, Origins, EndSetup PROVE Origins'
  <1>1. /\ phase = "setup" /\ phase' = "running" /\ stack' = <<>>
        /\ UNCHANGED <<disk, queue, wd, atStart, existing, results>>
    BY DEF EndSetup, files, inotify, tree, model
  <1>2. \A m \in Nodes : results[KeyOf(m)] = NoResult
    BY <1>1, KeyOfKey DEF CalmInv, WatchInv, SetupInv
  <1>3. \A m \in Nodes : /\ Unheard(m)' <=> Unheard(m)
                         /\ Quiet(m)' <=> Quiet(m)
                         /\ \A i \in DOMAIN queue : IsFirst(i, m)' <=> IsFirst(i, m)
    BY <1>1 DEF Unheard, Quiet, IsFirst, Matched
  <1>4. OldInv' /\ NewInv' /\ FirstInv'
    BY <1>1, <1>3 DEF Origins, OldInv, NewInv, FirstInv
  <1>5. Calls' = {}
    BY <1>1 DEF Calls
  <1>6. ScanInv'
    BY <1>1, <1>3, <1>5 DEF Origins, ScanInv, Children
  <1>7. OriginIsRight'
    BY <1>1, <1>2 DEF OriginIsRight
  <1>8. QED
    BY <1>4, <1>6, <1>7 DEF Origins

(* What a scan finds for the first time was not there.                        *)
LEMMA DiscoverOrigins ==
    ASSUME CalmInv, Calm, Calm', Origins, NEW n \in Nodes, Discover(n) PROVE Origins'
  <1> DEFINE r == results[KeyOf(n)]
             g == Call(n, IF wd'[n] = 0 THEN "watch" ELSE "open")
  <1>1. /\ phase = "running" /\ Top.stage = "walk" /\ n \in Top.names /\ stack # <<>>
        /\ UNCHANGED <<queue, lost, lastWd, phase, atStart, disk, makes, hasty>>
        /\ existing' \subseteq existing
        /\ \A m \in Nodes : m # n => results'[KeyOf(m)] = results[KeyOf(m)]
    BY DiscoverShape
  <1>2. ~hasInconsistencies'
    BY DEF Calm
  <1>3. /\ UNCHANGED wd
        /\ \/ n \in Dirs /\ results'[KeyOf(n)] = r /\ Calls' = {Done(n)} \cup RestCalls
           \/ n \notin Dirs /\ results'[KeyOf(n)] = OnScan(r) /\ Calls' = {Done(n)} \cup RestCalls
           \/ /\ n \in Dirs /\ results'[KeyOf(n)] = OnScan(r) /\ ~CreatedAgain(n, r)
              /\ Calls' \subseteq {g, Done(n)} \cup RestCalls
    BY <1>2, DiscoverShape
  <1>4. Top \in Calls /\ Parent[n] = Top.dir
    BY <1>1, CallInNames
  <1>5. Calls = {Top} \cup RestCalls /\ Done(n).dir = Top.dir
    BY <1>1, WalkCalls DEF CalmInv, WatchInv
  <1>6. g.dir = n
    BY DEF Call
  <1>7. r \in WatchedResult
    BY KeyOfKey DEF CalmInv, WatchInv, TypeOK
  <1>8. OnScan(r) # NoResult /\ ExistedAtStart(OnScan(r)) = ExistedAtStart(r)
    BY <1>7, OnScanResult
  <1> HIDE DEF r, g
  <1>9. \A m \in Nodes : /\ Unheard(m)' => Unheard(m)
                         /\ Quiet(m)' <=> Quiet(m)
                         /\ \A i \in DOMAIN queue : IsFirst(i, m)' <=> IsFirst(i, m)
    <2>1. \A m \in Nodes : Unheard(m)' => Unheard(m)
      BY <1>1, <1>3, <1>8 DEF Unheard, r
    <2>2. QED
      BY <1>1, <1>3, <2>1 DEF Quiet, IsFirst, Matched
  <1>10. OldInv' /\ NewInv' /\ FirstInv'
    BY <1>1, <1>3, <1>9 DEF Origins, OldInv, NewInv, FirstInv
  <1>11. ScanInv'
    <2>1. ASSUME NEW f \in Calls', NEW m \in Nodes, Parent[m] = f.dir, Unheard(m)
          PROVE  ~atStart[m]
      <3>1. CASE f = g /\ n \in Dirs /\ ~CreatedAgain(n, r)
        BY <1>6, <2>1, <3>1, NewInside DEF r
      <3>2. CASE f = Done(n)
        BY <1>1, <1>4, <1>5, <2>1, <3>2 DEF Origins, ScanInv, Children
      <3>3. CASE f \in RestCalls
        BY <1>1, <1>5, <2>1, <3>3 DEF Origins, ScanInv, Children
      <3>4. QED
        BY <1>3, <2>1, <3>1, <3>2, <3>3
    <2>2. ASSUME NEW d \in Dirs, results'[KeyOf(d)].immediate, NEW m \in Nodes, Parent[m] = d, Unheard(m)
          PROVE  ~atStart[m]
      <3>1. CASE d = n /\ ~CreatedAgain(n, r)
        BY <2>2, <3>1, NewInside DEF r
      <3>2. CASE results'[KeyOf(d)] = results[KeyOf(d)]
        BY <2>2, <3>2 DEF Origins, ScanInv, Children
      <3>3. QED
        BY <1>1, <1>3, <2>2, <3>1, <3>2 DEF r, Nodes
    <2>3. QED
      BY <1>1, <1>9, <2>1, <2>2 DEF ScanInv, Children
  <1>12. OriginIsRight'
    <2>1. SUFFICES ASSUME IsRoot, NEW m \in Nodes, results'[KeyOf(m)] # NoResult
                   PROVE  ExistedAtStart(results'[KeyOf(m)]) = atStart[m]
      BY <1>1 DEF OriginIsRight
    <2>2. results[KeyOf(m)] # NoResult => ExistedAtStart(results[KeyOf(m)]) = atStart[m]
      BY <1>1, <2>1 DEF Origins, OriginIsRight, Calm
    <2>3. CASE results'[KeyOf(m)] = results[KeyOf(m)]
      BY <2>1, <2>2, <2>3
    <2>4. CASE m = n /\ results'[KeyOf(n)] = OnScan(r) /\ r # NoResult
      BY <1>8, <2>2, <2>4 DEF r
    <2>5. CASE m = n /\ results'[KeyOf(n)] = OnScan(r) /\ r = NoResult
      <3>1. Unheard(n)
        BY <2>5 DEF Unheard, r
      <3>2. ~atStart[n]
        BY <1>1, <1>4, <3>1 DEF Origins, ScanInv, Children
      <3>3. atStart[n] = FALSE
        BY <3>2 DEF CalmInv, WatchInv, TypeOK
      <3>4. ExistedAtStart(OnScan(r)) = FALSE
        BY <1>8, <2>5, NoResultType
      <3>5. QED
        BY <2>5, <3>3, <3>4
    <2>6. QED
      BY <1>1, <1>3, <2>3, <2>4, <2>5 DEF r
  <1>13. QED
    BY <1>10, <1>11, <1>12 DEF Origins

(* What an event does to the results and the calls, while all stays calm.     *)
LEMMA HandledResults ==
    ASSUME CalmInv, NEW n \in Nodes, NEW event \in Action, phase = "running", stack = <<>>,
           OnFileModified(n, event), ~hasInconsistencies',
           NEW r, r = results[KeyOf(n)], NEW act, act = Effective(r, event, n \in existing, IsRoot)
    PROVE  /\ existing' \subseteq existing
           /\ \A m \in Nodes : m # n => results'[KeyOf(m)] = results[KeyOf(m)]
           /\ results'[KeyOf(n)] # NoResult
           /\ results'[KeyOf(n)] = OnEvent(r, act, n \in existing)
           /\ ~OnEvent(r, act, n \in existing).inconsistent
           /\ \/ Calls' = {}
              \/ /\ Calls' = {Call(n, IF wd'[n] = 0 THEN "watch" ELSE "open")}
                 /\ n \in Dirs /\ ~CreatedAgain(n, r)
  <1>1. /\ existing' \subseteq existing
        /\ \A m \in Nodes : m # n => results'[KeyOf(m)] = results[KeyOf(m)]
        /\ results'[KeyOf(n)] # NoResult
        /\ results'[KeyOf(n)] = OnEvent(r, act, n \in existing)
        /\ ~OnEvent(r, act, n \in existing).inconsistent
    BY Handled
  <1>2. \/ Calls' = {}
        \/ /\ Calls' = {Call(n, IF wd'[n] = 0 THEN "watch" ELSE "open")}
           /\ n \in Dirs /\ ~CreatedAgain(n, r)
    BY Handled
  <1>3. QED
    BY <1>1, <1>2

(* The first event of a name tells how it was.                                *)
LEMMA FirstEvent ==
    ASSUME NEW act \in Action, NEW known \in BOOLEAN, NEW old \in BOOLEAN,
           ~OnEvent(NoResult, act, known).inconsistent,
           old \/ known => (act = "create" <=> ~old)
    PROVE  ExistedAtStart(OnEvent(NoResult, act, known)) = old
  <1>1. ExistedAtStart(OnEvent(NoResult, act, known)) = (act # "create")
    BY FirstResultOld
  <1>2. act # "create" => known
    BY DEF OnEvent, FirstResult
  <1>3. QED
    BY <1>1, <1>2

(* What an event says of a name agrees with the beginning of the run.         *)
LEMMA DispatchOrigins ==
    ASSUME CalmInv, Calm, Calm', IsRoot, Origins, Dispatch PROVE Origins'
  <1>1. PICK n \in Nodes, event \in Action :
           /\ phase = "running" /\ stack = <<>>
           /\ 1 \in DOMAIN queue /\ queue[1].name = n /\ queue[1].act = event
           /\ DOMAIN queue \subseteq Nat \ {0} /\ DOMAIN queue' \subseteq Nat \ {0}
           /\ \A i \in DOMAIN queue' : i + 1 \in DOMAIN queue /\ queue'[i] = queue[i + 1]
           /\ \A i \in DOMAIN queue : i # 1 =>
                 i - 1 \in DOMAIN queue' /\ queue'[i - 1] = queue[i] /\ (i - 1) + 1 = i
           /\ UNCHANGED <<lost, lastWd, phase, atStart, disk, makes, hasty>>
           /\ \/ /\ ~Matched(1, n)
                 /\ UNCHANGED <<kernelWd, wd, results, existing, hasInconsistencies>> /\ Calls' = {}
              \/ Matched(1, n) /\ OnFileModified(n, event)
    BY DispatchShape
  <1> DEFINE r == results[KeyOf(n)]
             known == n \in existing
             g == Call(n, IF wd'[n] = 0 THEN "watch" ELSE "open")
             handled == Matched(1, n) /\ OnFileModified(n, event)
             gone == n \in Dirs /\ event = "delete"
  <1>2. ~hasInconsistencies'
    BY DEF Calm
  <1>3. Effective(r, event, known, IsRoot) = event
    BY DEF Effective
  <1>4. r \in WatchedResult /\ known \in BOOLEAN /\ atStart \in [Nodes -> BOOLEAN]
    BY KeyOfKey DEF CalmInv, WatchInv, TypeOK
  <1>5. g.dir = n
    BY DEF Call
  <1>6. /\ \A m \in Nodes : m # n => ~Matched(1, m)
        /\ \A i \in DOMAIN queue : queue[i].wd # 0
    BY <1>1 DEF Matched, CalmInv, DescriptorInv
  <1>7. /\ existing' \subseteq existing
        /\ \A m \in Nodes : m # n => results'[KeyOf(m)] = results[KeyOf(m)]
        /\ \/ ~Matched(1, n) /\ UNCHANGED wd /\ results'[KeyOf(n)] = r /\ Calls' = {}
           \/ /\ Matched(1, n)
              /\ results'[KeyOf(n)] # NoResult
              /\ results'[KeyOf(n)] = OnEvent(r, event, known)
              /\ ~OnEvent(r, event, known).inconsistent
              /\ \A d \in AllDirs : wd'[d] = wd[d] \/ (d = n /\ gone)
              /\ gone => wd'[n] = 0 /\ \A m \in Nodes : Parent[m] = n => ~disk[m] /\ Quiet(m)
              /\ Calls' = {} \/ (Calls' = {g} /\ n \in Dirs /\ ~CreatedAgain(n, r))
    <2>1. CASE ~Matched(1, n) /\ UNCHANGED <<kernelWd, wd, results, existing, hasInconsistencies>> /\ Calls' = {}
      BY <2>1
    <2>2. CASE Matched(1, n) /\ OnFileModified(n, event)
      <3>1. /\ \A d \in AllDirs : wd'[d] = wd[d] \/ (d = n /\ gone)
            /\ gone => wd'[n] = 0 /\ \A m \in Nodes : Parent[m] = n => ~disk[m] /\ Quiet(m)
        BY <1>1, <1>2, <2>2, HandledWatches
      <3>2. /\ existing' \subseteq existing
            /\ \A m \in Nodes : m # n => results'[KeyOf(m)] = results[KeyOf(m)]
            /\ results'[KeyOf(n)] # NoResult
            /\ results'[KeyOf(n)] = OnEvent(r, event, known)
            /\ ~OnEvent(r, event, known).inconsistent
            /\ Calls' = {} \/ (Calls' = {g} /\ n \in Dirs /\ ~CreatedAgain(n, r))
        <4>1. PICK res, act : res = results[KeyOf(n)] /\ act = Effective(res, event, n \in existing, IsRoot)
          OBVIOUS
        <4>2. act = event
          BY <1>3, <4>1
        <4>3. /\ existing' \subseteq existing
              /\ \A m \in Nodes : m # n => results'[KeyOf(m)] = results[KeyOf(m)]
              /\ results'[KeyOf(n)] # NoResult
              /\ results'[KeyOf(n)] = OnEvent(res, act, n \in existing)
              /\ ~OnEvent(res, act, n \in existing).inconsistent
          <5>1. phase = "running" /\ stack = <<>> /\ OnFileModified(n, event)
            BY <1>1, <2>2
          <5>2. QED
            BY <1>2, <4>1, <5>1, HandledResults
        <4>5. Calls' = {} \/ (Calls' = {g} /\ n \in Dirs /\ ~CreatedAgain(n, res))
          <5>1. phase = "running" /\ stack = <<>> /\ OnFileModified(n, event)
            BY <1>1, <2>2
          <5>2. \/ Calls' = {}
                \/ /\ Calls' = {Call(n, IF wd'[n] = 0 THEN "watch" ELSE "open")}
                   /\ n \in Dirs /\ ~CreatedAgain(n, res)
            BY <1>2, <4>1, <5>1, HandledResults
          <5>3. QED
            BY <5>2
        <4>6. QED
          BY <4>1, <4>2, <4>3, <4>5
      <3> HIDE DEF r, known, g, gone
      <3>3. QED
        BY <2>2, <3>1, <3>2
    <2>3. QED
      BY <1>1, <2>1, <2>2
  <1> HIDE DEF g
  <1>8. \A m \in Nodes : wd'[Parent[m]] = wd[Parent[m]] \/ (wd'[Parent[m]] = 0 /\ ~disk[m] /\ Quiet(m))
    BY <1>7, ParentDir
  <1>9. ASSUME NEW m \in Nodes, results'[KeyOf(m)] = NoResult
        PROVE  Unheard(m) /\ ~Matched(1, m)
    BY <1>6, <1>7, <1>9 DEF Unheard
  <1>10. ASSUME NEW m \in Nodes, results'[KeyOf(m)] = NoResult
         PROVE  /\ atStart[m] => wd'[Parent[m]] # 0 /\ (Quiet(m)' => disk[m])
                /\ ~atStart[m] /\ Quiet(m)' => m \notin existing'
                /\ \A i \in DOMAIN queue' :
                      IsFirst(i, m)' /\ (atStart[m] \/ m \in existing')
                          => (queue'[i].act = "create" <=> ~atStart[m])
    <2>1. Unheard(m) /\ ~Matched(1, m)
      BY <1>9, <1>10
    <2>2. /\ atStart[m] => wd[Parent[m]] # 0 /\ (Quiet(m) => disk[m])
          /\ ~atStart[m] /\ Quiet(m) => m \notin existing
          /\ \A i \in DOMAIN queue : IsFirst(i, m) /\ (atStart[m] \/ m \in existing)
                => (queue[i].act = "create" <=> ~atStart[m])
      BY <2>1 DEF Origins, OldInv, NewInv, FirstInv
    <2>3. /\ wd'[Parent[m]] = 0 => Quiet(m)'
          /\ \A i \in DOMAIN queue' : IsFirst(i, m)' => IsFirst(i + 1, m)
          /\ wd'[Parent[m]] = wd[Parent[m]] => (Quiet(m)' <=> Quiet(m))
      BY <1>1, <1>6, <1>8, <2>1, ReadOn
    <2>4. CASE wd'[Parent[m]] = wd[Parent[m]]
      BY <1>1, <1>7, <2>2, <2>3, <2>4
    <2>5. CASE wd'[Parent[m]] = 0 /\ ~disk[m] /\ Quiet(m)
      <3>1. ~atStart[m] /\ m \notin existing
        BY <2>2, <2>5
      <3>2. QED
        BY <1>7, <3>1
    <2>6. QED
      BY <1>8, <2>4, <2>5
  <1>11. OldInv' /\ NewInv' /\ FirstInv'
    <2>1. \A m \in Nodes : Unheard(m)' => results'[KeyOf(m)] = NoResult
      BY DEF Unheard
    <2>2. QED
      BY <1>1, <1>10, <2>1 DEF OldInv, NewInv, FirstInv
  <1>12. ScanInv'
    <2>1. \A m \in Nodes : Unheard(m)' => Unheard(m)
      BY <1>9 DEF Unheard
    <2>2. ASSUME NEW f \in Calls', NEW m \in Nodes, Parent[m] = f.dir, Unheard(m)
          PROVE  ~atStart[m]
      BY <1>5, <1>7, <2>2, NewInside
    <2>3. ASSUME NEW d \in Dirs, results'[KeyOf(d)].immediate, NEW m \in Nodes, Parent[m] = d, Unheard(m)
          PROVE  ~atStart[m]
      <3>1. results'[KeyOf(d)] = results[KeyOf(d)]
        <4>1. ~OnEvent(r, event, known).immediate
          BY DEF OnEvent, FirstResult, NextResult
        <4>2. QED
          BY <1>7, <2>3, <4>1 DEF Nodes
      <3>2. QED
        BY <2>3, <3>1 DEF Origins, ScanInv, Children
    <2>4. QED
      BY <1>1, <2>1, <2>2, <2>3 DEF ScanInv, Children
  <1>13. OriginIsRight'
    <2>1. SUFFICES ASSUME NEW m \in Nodes, results'[KeyOf(m)] # NoResult
                   PROVE  ExistedAtStart(results'[KeyOf(m)]) = atStart[m]
      BY <1>1 DEF OriginIsRight
    <2>2. results[KeyOf(m)] # NoResult => ExistedAtStart(results[KeyOf(m)]) = atStart[m]
      BY <1>1, <2>1 DEF Origins, OriginIsRight, Calm
    <2>3. CASE results'[KeyOf(m)] = results[KeyOf(m)]
      BY <2>1, <2>2, <2>3
    <2>4. CASE m = n /\ results'[KeyOf(n)] = OnEvent(r, event, known) /\ r # NoResult
      <3>1. ExistedAtStart(OnEvent(r, event, known)) = ExistedAtStart(r)
        BY <1>4, <2>4, NextResultKeeps
      <3>2. QED
        BY <2>2, <2>4, <3>1
    <2>5. CASE /\ m = n /\ results'[KeyOf(n)] = OnEvent(r, event, known) /\ r = NoResult
               /\ ~OnEvent(r, event, known).inconsistent /\ Matched(1, n)
      <3>1. IsFirst(1, n)
        <4>1. \A j \in DOMAIN queue : ~(j < 1)
          BY <1>1
        <4>2. QED
          BY <2>5, <4>1 DEF IsFirst
      <3>2. Unheard(n)
        BY <2>5 DEF Unheard
      <3>3. atStart[n] \/ known => (event = "create" <=> ~atStart[n])
        BY <1>1, <3>1, <3>2 DEF Origins, FirstInv
      <3>4. atStart[n] \in BOOLEAN
        BY <1>4
      <3> HIDE DEF known, r
      <3>5. ExistedAtStart(OnEvent(NoResult, event, known)) = atStart[n]
        BY <1>4, <2>5, <3>3, <3>4, FirstEvent
      <3>6. QED
        BY <2>5, <3>5
    <2>6. QED
      BY <1>7, <2>3, <2>4, <2>5
  <1>14. QED
    BY <1>11, <1>12, <1>13 DEF Origins

(* What is lost, flagged or hasty stays so.                                   *)
LEMMA CalmBefore == ASSUME CalmInv, [Next]_vars, Calm' PROVE Calm
  <1>1. CASE Environment
    <2>1. TypeOK
      BY DEF CalmInv, WatchInv
    <2>2. PICK n \in Nodes, act \in Action : Notify(n, act)
      BY <1>1, <2>1, EnvironmentAlters DEF Alters
    <2>3. lost => lost'
      BY <2>2 DEF Notify
    <2>4. (hasty => hasty') /\ UNCHANGED hasInconsistencies
      BY <1>1, <2>1, EnvironmentAlters
    <2>5. QED
      BY <2>3, <2>4 DEF Calm
  <1>2. CASE AddWatch \/ OpenDirectory \/ EndNames \/ EndSetup
    BY <1>2 DEF AddWatch, OpenDirectory, EndNames, EndSetup, Calm, files, inotify, tree, model
  <1>3. ASSUME NEW n \in Nodes, Remember(n) \/ SetUp(n) \/ Discover(n) PROVE Calm
    <2>1. CASE Remember(n) \/ SetUp(n)
      BY <2>1 DEF Remember, SetUp, Calm, files, inotify, tree, model
    <2>2. CASE Discover(n)
      <3>1. hasInconsistencies => hasInconsistencies'
        BY <2>2 DEF Discover, Record
      <3>2. UNCHANGED <<lost, hasty>>
        BY <2>2 DEF Discover, files
      <3>3. QED
        BY <3>1, <3>2 DEF Calm
    <2>3. QED
      BY <1>3, <2>1, <2>2
  <1>4. CASE Dispatch
    <2>1. PICK n \in Nodes, event \in Action :
             /\ phase = "running" /\ stack = <<>>
             /\ UNCHANGED <<lost, hasty>>
             /\ \/ UNCHANGED hasInconsistencies
                \/ OnFileModified(n, event)
      BY <1>4, DispatchShape
    <2>2. PICK r, act : r = results[KeyOf(n)] /\ act = Effective(r, event, n \in existing, IsRoot)
      OBVIOUS
    <2>3. hasInconsistencies => hasInconsistencies'
      <3>1. CASE UNCHANGED hasInconsistencies
        BY <3>1
      <3>2. CASE OnFileModified(n, event)
        BY <2>1, <2>2, <3>2, Handled
      <3>3. QED
        BY <2>1, <3>1, <3>2
    <2>4. QED
      BY <2>1, <2>3 DEF Calm
  <1>5. CASE UNCHANGED vars
    BY <1>5 DEF vars, Calm
  <1>6. QED
    BY <1>1, <1>2, <1>3, <1>4, <1>5 DEF Next, Listing

LEMMA OriginStep == ASSUME OriginInv, [Next]_vars PROVE OriginInv'
  <1>1. CalmInv /\ CalmInv' /\ WatchInv'
    BY CalmStep DEF OriginInv, CalmInv
  <1>2. SUFFICES ASSUME IsRoot, Calm' PROVE Origins'
    BY <1>1 DEF OriginInv, Origins
  <1>3. Calm /\ Origins
    BY <1>1, <1>2, CalmBefore DEF OriginInv, Origins
  <1>4. CASE Environment
    BY <1>1, <1>2, <1>3, <1>4, EnvironmentOrigins
  <1>5. CASE AddWatch
    BY <1>1, <1>2, <1>3, <1>5, AddWatchOrigins
  <1>6. CASE OpenDirectory \/ EndNames
    BY <1>1, <1>3, <1>6, ListingOrigins
  <1>7. ASSUME NEW n \in Nodes, Remember(n) \/ SetUp(n) \/ Discover(n) PROVE Origins'
    <2>1. CASE Remember(n)
      BY <1>1, <1>3, <2>1, RememberOrigins
    <2>2. CASE SetUp(n)
      BY <1>1, <1>3, <2>2, ListingOrigins
    <2>3. CASE Discover(n)
      BY <1>1, <1>2, <1>3, <2>3, DiscoverOrigins
    <2>4. QED
      BY <1>7, <2>1, <2>2, <2>3
  <1>8. CASE EndSetup
    BY <1>1, <1>3, <1>8, EndSetupOrigins
  <1>9. CASE Dispatch
    BY <1>1, <1>2, <1>3, <1>9, DispatchOrigins
  <1>10. CASE UNCHANGED vars
    <2>1. UNCHANGED <<disk, queue, wd, phase, atStart, existing, results>> /\ Calls' = Calls
      BY <1>10 DEF vars, Calls
    <2>2. QED
      BY <1>3, <2>1, SameOrigins
  <1>11. QED
    BY <1>4, <1>5, <1>6, <1>7, <1>8, <1>9, <1>10 DEF Next, Listing

LEMMA InitOrigin == ASSUME Init PROVE OriginInv
  <1>1. CalmInv
    BY InitCalm
  <1>2. queue = <<>> /\ DOMAIN queue = {} /\ existing = {} /\ phase = "setup"
    BY DEF Init
  <1>3. \A n \in Nodes : Quiet(n) /\ Parent[n] \in AllDirs /\ KeyOf(n) \in Keys
    BY <1>2, ParentDir, KeyOfKey DEF Quiet
  <1>4. \A n \in Nodes : /\ atStart[n] <=> disk[n] /\ Parent[n] = Base
                         /\ wd[Parent[n]] # 0 <=> Parent[n] = Base
    <2>1. SUFFICES ASSUME NEW n \in Nodes
                   PROVE  /\ atStart[n] <=> disk[n] /\ Parent[n] = Base
                          /\ wd[Parent[n]] # 0 <=> Parent[n] = Base
      OBVIOUS
    <2>2. atStart[n] = (disk[n] /\ Parent[n] = Base)
      BY DEF Init
    <2>3. wd[Parent[n]] = IF Parent[n] = Base THEN 1 ELSE 0
      BY <1>3 DEF Init
    <2>4. wd[Parent[n]] # 0 <=> Parent[n] = Base
      BY <2>3
    <2>5. atStart[n] <=> disk[n] /\ Parent[n] = Base
      BY <2>2, Zenon
    <2>6. QED
      BY <2>4, <2>5
  <1>5. OldInv
    BY <1>4 DEF OldInv
  <1>10. NewInv
    <2>1. \A n \in Nodes : n \notin existing
      BY <1>2
    <2>2. ASSUME NEW n \in Nodes, ~atStart[n], wd[Parent[n]] # 0 PROVE ~disk[n]
      BY <1>4, <2>2
    <2>3. QED
      BY <2>1, <2>2 DEF NewInv
  <1>6. FirstInv
    BY <1>2 DEF FirstInv
  <1>7. ScanInv
    <2>1. \A d \in Dirs : ~results[KeyOf(d)].immediate
      BY KeyOfKey DEF Init, Nodes, NoResult
    <2>2. QED
      BY <1>2, <2>1 DEF ScanInv
  <1>8. OriginIsRight
    BY <1>2 DEF OriginIsRight
  <1>9. QED
    BY <1>1, <1>5, <1>6, <1>7, <1>8, <1>10 DEF OriginInv

(* For root, in any tree and at any depth: as long as nothing is flagged or    *)
(* lost and no directory is made again in haste, every result says rightly     *)
(* whether its file was there when start() began to watch its directory, even *)
(* while the tree is still being listed.                                    *)
THEOREM OriginCorrect == Spec => []OriginIsRight
  <1>1. OriginInv => OriginIsRight
    BY DEF OriginInv, OriginIsRight, Calm
  <1>2. QED
    BY <1>1, InitOrigin, OriginStep, PTL DEF Spec

-----------------------------------------------------------------------------
(* Nothing that exists is missed, and nothing that is gone is kept.           *)

Existences == LastInv /\ KnownInv /\ WalkInv /\ ComingInv

(* A step that only moves on what the calls under way will come to.           *)
LEMMA SameExistences ==
    ASSUME Existences, UNCHANGED <<disk, kernelWd, queue, wd, existing, results>>,
           \A f \in Calls : \A n \in Nodes : WillFind(f, n) /\ disk[n] /\ kernelWd[Parent[n]] # 0 =>
              \E g \in Calls' : WillFind(g, n)',
           \A f \in Calls : \A d \in Dirs :
              WillWatch(f, d) /\ InZone(d) /\ disk[d] /\ kernelWd[Parent[d]] # 0 =>
                 \E g \in Calls' : WillWatch(g, d),
           phase' = "running" => \A f \in Calls' : f.stage = "walk" =>
              (f \in Calls /\ phase = "running") \/ \A n \in f.names : disk[n]
    PROVE  Existences'
  <1>1. \A n \in Nodes : /\ Quiet(n)' <=> Quiet(n)
                         /\ Known(n)' <=> Known(n)
                         /\ \A i \in DOMAIN queue : /\ IsLast(i, n)' <=> IsLast(i, n)
                                                    /\ Matched(i, n)' <=> Matched(i, n)
    BY DEF Quiet, Known, IsLast, Matched
  <1>2. LastInv'
    BY <1>1 DEF Existences, LastInv
  <1>3. KnownInv'
    <2>1. ASSUME NEW n \in Nodes
          PROVE  /\ wd[Parent[n]] = 0 => ~Known(n)
                 /\ Quiet(n) /\ Known(n) => disk[n]
                 /\ Quiet(n) /\ disk[n] /\ kernelWd[Parent[n]] # 0 =>
                       Known(n) \/ \E g \in Calls' : WillFind(g, n)'
      BY DEF Existences, KnownInv
    <2>2. QED
      BY <1>1, <2>1 DEF KnownInv
  <1>4. WalkInv'
    <2>1. SUFFICES ASSUME phase' = "running", NEW f \in Calls', f.stage = "walk", NEW n \in f.names, Quiet(n)'
                   PROVE  disk[n]
      BY DEF WalkInv
    <2>2. Quiet(n)
      BY <2>1 DEF Quiet, Matched
    <2>3. QED
      BY <2>1, <2>2 DEF Existences, WalkInv
  <1>5. ComingInv'
    <2>1. ASSUME NEW d \in Dirs, InZone(d), disk[d], kernelWd[d] = 0, kernelWd[Parent[d]] # 0
          PROVE  \/ \E f \in Calls' : WillWatch(f, d)
                 \/ \E i \in DOMAIN queue : Matched(i, d) /\ queue[i].act = "create"
      BY <2>1 DEF Existences, ComingInv
    <2>2. \A d \in Dirs : \A i \in DOMAIN queue : Matched(i, d)' <=> Matched(i, d)
      BY <1>1 DEF Nodes
    <2>3. QED
      BY <2>1, <2>2 DEF ComingInv, InZone
  <1>6. QED
    BY <1>2, <1>3, <1>4, <1>5 DEF Existences

(* What has been listed is there; a directory that is watched is there too.    *)
LEMMA OpenDirectoryExistences == ASSUME CalmInv, Existences, OpenDirectory PROVE Existences'
  <1> DEFINE d == Top.dir
             h == [dir |-> d, stage |-> IF Top.stage = "list" THEN "remember" ELSE "walk",
                   names |-> {n \in Children(d) : disk[n]}]
  <1>1. /\ Calls = {Top} \cup RestCalls /\ Top.stage \in {"list", "open"} /\ d \in AllDirs
        /\ Present(d) => Calls' = {h} \cup RestCalls
        /\ RestCalls \subseteq Calls'
        /\ \A f \in Calls' : f \in Calls \/ f = h \/ f.stage = "open"
    <2>1. TypeOK /\ stack # <<>>
      BY DEF CalmInv, WatchInv, OpenDirectory
    <2>2. Calls = {Top} \cup RestCalls
      BY <2>1, CallsSplit
    <2>3. /\ d \in AllDirs /\ Top.stage \in {"list", "open"}
          /\ IF Present(d)
             THEN Calls' = {h} \cup RestCalls
             ELSE Calls' = (IF Top.stage = "open" \/ d \in Leaves THEN {} ELSE {Call(d, "open")})
                              \cup RestCalls
      BY <2>1, OpenDirectoryCalls
    <2>4. Call(d, "open").stage = "open"
      BY DEF Call
    <2> HIDE DEF d, h
    <2>5. QED
      BY <2>2, <2>3, <2>4
  <1>2. UNCHANGED <<disk, kernelWd, queue, wd, existing, results, phase>>
    BY DEF OpenDirectory, files, inotify, tree, model
  <1>3. /\ h.dir = d /\ h.stage = (IF Top.stage = "list" THEN "remember" ELSE "walk")
        /\ \A n : n \in h.names <=> n \in Nodes /\ Parent[n] = d /\ disk[n]
    BY DEF Children
  <1>4. kernelWd[d] # 0 => Present(d)
    BY <1>1 DEF CalmInv, DiskInv, Present
  <1> HIDE DEF h
  <1>5. ASSUME NEW f \in Calls, NEW n \in Nodes, WillFind(f, n), disk[n], kernelWd[Parent[n]] # 0
        PROVE  \E g \in Calls' : WillFind(g, n)'
    <2>1. CASE f \in RestCalls
      BY <1>1, <1>2, <1>5, <2>1 DEF WillFind
    <2>2. CASE f = Top
      <3>1. Parent[n] = d /\ (Top.stage = "open" => phase = "running")
        BY <1>1, <1>5, <2>2 DEF WillFind
      <3>2. h \in Calls' /\ n \in h.names
        BY <1>1, <1>3, <1>4, <1>5, <3>1
      <3>3. PICK c \in Calls' : c = h
        BY <3>2
      <3>4. c.dir = Parent[n] /\ n \in c.names /\ c.stage = (IF Top.stage = "list" THEN "remember" ELSE "walk")
        BY <1>3, <3>1, <3>2, <3>3
      <3>5. WillFind(c, n)'
        BY <1>1, <1>2, <3>1, <3>4 DEF WillFind
      <3>6. QED
        BY <3>5
    <2>3. QED
      BY <1>1, <2>1, <2>2
  <1>6. ASSUME NEW f \in Calls, NEW c \in Dirs, WillWatch(f, c), disk[c], kernelWd[Parent[c]] # 0
        PROVE  \E g \in Calls' : WillWatch(g, c)
    <2>1. CASE f \in RestCalls
      BY <1>1, <1>6, <2>1
    <2>2. CASE f = Top
      <3>1. Parent[c] = d
        BY <1>1, <1>6, <2>2 DEF WillWatch
      <3>2. h \in Calls' /\ c \in h.names
        BY <1>1, <1>3, <1>4, <1>6, <3>1 DEF Nodes
      <3>3. WillWatch(h, c)
        BY <1>1, <1>3, <3>1, <3>2 DEF WillWatch
      <3>4. QED
        BY <3>2, <3>3
    <2>3. QED
      BY <1>1, <2>1, <2>2
  <1>7. \A f \in Calls' : f.stage = "walk" => f \in Calls \/ \A n \in f.names : disk[n]
    BY <1>1, <1>3
  <1>8. QED
    BY <1>2, <1>5, <1>6, <1>7, SameExistences

(* What has been come to is done; the subdirectories are looked for afterwards, *)
(* unless the zone ends there.                                              *)
LEMMA EndNamesExistences == ASSUME CalmInv, Existences, EndNames PROVE Existences'
  <1> DEFINE d == Top.dir
             g == Call(d, "open")
  <1>1. /\ Calls = {Top} \cup RestCalls
        /\ Top.stage \in {"remember", "walk"} /\ Top.names = {}
        /\ IF Top.stage = "walk" \/ d \in Leaves THEN Calls' = RestCalls ELSE Calls' = {g} \cup RestCalls
    BY EndNamesCalls DEF CalmInv, WatchInv
  <1>2. UNCHANGED <<disk, kernelWd, queue, wd, existing, results, phase>>
    BY DEF EndNames, files, inotify, tree, model
  <1>3. g.dir = d /\ g.stage = "open"
    BY DEF Call
  <1> HIDE DEF d, g
  <1>4. RestCalls \subseteq Calls' /\ \A f \in Calls' : f \in Calls \/ f = g
    BY <1>1
  <1>5. ASSUME NEW f \in Calls, NEW n \in Nodes, WillFind(f, n)
        PROVE  \E c \in Calls' : WillFind(c, n)'
    <2>1. f # Top
      BY <1>1, <1>5 DEF WillFind
    <2>2. f \in Calls'
      BY <1>1, <1>4, <2>1
    <2>3. WillFind(f, n)'
      BY <1>2, <1>5 DEF WillFind
    <2>4. QED
      BY <2>2, <2>3
  <1>6. ASSUME NEW f \in Calls, NEW c \in Dirs, WillWatch(f, c), InZone(c)
        PROVE  \E h \in Calls' : WillWatch(h, c)
    <2>1. CASE f = Top
      <3>1. Top.stage = "remember" /\ Parent[c] = d
        BY <1>1, <1>6, <2>1 DEF WillWatch, d
      <3>2. d \notin Leaves
        BY <1>6, <3>1, KindsAssumption DEF InZone, Nodes
      <3>3. g \in Calls' /\ WillWatch(g, c)
        BY <1>1, <1>3, <3>1, <3>2 DEF WillWatch
      <3>4. QED
        BY <3>3
    <2>2. CASE f # Top
      BY <1>1, <1>4, <1>6, <2>2
    <2>3. QED
      BY <2>1, <2>2
  <1>7. \A f \in Calls' : f.stage = "walk" => f \in Calls
    BY <1>3, <1>4
  <1>8. QED
    BY <1>2, <1>5, <1>6, <1>7, SameExistences

(* initialCreateToWatchDir() calls itself for every subdirectory.             *)
LEMMA SetUpExistences ==
    ASSUME CalmInv, Existences, NEW n \in Nodes, SetUp(n) PROVE Existences'
  <1> DEFINE g == Call(n, "watch")
  <1>1. /\ stack # <<>> /\ n \in Top.names /\ Top.stage = "walk" /\ phase = "setup"
        /\ UNCHANGED <<disk, kernelWd, queue, wd, phase, existing, results>>
        /\ Done(n) \in Calls' /\ RestCalls \subseteq Calls'
        /\ n \in Dirs /\ disk[n] => g \in Calls'
    <2>1. /\ stack # <<>> /\ n \in Top.names /\ Top.stage = "walk" /\ phase = "setup"
          /\ UNCHANGED <<disk, kernelWd, queue, wd, phase, existing, results>>
          /\ IF n \in Dirs /\ disk[n] THEN Calls' = {g, Done(n)} \cup RestCalls
                                      ELSE Calls' = {Done(n)} \cup RestCalls
      BY SetUpCalls DEF CalmInv, WatchInv
    <2> HIDE DEF g
    <2>2. QED
      BY <2>1
  <1>2. g.dir = n /\ g.stage = "watch"
    BY DEF Call
  <1>3. /\ Calls = {Top} \cup RestCalls
        /\ Done(n).dir = Top.dir /\ Done(n).stage = Top.stage /\ Done(n).names = Top.names \ {n}
    BY <1>1, WalkCalls DEF CalmInv, WatchInv
  <1> HIDE DEF g
  <1>4. ASSUME NEW f \in Calls, NEW m \in Nodes, WillFind(f, m)
        PROVE  \E c \in Calls' : WillFind(c, m)'
    <2>1. f # Top
      BY <1>1, <1>4 DEF WillFind
    <2>2. f \in Calls' /\ WillFind(f, m)'
      BY <1>1, <1>3, <1>4, <2>1 DEF WillFind
    <2>3. QED
      BY <2>2
  <1>5. ASSUME NEW f \in Calls, NEW c \in Dirs, WillWatch(f, c), disk[c]
        PROVE  \E h \in Calls' : WillWatch(h, c)
    <2>1. CASE f = Top /\ c = n
      <3>1. g \in Calls' /\ WillWatch(g, c)
        BY <1>1, <1>2, <1>5, <2>1 DEF WillWatch
      <3>2. QED
        BY <3>1
    <2>2. CASE f = Top /\ c # n
      <3>1. WillWatch(Done(n), c)
        BY <1>1, <1>3, <1>5, <2>2 DEF WillWatch
      <3>2. QED
        BY <1>1, <3>1
    <2>3. CASE f # Top
      BY <1>1, <1>3, <1>5, <2>3
    <2>4. QED
      BY <2>1, <2>2, <2>3
  <1>6. phase' # "running"
    BY <1>1
  <1>7. QED
    BY <1>1, <1>4, <1>5, <1>6, SameExistences

LEMMA EndSetupExistences == ASSUME Existences, EndSetup PROVE Existences'
  <1>1. UNCHANGED <<disk, kernelWd, queue, wd, existing, results>> /\ stack = <<>> /\ stack' = <<>>
    BY DEF EndSetup, files, inotify, tree, model
  <1>2. Calls = {} /\ Calls' = {}
    BY <1>1 DEF Calls
  <1>3. QED
    BY <1>1, <1>2, SameExistences

(* addExistingContent() remembers what is there.                              *)
LEMMA RememberExistences ==
    ASSUME CalmInv, Calm, Existences, NEW n \in Nodes, Remember(n) PROVE Existences'
  <1>1. /\ stack # <<>> /\ n \in Top.names /\ Top.stage = "remember" /\ stack' = AfterName(n)
        /\ existing' = IF disk[n] THEN existing \cup {n} ELSE existing
        /\ UNCHANGED <<disk, kernelWd, queue, wd, phase, results>>
    BY DEF Remember, AfterName, files, inotify, tree
  <1>2. Parent[n] = Top.dir /\ Top \in Calls
    BY <1>1, CallInNames
  <1>3. phase = "setup" /\ wd[Parent[n]] # 0
    BY <1>1, <1>2 DEF CalmInv, NamesInv, ParentsInv
  <1>4. /\ Calls = {Top} \cup RestCalls /\ Calls' = {Done(n)} \cup RestCalls
        /\ Done(n).dir = Top.dir /\ Done(n).stage = Top.stage /\ Done(n).names = Top.names \ {n}
    BY <1>1, WalkCalls DEF CalmInv, WatchInv
  <1>5. \A m \in Nodes : /\ Quiet(m)' <=> Quiet(m)
                         /\ \A i \in DOMAIN queue : /\ IsLast(i, m)' <=> IsLast(i, m)
                                                    /\ Matched(i, m)' <=> Matched(i, m)
    BY <1>1 DEF Quiet, IsLast, Matched
  <1>6. \A m \in Nodes : /\ Known(m) <=> m \in existing
                         /\ Known(m)' <=> m \in existing \/ (m = n /\ disk[n])
    <2>1. \A m \in Nodes : results[KeyOf(m)] = NoResult
      BY <1>3, KeyOfKey DEF CalmInv, WatchInv, SetupInv
    <2>2. \A m \in Nodes : m \in existing' <=> m \in existing \/ (m = n /\ disk[n])
      BY <1>1
    <2>3. QED
      BY <1>1, <2>1, <2>2 DEF Known
  <1>7. LastInv'
    BY <1>1, <1>5 DEF Existences, LastInv
  <1>8. KnownInv'
    <2>1. ASSUME NEW m \in Nodes
          PROVE  /\ wd[Parent[m]] = 0 => ~Known(m)'
                 /\ Quiet(m) /\ Known(m)' => disk[m]
                 /\ Quiet(m) /\ disk[m] /\ kernelWd[Parent[m]] # 0 =>
                       Known(m)' \/ \E g \in Calls' : WillFind(g, m)'
      <3>1. /\ wd[Parent[m]] = 0 => ~Known(m)
            /\ Quiet(m) /\ Known(m) => disk[m]
            /\ Quiet(m) /\ disk[m] /\ kernelWd[Parent[m]] # 0 =>
                  Known(m) \/ \E f \in Calls : WillFind(f, m)
        BY DEF Existences, KnownInv
      <3>2. ASSUME NEW f \in Calls, WillFind(f, m), disk[m]
            PROVE  Known(m)' \/ \E g \in Calls' : WillFind(g, m)'
        <4>1. CASE f = Top /\ m # n
          <5>1. PICK c \in Calls' : c = Done(n)
            BY <1>4
          <5>2. c.dir = Parent[m] /\ c.stage = "remember" /\ m \in c.names
            BY <1>1, <1>4, <3>2, <4>1, <5>1 DEF WillFind
          <5>3. WillFind(c, m)'
            BY <5>2 DEF WillFind
          <5>4. QED
            BY <5>3
        <4>2. CASE f = Top /\ m = n
          BY <1>6, <3>2, <4>2
        <4>3. CASE f # Top
          <5>1. f \in Calls' /\ WillFind(f, m)'
            BY <1>1, <1>4, <3>2, <4>3 DEF WillFind
          <5>2. QED
            BY <5>1
        <4>4. QED
          BY <4>1, <4>2, <4>3
      <3>3. QED
        BY <1>3, <1>6, <3>1, <3>2
    <2>2. QED
      BY <1>1, <1>5, <2>1 DEF KnownInv
  <1>9. WalkInv'
    BY <1>1, <1>3 DEF WalkInv
  <1>10. ComingInv'
    <2>1. ASSUME NEW d \in Dirs, NEW f \in Calls, WillWatch(f, d)
          PROVE  \E g \in Calls' : WillWatch(g, d)
      <3>1. CASE f = Top
        BY <1>1, <1>4, <2>1, <3>1 DEF WillWatch
      <3>2. CASE f # Top
        BY <1>4, <2>1, <3>2
      <3>3. QED
        BY <3>1, <3>2
    <2>2. \A d \in Dirs : \A i \in DOMAIN queue : Matched(i, d)' <=> Matched(i, d)
      BY <1>5 DEF Nodes
    <2>3. QED
      BY <1>1, <2>1, <2>2 DEF Existences, ComingInv, InZone
  <1>11. QED
    BY <1>7, <1>8, <1>9, <1>10 DEF Existences

(* What changes on the disk is seen, or happens where nothing is known yet.    *)
LEMMA EnvironmentExistences ==
    ASSUME CalmInv, Calm, Calm', WatchInv', Existences, Environment PROVE Existences'
  <1>1. PICK n \in Nodes, act \in Action : Alters(n, act)
    BY EnvironmentAlters DEF CalmInv, WatchInv
  <1>2. UNCHANGED <<phase, stack, wd, existing, results>> /\ Calls' = Calls
    BY EnvironmentAlters DEF CalmInv, WatchInv, Calls
  <1>3. disk \in [Nodes -> BOOLEAN] /\ kernelWd \in [AllDirs -> Nat] /\ DOMAIN queue' \subseteq Nat
    BY DEF CalmInv, WatchInv, TypeOK
  <1>4. /\ disk'[n] <=> act # "delete"
        /\ disk[n] <=> act # "create"
        /\ \A m \in Nodes : m # n => disk'[m] = disk[m]
    BY <1>1, <1>3 DEF Alters
  <1>5. \A d \in AllDirs : \/ kernelWd'[d] = kernelWd[d]
                           \/ d = n /\ ~disk'[n] /\ kernelWd'[d] = 0
    BY <1>1, <1>3, <1>4 DEF Alters
  <1> DEFINE p == Parent[n]
  <1>6. /\ p \in AllDirs
        /\ \/ wd[p] = 0 /\ kernelWd[p] = 0 /\ queue' = queue
           \/ /\ wd[p] # 0
              /\ \E k \in DOMAIN queue' :
                    /\ queue'[k] = [wd |-> wd[p], name |-> n, act |-> act]
                    /\ \A i \in DOMAIN queue' : i <= k /\ (i = k \/ i \in DOMAIN queue)
                    /\ \A i \in DOMAIN queue : i \in DOMAIN queue' /\ queue'[i] = queue[i]
    BY <1>1, CalmChange, ParentDir
  <1>7. \A m \in Nodes : Known(m)' <=> Known(m)
    BY <1>2 DEF Known
  <1>8. \A f \in Calls : \A m \in Nodes : WillFind(f, m)' <=> WillFind(f, m)
    BY <1>2 DEF WillFind
  <1>9. \A m \in Nodes : kernelWd'[Parent[m]] # 0 => kernelWd[Parent[m]] # 0
    BY <1>5, ParentDir
  (* what a name's events say, and what the disk does *)
  <1>10. ASSUME NEW m \in Nodes
         PROVE  /\ \A i \in DOMAIN queue' : IsLast(i, m)' => (disk'[m] <=> queue'[i].act # "delete")
                /\ Quiet(m)' => Quiet(m) /\ (disk'[m] = disk[m] \/ (wd[Parent[m]] = 0 /\ kernelWd[Parent[m]] = 0))
                /\ \A i \in DOMAIN queue : Matched(i, m) =>
                      i \in DOMAIN queue' /\ Matched(i, m)' /\ queue'[i] = queue[i]
                /\ ~disk[m] /\ disk'[m] /\ kernelWd[Parent[m]] # 0 =>
                      \E i \in DOMAIN queue' : Matched(i, m)' /\ queue'[i].act = "create"
    <2>1. \A i \in DOMAIN queue : IsLast(i, m) => (disk[m] <=> queue[i].act # "delete")
      BY DEF Existences, LastInv
    <2>2. CASE m # n
      <3>1. \/ queue' = queue
            \/ \E k \in DOMAIN queue' :
                  /\ queue'[k].name = n
                  /\ \A i \in DOMAIN queue' : i <= k /\ (i = k \/ i \in DOMAIN queue)
                  /\ \A i \in DOMAIN queue : i \in DOMAIN queue' /\ queue'[i] = queue[i]
        BY <1>6
      <3>2. /\ Quiet(m)' <=> Quiet(m)
            /\ \A i \in DOMAIN queue' :
                  IsLast(i, m)' => i \in DOMAIN queue /\ IsLast(i, m) /\ queue'[i] = queue[i]
            /\ \A i \in DOMAIN queue : Matched(i, m) =>
                  i \in DOMAIN queue' /\ Matched(i, m)' /\ queue'[i] = queue[i]
        BY <1>2, <2>2, <3>1, OthersQueue
      <3>3. disk'[m] = disk[m]
        BY <1>4, <2>2
      <3>4. QED
        BY <2>1, <3>2, <3>3
    <2>3. CASE m = n /\ wd[p] = 0 /\ kernelWd[p] = 0 /\ queue' = queue
      <3>1. \A i \in DOMAIN queue : ~Matched(i, n)
        BY <2>3 DEF CalmInv, DescriptorInv, Matched
      <3>2. Quiet(n) /\ \A i \in DOMAIN queue' : ~IsLast(i, n)'
        BY <1>2, <2>3, <3>1 DEF Quiet, IsLast, Matched
      <3>3. QED
        BY <2>3, <3>1, <3>2
    <2>4. CASE m = n /\ wd[p] # 0
      <3>1. PICK k \in DOMAIN queue' :
               /\ queue'[k] = [wd |-> wd[p], name |-> n, act |-> act]
               /\ \A i \in DOMAIN queue' : i <= k /\ (i = k \/ i \in DOMAIN queue)
               /\ \A i \in DOMAIN queue : i \in DOMAIN queue' /\ queue'[i] = queue[i]
        BY <1>6, <2>4
      <3>2. /\ Matched(k, n)' /\ queue'[k].act = act /\ ~Quiet(n)'
            /\ \A i \in DOMAIN queue' : IsLast(i, n)' => i = k
        BY <1>2, <1>3, <3>1, PostedQueue
      <3>3. \A i \in DOMAIN queue : Matched(i, n) =>
               i \in DOMAIN queue' /\ Matched(i, n)' /\ queue'[i] = queue[i]
        BY <1>2, <3>1 DEF Matched
      <3>4. ~disk[n] => act = "create"
        BY <1>4
      <3>5. QED
        BY <1>4, <2>4, <3>2, <3>3, <3>4
    <2>5. QED
      BY <1>6, <2>2, <2>3, <2>4
  <1>11. LastInv'
    BY <1>10 DEF LastInv
  <1>12. KnownInv'
    <2>1. ASSUME NEW m \in Nodes
          PROVE  /\ wd[Parent[m]] = 0 => ~Known(m)
                 /\ Quiet(m)' /\ Known(m) => disk'[m]
                 /\ Quiet(m)' /\ disk'[m] /\ kernelWd'[Parent[m]] # 0 =>
                       Known(m) \/ \E f \in Calls : WillFind(f, m)
      <3>1. /\ wd[Parent[m]] = 0 => ~Known(m)
            /\ Quiet(m) /\ Known(m) => disk[m]
            /\ Quiet(m) /\ disk[m] /\ kernelWd[Parent[m]] # 0 =>
                  Known(m) \/ \E f \in Calls : WillFind(f, m)
        BY DEF Existences, KnownInv
      <3>2. QED
        BY <1>9, <1>10, <3>1
    <2>2. QED
      BY <1>2, <1>7, <1>8, <2>1 DEF KnownInv
  <1>13. WalkInv'
    <2>1. SUFFICES ASSUME phase = "running", NEW f \in Calls, f.stage = "walk", NEW m \in f.names, Quiet(m)'
                   PROVE  disk'[m]
      BY <1>2 DEF WalkInv
    <2>2. m \in Nodes /\ Parent[m] = f.dir
      BY DEF CalmInv, NamesInv, Children
    <2>3. wd[Parent[m]] # 0
      BY <2>1, <2>2 DEF CalmInv, ParentsInv
    <2>4. Quiet(m) /\ disk'[m] = disk[m]
      BY <1>10, <2>1, <2>2, <2>3
    <2>5. QED
      BY <2>1, <2>4 DEF Existences, WalkInv
  <1>14. ComingInv'
    <2>1. ASSUME NEW d \in Dirs, InZone(d), disk'[d], kernelWd'[d] = 0, kernelWd'[Parent[d]] # 0
          PROVE  \/ \E f \in Calls : WillWatch(f, d)
                 \/ \E i \in DOMAIN queue' : Matched(i, d)' /\ queue'[i].act = "create"
      <3>1. d \in Nodes /\ d \in AllDirs /\ kernelWd[Parent[d]] # 0
        BY <1>9, <2>1 DEF Nodes, AllDirs
      <3>2. CASE ~disk[d]
        BY <1>10, <2>1, <3>1, <3>2
      <3>3. CASE disk[d]
        <4>1. kernelWd[d] = 0
          BY <1>5, <2>1, <3>1
        <4>2. \/ \E f \in Calls : WillWatch(f, d)
              \/ \E i \in DOMAIN queue : Matched(i, d) /\ queue[i].act = "create"
          BY <2>1, <3>1, <3>3, <4>1 DEF Existences, ComingInv
        <4>3. QED
          BY <1>10, <3>1, <4>2
      <3>4. QED
        BY <3>2, <3>3
    <2>2. QED
      BY <1>2, <2>1 DEF ComingInv, InZone
  <1>15. QED
    BY <1>11, <1>12, <1>13, <1>14 DEF Existences

(* A directory that is watched is listed next.                                *)
LEMMA AddWatchExistences == ASSUME CalmInv, Existences, AddWatch PROVE Existences'
  <1> DEFINE d == Top.dir
  <1>1. PICK f : f = Call(d, IF phase = "setup" THEN "list" ELSE "open")
    OBVIOUS
  <1>2. /\ d \in Dirs /\ wd[d] = 0 /\ kernelWd[d] = 0
        /\ UNCHANGED <<queue, phase, disk, existing, results>>
        /\ \A n \in Nodes : \A i \in DOMAIN queue : Matched(i, n)' <=> Matched(i, n)
        /\ \A x \in AllDirs : x # d => wd'[x] = wd[x] /\ kernelWd'[x] = kernelWd[x]
        /\ IF disk[d] THEN wd'[d] = lastWd + 1 /\ kernelWd'[d] = lastWd + 1
                      ELSE UNCHANGED <<wd, kernelWd>>
    BY AddWatchShape
  <1>3. phase \in {"setup", "running"} /\ lastWd \in Nat
    BY DEF CalmInv, WatchInv, TypeOK
  <1>4. /\ f.dir = d
        /\ f.stage = IF phase = "setup" THEN "list" ELSE "open"
    BY <1>1 DEF Call
  <1>5. /\ Calls = {Top} \cup RestCalls /\ Top.stage = "watch"
        /\ IF disk[d] THEN Calls' = {f} \cup RestCalls ELSE Calls' = RestCalls
    <2>1. TypeOK /\ stack # <<>>
      BY DEF CalmInv, WatchInv, AddWatch
    <2>2. /\ Top.stage = "watch"
          /\ IF disk[d]
             THEN Calls' = {Call(d, IF phase = "setup" THEN "list" ELSE "open")} \cup RestCalls
             ELSE Calls' = RestCalls
      BY <2>1, AddWatchCalls
    <2> HIDE DEF d
    <2>3. QED
      BY <1>1, <2>1, <2>2, CallsSplit
  <1> HIDE DEF d
  <1>6. \A n \in Nodes :
           /\ Quiet(n)' <=> Quiet(n)
           /\ \A i \in DOMAIN queue : IsLast(i, n)' <=> IsLast(i, n)
           /\ Known(n)' <=> Known(n)
    <2>1. \A n \in Nodes : Known(n)' <=> Known(n)
      BY <1>2 DEF Known
    <2>2. QED
      BY <1>2, <2>1, SameQueue
  <1>7. \A g \in Calls : \A n \in Nodes : WillFind(g, n) => g \in Calls' /\ WillFind(g, n)'
    <2>1. SUFFICES ASSUME NEW g \in Calls, NEW n \in Nodes, WillFind(g, n)
                   PROVE  g \in Calls' /\ WillFind(g, n)'
      OBVIOUS
    <2>2. g # Top
      BY <1>5, <2>1 DEF WillFind
    <2>3. g \in Calls'
      BY <1>5, <2>2
    <2>4. WillFind(g, n)'
      BY <1>2, <2>1 DEF WillFind
    <2>5. QED
      BY <2>3, <2>4
  <1>8. /\ disk[d] => wd'[d] # 0 /\ kernelWd'[d] # 0
        /\ kernelWd'[d] # 0 => disk[d] /\ f \in Calls'
    BY <1>2, <1>3, <1>5
  <1>9. LastInv'
    BY <1>2, <1>6 DEF Existences, LastInv
  <1>10. KnownInv'
    <2>1. ASSUME NEW n \in Nodes
          PROVE  /\ wd'[Parent[n]] = 0 => ~Known(n)
                 /\ Quiet(n) /\ Known(n) => disk[n]
                 /\ Quiet(n) /\ disk[n] /\ kernelWd'[Parent[n]] # 0 =>
                       Known(n) \/ \E g \in Calls' : WillFind(g, n)'
      <3>1. /\ wd[Parent[n]] = 0 => ~Known(n)
            /\ Quiet(n) /\ Known(n) => disk[n]
            /\ Quiet(n) /\ disk[n] /\ kernelWd[Parent[n]] # 0 =>
                  Known(n) \/ \E g \in Calls : WillFind(g, n)
        BY DEF Existences, KnownInv
      <3>2. CASE Parent[n] = d
        <4>1. WillFind(f, n)'
          BY <1>2, <1>3, <1>4, <3>2 DEF WillFind
        <4>2. QED
          BY <1>2, <1>8, <3>1, <3>2, <4>1
      <3>3. CASE Parent[n] # d
        BY <1>2, <1>7, <3>1, <3>3, ParentDir
      <3>4. QED
        BY <3>2, <3>3
    <2>2. QED
      BY <1>2, <1>6, <2>1 DEF KnownInv
  <1>11. WalkInv'
    <2>1. SUFFICES ASSUME phase = "running", NEW g \in Calls', g.stage = "walk", NEW n \in g.names, Quiet(n)'
                   PROVE  disk[n]
      BY <1>2 DEF WalkInv
    <2>2. g \in Calls
      BY <1>4, <1>5, <2>1
    <2>3. n \in Nodes
      BY <2>2 DEF CalmInv, NamesInv, Children
    <2>4. QED
      BY <1>6, <2>1, <2>2, <2>3 DEF Existences, WalkInv
  <1>12. ComingInv'
    <2>1. ASSUME NEW c \in Dirs, InZone(c), disk[c], kernelWd'[c] = 0, kernelWd'[Parent[c]] # 0
          PROVE  \/ \E g \in Calls' : WillWatch(g, c)
                 \/ \E i \in DOMAIN queue : Matched(i, c)' /\ queue[i].act = "create"
      <3>1. c \in Nodes /\ c \in AllDirs /\ Parent[c] \in AllDirs
        BY ParentDir DEF Nodes, AllDirs
      <3>2. c # d
        BY <1>8, <2>1
      <3>3. CASE Parent[c] = d
        <4>1. f \in Calls'
          BY <1>8, <2>1, <3>3
        <4>2. WillWatch(f, c)
          BY <1>4, <3>3 DEF WillWatch
        <4>3. QED
          BY <4>1, <4>2
      <3>4. CASE Parent[c] # d
        <4>1. kernelWd[c] = 0 /\ kernelWd[Parent[c]] # 0
          BY <1>2, <2>1, <3>1, <3>2, <3>4
        <4>2. \/ \E g \in Calls : WillWatch(g, c)
              \/ \E i \in DOMAIN queue : Matched(i, c) /\ queue[i].act = "create"
          BY <2>1, <4>1 DEF Existences, ComingInv
        <4>3. ASSUME NEW g \in Calls, WillWatch(g, c) PROVE g \in Calls'
          <5>1. g # Top
            BY <1>5, <3>2, <3>4, <4>3 DEF WillWatch, d
          <5>2. QED
            BY <1>5, <5>1
        <4>4. QED
          BY <1>2, <3>1, <4>2, <4>3
      <3>5. QED
        BY <3>3, <3>4
    <2>2. QED
      BY <1>2, <2>1 DEF ComingInv, InZone
  <1>13. QED
    BY <1>9, <1>10, <1>11, <1>12 DEF Existences

(* createImmediateChildren() makes known what is there, and enters what is a   *)
(* directory.                                                               *)
LEMMA DiscoverExistences ==
    ASSUME CalmInv, Calm, Calm', Existences, NEW n \in Nodes, Discover(n) PROVE Existences'
  <1>1. /\ phase = "running" /\ phase' = "running" /\ Top.stage = "walk" /\ n \in Top.names /\ stack # <<>>
        /\ UNCHANGED <<queue, disk>>
        /\ \A m \in Nodes : m # n =>
              results'[KeyOf(m)] = results[KeyOf(m)] /\ (m \in existing' <=> m \in existing)
    BY DiscoverShape
  <1>2. ~hasInconsistencies'
    BY DEF Calm
  <1>3. PICK g : g = Call(n, IF wd'[n] = 0 THEN "watch" ELSE "open")
    OBVIOUS
  <1>4. /\ UNCHANGED <<wd, kernelWd>>
        /\ \/ /\ n \in Dirs /\ ~disk[n]
              /\ results'[KeyOf(n)] = results[KeyOf(n)] /\ existing' = existing
           \/ results'[KeyOf(n)] = OnScan(results[KeyOf(n)])
        /\ Calls' = {Done(n)} \cup RestCalls \/ Calls' = {g, Done(n)} \cup RestCalls
        /\ n \in Dirs /\ disk[n] => Parent[n] \in Leaves \/ g \in Calls'
    <2>1. \/ /\ n \notin Dirs \/ ~disk[n]
             /\ Calls' = {Done(n)} \cup RestCalls
             /\ UNCHANGED <<kernelWd, wd>>
             /\ IF n \in Dirs THEN results'[KeyOf(n)] = results[KeyOf(n)] /\ existing' = existing
                              ELSE results'[KeyOf(n)] = OnScan(results[KeyOf(n)])
          \/ /\ n \in Dirs /\ disk[n]
             /\ \/ Parent[n] \in Leaves /\ Calls' = {Done(n)} \cup RestCalls
                \/ Calls' = {Call(n, IF wd'[n] = 0 THEN "watch" ELSE "open"), Done(n)} \cup RestCalls
             /\ UNCHANGED <<wd, kernelWd>>
             /\ results'[KeyOf(n)] = OnScan(results[KeyOf(n)])
      BY <1>2, DiscoverShape
    <2>2. CASE /\ n \notin Dirs \/ ~disk[n]
               /\ Calls' = {Done(n)} \cup RestCalls
               /\ UNCHANGED <<kernelWd, wd>>
               /\ IF n \in Dirs THEN results'[KeyOf(n)] = results[KeyOf(n)] /\ existing' = existing
                                ELSE results'[KeyOf(n)] = OnScan(results[KeyOf(n)])
      BY <2>2
    <2>3. CASE /\ n \in Dirs /\ disk[n]
               /\ \/ Parent[n] \in Leaves /\ Calls' = {Done(n)} \cup RestCalls
                  \/ Calls' = {Call(n, IF wd'[n] = 0 THEN "watch" ELSE "open"), Done(n)} \cup RestCalls
               /\ UNCHANGED <<wd, kernelWd>>
               /\ results'[KeyOf(n)] = OnScan(results[KeyOf(n)])
      <3>1. Calls' = {g, Done(n)} \cup RestCalls => g \in Calls'
        OBVIOUS
      <3>2. QED
        BY <1>3, <2>3, <3>1
    <2>4. QED
      BY <2>1, <2>2, <2>3
  <1>5. Top \in Calls /\ Parent[n] = Top.dir
    BY <1>1, CallInNames
  <1>6. /\ Calls = {Top} \cup RestCalls /\ RestCalls \subseteq Calls' /\ Done(n) \in Calls'
        /\ \A c \in Calls' : c = g \/ c = Done(n) \/ c \in RestCalls
        /\ Done(n).dir = Top.dir /\ Done(n).stage = Top.stage /\ Done(n).names = Top.names \ {n}
    <2>1. /\ Calls = {Top} \cup RestCalls
          /\ Done(n).dir = Top.dir /\ Done(n).stage = Top.stage /\ Done(n).names = Top.names \ {n}
      BY <1>1, WalkCalls DEF CalmInv, WatchInv
    <2>2. /\ RestCalls \subseteq Calls' /\ Done(n) \in Calls'
          /\ \A c \in Calls' : c = g \/ c = Done(n) \/ c \in RestCalls
      BY <1>4
    <2>3. QED
      BY <2>1, <2>2
  <1>7. g.dir = n /\ g.stage = (IF wd[n] = 0 THEN "watch" ELSE "open")
    BY <1>3, <1>4 DEF Call
  <1>8. wd[Parent[n]] # 0 /\ (Quiet(n) => disk[n])
    BY <1>1, <1>5 DEF CalmInv, ParentsInv, Existences, WalkInv
  <1>9. \A m \in Nodes : /\ Quiet(m)' <=> Quiet(m)
                         /\ \A i \in DOMAIN queue : /\ IsLast(i, m)' <=> IsLast(i, m)
                                                    /\ Matched(i, m)' <=> Matched(i, m)
    BY <1>1, <1>4 DEF Quiet, IsLast, Matched
  <1>10. /\ \A m \in Nodes : m # n => (Known(m)' <=> Known(m))
         /\ Known(n)' \/ (n \in Dirs /\ ~disk[n] /\ (Known(n)' <=> Known(n)))
    <2>1. results[KeyOf(n)] \in WatchedResult
      BY KeyOfKey DEF CalmInv, WatchInv, TypeOK
    <2>2. results'[KeyOf(n)] = OnScan(results[KeyOf(n)]) => Known(n)'
      BY <2>1, OnScanResult DEF Known
    <2>3. results'[KeyOf(n)] = results[KeyOf(n)] /\ existing' = existing => (Known(n)' <=> Known(n))
      BY DEF Known
    <2>4. \A m \in Nodes : m # n => (Known(m)' <=> Known(m))
      BY <1>1 DEF Known
    <2>5. QED
      BY <1>4, <2>2, <2>3, <2>4
  <1>11. LastInv'
    BY <1>1, <1>9 DEF Existences, LastInv
  <1>12. KnownInv'
    <2>1. ASSUME NEW m \in Nodes
          PROVE  /\ wd[Parent[m]] = 0 => ~Known(m)'
                 /\ Quiet(m) /\ Known(m)' => disk[m]
                 /\ Quiet(m) /\ disk[m] /\ kernelWd[Parent[m]] # 0 =>
                       Known(m)' \/ \E c \in Calls' : WillFind(c, m)'
      <3>1. /\ wd[Parent[m]] = 0 => ~Known(m)
            /\ Quiet(m) /\ Known(m) => disk[m]
            /\ Quiet(m) /\ disk[m] /\ kernelWd[Parent[m]] # 0 =>
                  Known(m) \/ \E f \in Calls : WillFind(f, m)
        BY DEF Existences, KnownInv
      <3>2. ASSUME NEW f \in Calls, WillFind(f, m), m # n
            PROVE  \E c \in Calls' : WillFind(c, m)'
        <4>1. CASE f = Top
          <5>1. PICK c \in Calls' : c = Done(n)
            BY <1>6
          <5>2. c.dir = Parent[m] /\ c.stage = "walk" /\ m \in c.names
            BY <1>1, <1>6, <3>2, <4>1, <5>1 DEF WillFind
          <5>3. WillFind(c, m)'
            BY <1>1, <5>2 DEF WillFind
          <5>4. QED
            BY <5>3
        <4>2. CASE f # Top
          <5>1. f \in Calls' /\ WillFind(f, m)'
            BY <1>1, <1>6, <3>2, <4>2 DEF WillFind
          <5>2. QED
            BY <5>1
        <4>3. QED
          BY <4>1, <4>2
      <3>3. CASE m = n
        BY <1>8, <1>10, <3>1, <3>3
      <3>4. CASE m # n
        BY <1>10, <3>1, <3>2, <3>4
      <3>5. QED
        BY <3>3, <3>4
    <2>2. QED
      BY <1>1, <1>4, <1>9, <2>1 DEF KnownInv
  <1>13. WalkInv'
    <2>1. SUFFICES ASSUME NEW c \in Calls', c.stage = "walk", NEW m \in c.names, Quiet(m)'
                   PROVE  disk[m]
      BY <1>1 DEF WalkInv
    <2>2. PICK f \in Calls : f.stage = "walk" /\ m \in f.names
      BY <1>1, <1>5, <1>6, <1>7, <2>1
    <2>3. m \in Nodes
      BY <2>2 DEF CalmInv, NamesInv, Children
    <2>4. QED
      BY <1>1, <1>9, <2>1, <2>2, <2>3 DEF Existences, WalkInv
  <1>14. ComingInv'
    <2>1. ASSUME NEW d \in Dirs, InZone(d), disk[d], kernelWd[d] = 0, kernelWd[Parent[d]] # 0
          PROVE  \/ \E c \in Calls' : WillWatch(c, d)
                 \/ \E i \in DOMAIN queue : Matched(i, d) /\ queue[i].act = "create"
      <3>1. \/ \E f \in Calls : WillWatch(f, d)
            \/ \E i \in DOMAIN queue : Matched(i, d) /\ queue[i].act = "create"
        BY <2>1 DEF Existences, ComingInv
      <3>2. ASSUME NEW f \in Calls, WillWatch(f, d) PROVE \E c \in Calls' : WillWatch(c, d)
        <4>1. CASE f = Top /\ d = n
          <5>1. g \in Calls'
            BY <1>4, <2>1, <4>1, KindsAssumption DEF InZone, Nodes
          <5>2. wd[n] = 0
            BY <2>1, <4>1, WatchIsCurrent DEF AllDirs, Present
          <5>3. WillWatch(g, d)
            BY <1>7, <4>1, <5>2 DEF WillWatch
          <5>4. QED
            BY <5>1, <5>3
        <4>2. CASE f = Top /\ d # n
          <5>1. WillWatch(Done(n), d)
            BY <1>1, <1>6, <3>2, <4>2 DEF WillWatch
          <5>2. QED
            BY <1>6, <5>1
        <4>3. CASE f # Top
          BY <1>6, <3>2, <4>3
        <4>4. QED
          BY <4>1, <4>2, <4>3
      <3>3. QED
        BY <3>1, <3>2
    <2>2. \A d \in Dirs : \A i \in DOMAIN queue : Matched(i, d)' <=> Matched(i, d)
      BY <1>9 DEF Nodes
    <2>3. QED
      BY <1>1, <1>4, <2>1, <2>2 DEF ComingInv, InZone
  <1>15. QED
    BY <1>11, <1>12, <1>13, <1>14 DEF Existences

(* What an event makes of what is believed.                                   *)
LEMMA HandledKnown ==
    ASSUME CalmInv, NEW n \in Nodes, NEW event \in Action, phase = "running", stack = <<>>,
           OnFileModified(n, event)
    PROVE  /\ Known(n)' <=> event # "delete"
           /\ \A m \in Nodes : m # n =>
                 /\ Known(m)' => Known(m)
                 /\ Known(m) => Known(m)' \/ (n \in Dirs /\ event = "delete" /\ Parent[m] = n)
           /\ \/ Calls' = {}
              \/ Calls' = {Call(n, IF wd'[n] = 0 THEN "watch" ELSE "open")}
           /\ n \in Dirs /\ event = "create" =>
                 \/ Parent[n] \in Leaves
                 \/ Calls' = {Call(n, IF wd'[n] = 0 THEN "watch" ELSE "open")}
  <1>1. PICK r, act : r = results[KeyOf(n)] /\ act = Effective(r, event, n \in existing, IsRoot)
    OBVIOUS
  <1>2. /\ existing' \subseteq existing
        /\ \A m \in Nodes : m # n => results'[KeyOf(m)] = results[KeyOf(m)]
        /\ results'[KeyOf(n)] # NoResult
        /\ Exists(results'[KeyOf(n)]) <=> event # "delete"
    BY <1>1, Handled
  <1>3. event = "create" => act = "create"
    BY <1>1, EffectiveType
  <1>4. \A m \in Nodes : m # n /\ m \in existing =>
           m \in existing' \/ (n \in Dirs /\ event = "delete" /\ Parent[m] = n)
    <2>1. \/ \A m \in Nodes : m # n => (m \in existing' <=> m \in existing)
          \/ /\ n \in Dirs /\ event = "delete"
             /\ existing' = existing \ ({n} \cup Children(n)) \/ existing' = existing \ {n}
      BY <1>1, Handled
    <2>2. QED
      BY <2>1 DEF Children
  <1>5. \/ Calls' = {}
        \/ Calls' = {Call(n, IF wd'[n] = 0 THEN "watch" ELSE "open")}
    BY <1>1, Handled
  <1>6. n \in Dirs /\ event = "create" =>
           \/ Parent[n] \in Leaves
           \/ Calls' = {Call(n, IF wd'[n] = 0 THEN "watch" ELSE "open")}
    <2>1. ASSUME n \in Dirs, act = "create", event # "delete"
          PROVE  \/ Parent[n] \in Leaves
                 \/ Calls' = {Call(n, IF wd'[n] = 0 THEN "watch" ELSE "open")}
      BY <1>1, <2>1, Handled
    <2>2. QED
      BY <1>3, <2>1
  <1>7. Known(n)' <=> event # "delete"
    BY <1>2 DEF Known
  <1>8. \A m \in Nodes : m # n =>
           /\ Known(m)' => Known(m)
           /\ Known(m) => Known(m)' \/ (n \in Dirs /\ event = "delete" /\ Parent[m] = n)
    BY <1>2, <1>4 DEF Known
  <1>9. QED
    BY <1>5, <1>6, <1>7, <1>8

(* An event is handled: what it says of its name is then known, and a          *)
(* directory it tells of is entered.                                        *)
LEMMA DispatchExistences ==
    ASSUME CalmInv, Calm, Calm', Existences, Dispatch PROVE Existences'
  <1>1. PICK n \in Nodes, event \in Action :
           /\ phase = "running" /\ stack = <<>> /\ phase' = "running" /\ UNCHANGED disk
           /\ 1 \in DOMAIN queue /\ queue[1].name = n /\ queue[1].act = event
           /\ DOMAIN queue \subseteq Nat \ {0} /\ DOMAIN queue' \subseteq Nat \ {0}
           /\ \A i \in DOMAIN queue' : i + 1 \in DOMAIN queue /\ queue'[i] = queue[i + 1]
           /\ \A i \in DOMAIN queue : i # 1 =>
                 i - 1 \in DOMAIN queue' /\ queue'[i - 1] = queue[i] /\ (i - 1) + 1 = i
           /\ \/ /\ ~Matched(1, n)
                 /\ UNCHANGED <<kernelWd, wd, results, existing, hasInconsistencies>> /\ Calls' = {}
              \/ Matched(1, n) /\ OnFileModified(n, event)
    BY DispatchShape
  <1> DEFINE gone == n \in Dirs /\ event = "delete"
  <1>2. PICK g : g = Call(n, IF wd'[n] = 0 THEN "watch" ELSE "open")
    OBVIOUS
  <1>3. g.dir = n /\ g.stage = (IF wd'[n] = 0 THEN "watch" ELSE "open")
    BY <1>2 DEF Call
  <1>4. Calls = {}
    BY <1>1 DEF Calls
  <1>5. /\ \A m \in Nodes : m # n => ~Matched(1, m)
        /\ \A i \in DOMAIN queue : queue[i].wd # 0
        /\ Matched(1, n) => wd[Parent[n]] # 0
    BY <1>1 DEF Matched, CalmInv, DescriptorInv
  <1>6. /\ \A m \in Nodes : m # n =>
              /\ Known(m)' => Known(m)
              /\ Known(m) => Known(m)' \/ (gone /\ Matched(1, n) /\ Parent[m] = n)
        /\ IF Matched(1, n) THEN Known(n)' <=> event # "delete" ELSE Known(n)' <=> Known(n)
        /\ \A d \in AllDirs : \/ wd'[d] = wd[d] /\ kernelWd'[d] = kernelWd[d]
                              \/ d = n /\ gone /\ Matched(1, n)
        /\ gone /\ Matched(1, n) =>
              /\ wd'[n] = 0 /\ kernelWd'[n] = 0 /\ ~disk[n]
              /\ \A m \in Nodes : Parent[m] = n => ~disk[m] /\ Quiet(m)
        /\ Calls' = {} \/ Calls' = {g}
        /\ Matched(1, n) /\ n \in Dirs /\ event = "create" => Parent[n] \in Leaves \/ Calls' = {g}
    <2>1. CASE ~Matched(1, n) /\ UNCHANGED <<kernelWd, wd, results, existing, hasInconsistencies>> /\ Calls' = {}
      <3>1. \A m \in Nodes : Known(m)' <=> Known(m)
        BY <2>1 DEF Known
      <3>2. QED
        BY <2>1, <3>1
    <2>2. CASE Matched(1, n) /\ OnFileModified(n, event)
      <3>1. ~hasInconsistencies'
        BY DEF Calm
      <3>2. /\ \A d \in AllDirs : (wd'[d] = wd[d] /\ kernelWd'[d] = kernelWd[d]) \/ (d = n /\ gone)
            /\ gone => /\ wd'[n] = 0 /\ kernelWd'[n] = 0 /\ ~disk[n]
                       /\ \A m \in Nodes : Parent[m] = n => ~disk[m] /\ Quiet(m)
        BY <1>1, <2>2, <3>1, HandledWatches
      <3>3. /\ Known(n)' <=> event # "delete"
            /\ \A m \in Nodes : m # n =>
                  /\ Known(m)' => Known(m)
                  /\ Known(m) => Known(m)' \/ (gone /\ Parent[m] = n)
            /\ Calls' = {} \/ Calls' = {g}
            /\ n \in Dirs /\ event = "create" => Parent[n] \in Leaves \/ Calls' = {g}
        BY <1>1, <1>2, <2>2, HandledKnown
      <3> HIDE DEF gone
      <3>4. QED
        BY <2>2, <3>2, <3>3
    <2>3. QED
      BY <1>1, <2>1, <2>2
  <1>7. \A m \in Nodes : \/ wd'[Parent[m]] = wd[Parent[m]] /\ kernelWd'[Parent[m]] = kernelWd[Parent[m]]
                         \/ /\ wd'[Parent[m]] = 0 /\ kernelWd'[Parent[m]] = 0
                            /\ Parent[m] = n /\ ~disk[m] /\ Quiet(m)
    BY <1>6, ParentDir
  <1>8. ASSUME NEW m \in Nodes
        PROVE  /\ \A i \in DOMAIN queue' : IsLast(i, m)' => IsLast(i + 1, m)
               /\ wd'[Parent[m]] = wd[Parent[m]] =>
                     /\ ~Matched(1, m) => (Quiet(m)' <=> Quiet(m))
                     /\ Quiet(m)' /\ Matched(1, m) => IsLast(1, m)
                     /\ \A i \in DOMAIN queue : i # 1 /\ Matched(i, m) =>
                           i - 1 \in DOMAIN queue' /\ queue'[i - 1] = queue[i] /\ Matched(i - 1, m)'
    <2>1. wd'[Parent[m]] = 0 \/ wd'[Parent[m]] = wd[Parent[m]]
      BY <1>7
    <2>2. QED
      BY <1>1, <1>5, <2>1, ReadOn
  <1>9. LastInv'
    <2>1. \A m \in Nodes : \A i \in DOMAIN queue : IsLast(i, m) => (disk[m] <=> queue[i].act # "delete")
      BY DEF Existences, LastInv
    <2>2. QED
      BY <1>1, <1>8, <2>1 DEF LastInv
  <1>10. KnownInv'
    <2>1. ASSUME NEW m \in Nodes
          PROVE  /\ wd'[Parent[m]] = 0 => ~Known(m)'
                 /\ Quiet(m)' /\ Known(m)' => disk[m]
                 /\ Quiet(m)' /\ disk[m] /\ kernelWd'[Parent[m]] # 0 => Known(m)'
      <3>1. /\ wd[Parent[m]] = 0 => ~Known(m)
            /\ Quiet(m) /\ Known(m) => disk[m]
            /\ Quiet(m) /\ disk[m] /\ kernelWd[Parent[m]] # 0 => Known(m)
        BY <1>4 DEF Existences, KnownInv
      <3>2. CASE m = n /\ Matched(1, n)
        <4>1. 1 \in DOMAIN queue /\ ~Quiet(n)
          BY <1>1, <3>2 DEF Quiet
        <4>2. wd'[Parent[m]] = wd[Parent[m]]
          BY <1>7, <3>2, <4>1
        <4>3. Quiet(n)' => IsLast(1, n)
          BY <1>8, <3>2, <4>2
        <4>4. Quiet(n)' => (disk[n] <=> event # "delete")
          BY <1>1, <4>3 DEF Existences, LastInv
        <4>5. QED
          BY <1>5, <1>6, <3>2, <4>2, <4>4
      <3>3. CASE ~Matched(1, m)
        <4>1. Known(m)' => Known(m)
          BY <1>6, <3>3
        <4>2. CASE /\ wd'[Parent[m]] = 0 /\ kernelWd'[Parent[m]] = 0
                   /\ ~disk[m] /\ Quiet(m)
          BY <3>1, <4>1, <4>2
        <4>3. CASE wd'[Parent[m]] = wd[Parent[m]] /\ kernelWd'[Parent[m]] = kernelWd[Parent[m]]
          <5>1. Quiet(m)' <=> Quiet(m)
            BY <1>8, <3>3, <4>3
          <5>2. kernelWd'[Parent[m]] # 0 /\ Known(m) => Known(m)'
            BY <1>6, <3>3
          <5>3. QED
            BY <3>1, <4>1, <4>3, <5>1, <5>2
        <4>4. QED
          BY <1>7, <4>2, <4>3
      <3>4. QED
        BY <1>5, <3>2, <3>3
    <2>2. QED
      BY <1>1, <2>1 DEF KnownInv
  <1>11. WalkInv'
    BY <1>3, <1>6 DEF WalkInv
  <1>12. ComingInv'
    <2>1. ASSUME NEW d \in Dirs, InZone(d), disk[d], kernelWd'[d] = 0, kernelWd'[Parent[d]] # 0
          PROVE  \/ \E f \in Calls' : WillWatch(f, d)
                 \/ \E i \in DOMAIN queue' : Matched(i, d)' /\ queue'[i].act = "create"
      <3>1. d \in Nodes /\ d \in AllDirs
        BY DEF Nodes, AllDirs
      <3>2. /\ wd'[Parent[d]] = wd[Parent[d]] /\ kernelWd[Parent[d]] # 0
        BY <1>7, <2>1, <3>1
      <3>3. kernelWd[d] = 0 /\ wd'[d] = wd[d]
        BY <1>6, <2>1, <3>1
      <3>4. PICK i \in DOMAIN queue : Matched(i, d) /\ queue[i].act = "create"
        BY <1>4, <2>1, <3>2, <3>3 DEF Existences, ComingInv
      <3>5. CASE i # 1
        <4>1. i - 1 \in DOMAIN queue' /\ queue'[i - 1] = queue[i] /\ Matched(i - 1, d)'
          BY <1>8, <3>1, <3>2, <3>4, <3>5
        <4>2. QED
          BY <3>4, <4>1
      <3>6. CASE i = 1
        <4>1. d = n /\ event = "create" /\ Matched(1, n)
          BY <1>1, <3>4, <3>6 DEF Matched
        <4>2. Parent[n] \notin Leaves
          BY <2>1, <4>1, KindsAssumption DEF InZone, Nodes
        <4>3. g \in Calls'
          BY <1>6, <4>1, <4>2
        <4>4. wd[d] = 0
          BY <2>1, <3>1, <3>3, WatchIsCurrent DEF Present
        <4>5. WillWatch(g, d)
          BY <1>3, <3>3, <4>1, <4>4 DEF WillWatch
        <4>6. QED
          BY <4>3, <4>5
      <3>7. QED
        BY <3>5, <3>6
    <2>2. QED
      BY <1>1, <2>1 DEF ComingInv, InZone
  <1>13. QED
    BY <1>9, <1>10, <1>11, <1>12 DEF Existences

LEMMA ExistenceStep == ASSUME ExistenceInv, [Next]_vars PROVE ExistenceInv'
  <1>1. CalmInv /\ CalmInv' /\ WatchInv'
    BY CalmStep DEF ExistenceInv, CalmInv
  <1>2. SUFFICES ASSUME Calm' PROVE Existences'
    BY <1>1 DEF ExistenceInv, Existences
  <1>3. Calm /\ Existences
    BY <1>1, <1>2, CalmBefore DEF ExistenceInv, Existences
  <1>4. CASE Environment
    BY <1>1, <1>2, <1>3, <1>4, EnvironmentExistences
  <1>5. CASE AddWatch
    BY <1>1, <1>3, <1>5, AddWatchExistences
  <1>6. CASE OpenDirectory
    BY <1>1, <1>3, <1>6, OpenDirectoryExistences
  <1>7. CASE EndNames
    BY <1>1, <1>3, <1>7, EndNamesExistences
  <1>8. ASSUME NEW n \in Nodes, Remember(n) \/ SetUp(n) \/ Discover(n) PROVE Existences'
    <2>1. CASE Remember(n)
      BY <1>1, <1>3, <2>1, RememberExistences
    <2>2. CASE SetUp(n)
      BY <1>1, <1>3, <2>2, SetUpExistences
    <2>3. CASE Discover(n)
      BY <1>1, <1>2, <1>3, <2>3, DiscoverExistences
    <2>4. QED
      BY <1>8, <2>1, <2>2, <2>3
  <1>9. CASE EndSetup
    BY <1>3, <1>9, EndSetupExistences
  <1>10. CASE Dispatch
    BY <1>1, <1>2, <1>3, <1>10, DispatchExistences
  <1>11. CASE UNCHANGED vars
    <2>1. UNCHANGED <<disk, kernelWd, queue, wd, phase, existing, results>> /\ Calls' = Calls
      BY <1>11 DEF vars, Calls
    <2>2. \A f \in Calls : \A n \in Nodes : WillFind(f, n) => WillFind(f, n)'
      BY <2>1 DEF WillFind
    <2>3. QED
      BY <1>3, <2>1, <2>2, SameExistences
  <1>12. QED
    BY <1>4, <1>5, <1>6, <1>7, <1>8, <1>9, <1>10, <1>11 DEF Next, Listing

LEMMA InitExistence == ASSUME Init PROVE ExistenceInv
  <1>1. CalmInv
    BY InitCalm
  <1>2. /\ queue = <<>> /\ DOMAIN queue = {} /\ existing = {} /\ phase = "setup"
        /\ Calls = {Call(Base, "list")}
    BY DEF Init, Calls
  <1>3. \A n \in Nodes : ~Known(n)
    BY <1>2, KeyOfKey DEF Init, Known
  <1>4. \A n \in Nodes : kernelWd[Parent[n]] # 0 => Parent[n] = Base
    BY ParentDir DEF Init
  <1>5. LastInv
    BY <1>2 DEF LastInv
  <1>6. KnownInv
    <2>1. \A n \in Nodes : Parent[n] = Base => WillFind(Call(Base, "list"), n)
      BY DEF WillFind, Call
    <2>2. QED
      BY <1>2, <1>3, <1>4, <2>1 DEF KnownInv
  <1>7. WalkInv
    BY <1>2 DEF WalkInv
  <1>8. ComingInv
    <2>1. \A d \in Dirs : Parent[d] = Base => WillWatch(Call(Base, "list"), d)
      BY DEF WillWatch, Call
    <2>2. QED
      BY <1>2, <1>4, <2>1 DEF ComingInv, Nodes
  <1>9. QED
    BY <1>1, <1>5, <1>6, <1>7, <1>8 DEF ExistenceInv

THEOREM ExistenceInvariance == Spec => []ExistenceInv
  BY InitExistence, ExistenceStep, PTL DEF Spec

(* When all is handled, every existing directory of the zone is watched: of    *)
(* those that are not, one would have a watched parent.                       *)
LEMMA AllWatched ==
    ASSUME CalmInv, ComingInv, Settled, NEW p \in AllDirs, InZone(p), Present(p)
    PROVE  kernelWd[p] # 0
  <1>1. Calls = {} /\ DOMAIN queue = {}
    BY DEF Settled, Calls
  <1>2. ASSUME NEW d \in Dirs, InZone(d), disk[d], kernelWd[Parent[d]] # 0 PROVE kernelWd[d] # 0
    BY <1>1, <1>2 DEF ComingInv
  <1>3. kernelWd[Base] # 0
    BY <1>1 DEF CalmInv, DiskInv
  <1> DEFINE S == {d \in Dirs : InZone(d) /\ disk[d] /\ kernelWd[d] = 0}
  <1>4. S = {}
    <2>1. SUFFICES ASSUME S # {} PROVE FALSE
      OBVIOUS
    <2>2. PICK d \in S : Parent[d] \notin S
      <3>1. S \in SUBSET Dirs
        OBVIOUS
      <3> HIDE DEF S
      <3>2. QED
        BY <2>1, <3>1, TreeAssumption
    <2>3. d \in Dirs /\ InZone(d) /\ disk[d] /\ kernelWd[d] = 0 /\ kernelWd[Parent[d]] = 0
      BY <1>2, <2>2
    <2>4. d \in Nodes /\ Parent[d] \notin Leaves /\ Parent[d] \in Dirs
      BY <1>3, <2>3, ParentDir, KindsAssumption DEF InZone, Nodes, AllDirs
    <2>5. disk[Parent[d]]
      BY <1>1, <2>3, <2>4 DEF CalmInv, DiskInv, Present
    <2>6. InZone(Parent[d])
      BY <2>4, DepthAssumption DEF InZone
    <2>7. QED
      BY <2>2, <2>3, <2>4, <2>5, <2>6
  <1>5. QED
    BY <1>3, <1>4 DEF AllDirs, Present

(* In any tree of directories and files, however deep, with any number of      *)
(* other processes' steps between two steps of a listing: once all events are  *)
(* handled, FofiModel knows exactly what exists below every directory of the  *)
(* zone, provided nothing was lost or flagged and no directory was made again  *)
(* before its removal was read.                                             *)
THEOREM ExistenceCorrect == Spec => []ExistenceIsRight
  <1>1. ExistenceInv => ExistenceIsRight
    <2>1. SUFFICES ASSUME ExistenceInv, Settled, ~hasInconsistencies, ~hasty,
                          NEW n \in Nodes, InZone(Parent[n])
                   PROVE  Known(n) = disk[n]
      BY DEF ExistenceIsRight
    <2>2. CalmInv /\ ComingInv /\ KnownInv /\ Calls = {} /\ Quiet(n)
      BY <2>1 DEF ExistenceInv, Settled, Calm, Calls, Quiet
    <2>3. Known(n) => disk[n]
      BY <2>2 DEF KnownInv
    <2>4. disk[n] => Known(n)
      <3>1. disk[n] => Present(Parent[n])
        BY <2>2 DEF CalmInv, DiskInv
      <3>2. disk[n] => kernelWd[Parent[n]] # 0
        BY <2>1, <2>2, <3>1, ParentDir, AllWatched
      <3>3. QED
        BY <2>2, <3>2 DEF KnownInv
    <2>5. disk[n] \in BOOLEAN
      BY <2>2 DEF CalmInv, WatchInv, TypeOK
    <2>6. Known(n) \in BOOLEAN
      <3>1. CASE results[KeyOf(n)] = NoResult
        <4>1. Known(n) = (n \in existing)
          BY <3>1 DEF Known
        <4>2. QED
          BY <4>1
      <3>2. CASE results[KeyOf(n)] # NoResult
        <4>1. Known(n) = Exists(results[KeyOf(n)])
          BY <3>2 DEF Known
        <4>2. QED
          BY <4>1 DEF Exists
      <3>3. QED
        BY <3>1, <3>2
    <2>7. QED
      BY <2>3, <2>4, <2>5, <2>6
  <1>2. QED
    BY <1>1, ExistenceInvariance, PTL

(* Under the same conditions nothing can happen in the zone unnoticed: every   *)
(* existing directory of it has its ToWatchDir, which holds the kernel's watch *)
(* on it.                                                                   *)
THEOREM WatchedWhenCalm ==
    Spec => [](Settled /\ ~hasInconsistencies /\ ~hasty =>
                  \A d \in Dirs : InZone(d) /\ disk[d] =>
                      toWatch[d] = "exists" /\ wd[d] # 0 /\ wd[d] = kernelWd[d])
  <1>1. ExistenceInv =>
           (Settled /\ ~hasInconsistencies /\ ~hasty =>
               \A d \in Dirs : InZone(d) /\ disk[d] =>
                   toWatch[d] = "exists" /\ wd[d] # 0 /\ wd[d] = kernelWd[d])
    <2>1. SUFFICES ASSUME ExistenceInv, Settled, ~hasInconsistencies, ~hasty,
                          NEW d \in Dirs, InZone(d), disk[d]
                   PROVE  toWatch[d] = "exists" /\ wd[d] # 0 /\ wd[d] = kernelWd[d]
      OBVIOUS
    <2>2. d \in AllDirs /\ Present(d)
      BY <2>1 DEF AllDirs, Present
    <2>3. CalmInv /\ ComingInv
      BY <2>1 DEF ExistenceInv, Calm, Settled
    <2>4. kernelWd[d] # 0
      BY <2>1, <2>2, <2>3, AllWatched
    <2>5. QED
      BY <2>2, <2>3, <2>4 DEF CalmInv, WatchInv, AssertionsHold
  <1>2. QED
    BY <1>1, ExistenceInvariance, PTL

=============================================================================
