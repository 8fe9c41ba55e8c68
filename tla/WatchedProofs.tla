------------------------------ MODULE WatchedProofs ------------------------------
(***************************************************************************)
(* EveryDirectoryWatched, for any tree of directories and files: SteadyInv is  *)
(* inductive.  Results may be flagged, and watches given up, on the way: what  *)
(* is shown is that a directory that is there is then found again.            *)
(***************************************************************************)
EXTENDS DirTreeProofs

-----------------------------------------------------------------------------
(* The tree.                                                                *)

(* What is below h: its children, what is below them, and nothing else.       *)
LEMMA BelowLeast ==
    ASSUME NEW h, NEW S \in SUBSET Nodes,
           \A n \in Nodes : Parent[n] = h \/ Parent[n] \in S => n \in S
    PROVE  Below(h) \subseteq S
  BY DEF Below

LEMMA BelowClosed ==
    ASSUME NEW h, NEW n \in Nodes, Parent[n] = h \/ Parent[n] \in Below(h)
    PROVE  n \in Below(h)
  <1>1. SUFFICES ASSUME NEW S \in SUBSET Nodes,
                        \A m \in Nodes : Parent[m] = h \/ Parent[m] \in S => m \in S
                 PROVE  n \in S
    BY DEF Below
  <1>2. Below(h) \subseteq S
    BY <1>1, BelowLeast
  <1>3. QED
    BY <1>1, <1>2

LEMMA BelowParent ==
    ASSUME NEW h, NEW n \in Below(h)
    PROVE  n \in Nodes /\ (Parent[n] = h \/ Parent[n] \in Below(h))
  <1> DEFINE S == {m \in Nodes : Parent[m] = h \/ Parent[m] \in Below(h)}
  <1>1. \A m \in Nodes : Parent[m] = h \/ Parent[m] \in S => m \in S
    <2>1. S \subseteq Below(h)
      BY BelowClosed
    <2>2. QED
      BY <2>1
  <1>2. S \in SUBSET Nodes
    OBVIOUS
  <1> HIDE DEF S
  <1>3. n \in S
    BY <1>1, <1>2, BelowLeast
  <1>4. QED
    BY <1>3 DEF S

LEMMA BelowBelow ==
    ASSUME NEW h, NEW n \in Below(h)
    PROVE  Below(n) \subseteq Below(h)
  <1>1. Below(h) \in SUBSET Nodes
    BY DEF Below
  <1>2. \A m \in Nodes : Parent[m] = n \/ Parent[m] \in Below(h) => m \in Below(h)
    BY BelowClosed
  <1>3. QED
    BY <1>1, <1>2, BelowLeast

(* No directory is below itself.                                            *)
LEMMA NotBelowItself ==
    ASSUME NEW h \in Dirs
    PROVE  h \notin Below(h) /\ Parent[h] # h
  <1> DEFINE X == {p \in Dirs : p \in Below(h) /\ h \in Below(p)}
  <1>1. X = {}
    <2>1. SUFFICES ASSUME X # {} PROVE FALSE
      OBVIOUS
    <2>2. PICK d \in X : Parent[d] \notin X
      <3>1. X \in SUBSET Dirs
        OBVIOUS
      <3> HIDE DEF X
      <3>2. QED
        BY <2>1, <3>1, TreeAssumption
    <2>3. d \in Dirs /\ d \in Nodes /\ d \in Below(h) /\ h \in Below(d)
      BY <2>2 DEF Nodes
    <2>4. h \in Below(h)
      BY <2>3, BelowBelow
    <2>5. Parent[d] # h
      BY <2>2, <2>4
    <2>6. Parent[d] \in Below(h) /\ Parent[d] \in Nodes
      BY <2>3, <2>5, BelowParent
    <2>7. Parent[d] \in Dirs
      BY <2>3, <2>6, ParentAssumption, KindsAssumption
    <2>8. d \in Below(Parent[d])
      BY <2>3, BelowClosed
    <2>9. h \in Below(Parent[d])
      BY <2>3, <2>8, BelowBelow
    <2>10. QED
      BY <2>2, <2>6, <2>7, <2>9
  <1>2. h \notin Below(h)
    BY <1>1
  <1>3. QED
    BY <1>2, BelowClosed DEF Nodes

(* Calls list directories one in the other: none lists a child of the         *)
(* innermost one's directory, nor a child of such a child.                    *)
LEMMA NotAbove ==
    ASSUME TypeOK, Chained(stack), stack # <<>>, \A f \in Calls : f.dir \in Dirs,
           NEW n \in Dirs, Parent[n] = Top.dir, NEW f \in Calls
    PROVE  f.dir # n /\ Parent[f.dir] # n
  <1>1. PICK j \in DOMAIN stack : f = stack[j]
    BY DEF Calls
  <1>2. PICK l \in Nat : DOMAIN stack = 1..l
    BY DEF TypeOK
  <1>3. Top = stack[1] /\ 1 \in DOMAIN stack
    BY Frames
  <1>4. SUFFICES ASSUME f.dir = n \/ Parent[f.dir] = n PROVE FALSE
    OBVIOUS
  <1> DEFINE S == {stack[i].dir : i \in 1..j} \cup {n}
  <1>5. j \in Nat /\ 1 <= j /\ \A i \in 1..j : i \in DOMAIN stack
    BY <1>1, <1>2
  <1>6. S \in SUBSET Dirs /\ S # {}
    BY <1>5 DEF Calls
  <1>7. PICK d \in S : Parent[d] \notin S
    <2> HIDE DEF S
    <2>1. QED
      BY <1>6, TreeAssumption
  <1>8. d # n
    BY <1>3, <1>5, <1>7
  <1>9. PICK i \in 1..j : d = stack[i].dir
    BY <1>7, <1>8
  <1>10. i # j
    BY <1>1, <1>4, <1>7, <1>8, <1>9
  <1>11. i + 1 \in 1..j /\ i + 1 > 1 /\ (i + 1) - 1 = i
    BY <1>5, <1>9, <1>10
  <1>12. Parent[d] = stack[i + 1].dir
    BY <1>5, <1>9, <1>11 DEF Chained
  <1>13. QED
    BY <1>7, <1>11, <1>12

-----------------------------------------------------------------------------
(* The calls under way list directories one in the other.                     *)

LEMMA ChainedRest ==
    ASSUME TypeOK, Chained(stack), stack # <<>>
    PROVE  Chained(Rest)
  <1>1. SUFFICES ASSUME NEW i \in DOMAIN Rest, i > 1
                 PROVE  Rest[i-1].dir \in Dirs /\ Parent[Rest[i-1].dir] = Rest[i].dir
    BY DEF Chained
  <1>2. /\ \A j \in DOMAIN Rest : j + 1 \in DOMAIN stack /\ Rest[j] = stack[j + 1]
        /\ DOMAIN Rest \subseteq Nat \ {0}
    BY Frames
  <1>3. PICK l \in Nat : DOMAIN Rest = 1..l
    <2>1. Rest \in Seq(Frame)
      BY Frames
    <2>2. QED
      BY <2>1
  <1>4. i - 1 \in DOMAIN Rest /\ (i - 1) + 1 = i /\ (i + 1) - 1 = i /\ i + 1 > 1
    BY <1>1, <1>3
  <1>5. Rest[i - 1] = stack[i] /\ Rest[i] = stack[i + 1] /\ i + 1 \in DOMAIN stack
    BY <1>1, <1>2, <1>4
  <1>6. QED
    BY <1>4, <1>5 DEF Chained

LEMMA ChainedTop ==
    ASSUME TypeOK, Chained(stack), stack # <<>>, NEW f \in Frame, f.dir = Top.dir
    PROVE  Chained(<<f>> \o Rest)
  <1>1. SUFFICES ASSUME NEW i \in DOMAIN stack, i > 1, NEW s, s = <<f>> \o Rest
                 PROVE  s[i-1].dir \in Dirs /\ Parent[s[i-1].dir] = s[i].dir
    BY Replaced DEF Chained
  <1>2. /\ s[1] = f /\ Top = stack[1]
        /\ \A j \in DOMAIN stack : j # 1 => s[j] = stack[j]
    BY <1>1, Replaced, Frames
  <1>3. PICK l \in Nat : DOMAIN stack = 1..l
    BY DEF TypeOK
  <1>4. i - 1 \in DOMAIN stack /\ i # 1
    BY <1>1, <1>3
  <1>5. s[i] = stack[i] /\ s[i - 1].dir = stack[i - 1].dir
    BY <1>2, <1>4
  <1>6. QED
    BY <1>1, <1>5 DEF Chained

LEMMA ChainedCall ==
    ASSUME NEW s \in Seq(Frame), Chained(s), s # <<>>,
           NEW g \in Frame, g.dir \in Dirs, Parent[g.dir] = s[1].dir
    PROVE  Chained(<<g>> \o s)
  <1>1. /\ DOMAIN (<<g>> \o s) = 1..(Len(s) + 1) /\ (<<g>> \o s)[1] = g
        /\ \A i \in 1..Len(s) : (<<g>> \o s)[i + 1] = s[i]
        /\ DOMAIN s = 1..Len(s) /\ Len(s) \in Nat
    BY PushSeq
  <1>2. SUFFICES ASSUME NEW i \in 1..(Len(s) + 1), i > 1, NEW t, t = <<g>> \o s
                 PROVE  t[i-1].dir \in Dirs /\ Parent[t[i-1].dir] = t[i].dir
    BY <1>1 DEF Chained
  <1>3. i - 1 \in 1..Len(s) /\ (i - 1) + 1 = i
    BY <1>1, <1>2
  <1>4. t[i] = s[i - 1]
    BY <1>1, <1>2, <1>3
  <1>5. CASE i = 2
    <2>1. t[i - 1] = g /\ t[i] = s[1]
      BY <1>1, <1>2, <1>4, <1>5
    <2>2. QED
      BY <2>1
  <1>6. CASE i # 2
    <2>1. (i - 1) - 1 \in 1..Len(s) /\ ((i - 1) - 1) + 1 = i - 1 /\ i - 1 > 1 /\ i - 1 \in DOMAIN s
      BY <1>1, <1>2, <1>6
    <2>2. t[i - 1] = s[(i - 1) - 1]
      BY <1>1, <1>2, <2>1
    <2>3. QED
      BY <1>4, <2>1, <2>2 DEF Chained
  <1>7. QED
    BY <1>5, <1>6

LEMMA ChainedFew ==
    ASSUME NEW f \in Frame
    PROVE  Chained(<<>>) /\ Chained(<<f>> \o <<>>)
  BY DEF Chained

(* A call goes on, or returns, or calls another for a name it has read.       *)
LEMMA ChainedNames ==
    ASSUME CalmInv, Chained(stack), stack # <<>>, NEW n \in Top.names, NEW g \in Frame,
           \/ stack' = AfterName(n)
           \/ stack' = <<g>> \o AfterName(n) /\ g.dir = n /\ n \in Dirs
    PROVE  Chained(stack')
  <1>1. TypeOK
    BY DEF CalmInv, WatchInv
  <1>2. /\ Done(n) \in Frame /\ Done(n).dir = Top.dir
        /\ Rest \in Seq(Frame) /\ AfterName(n) = <<Done(n)>> \o Rest
    BY <1>1, Frames, WalkCalls DEF AfterName, Done
  <1>3. Chained(AfterName(n))
    BY <1>1, <1>2, ChainedTop
  <1>4. /\ AfterName(n) \in Seq(Frame) /\ AfterName(n) # <<>>
        /\ AfterName(n)[1].dir = Top.dir
    <2>1. AfterName(n) \in Seq(Frame) /\ AfterName(n)[1] = Done(n) /\ 1 \in DOMAIN AfterName(n)
      <3>1. DOMAIN (<<Done(n)>> \o Rest) = 1..(Len(Rest) + 1) /\ Len(Rest) \in Nat
        BY <1>2, PushSeq
      <3>2. QED
        BY <1>2, <3>1, PushSeq
    <2>2. QED
      BY <1>2, <2>1
  <1>5. Parent[n] = Top.dir
    BY CallInNames
  <1>6. QED
    BY <1>3, <1>4, <1>5, ChainedCall

LEMMA ChainedStep ==
    ASSUME CalmInv, Chained(stack), [Next]_vars PROVE Chained(stack')
  <1>1. TypeOK
    BY DEF CalmInv, WatchInv
  <1>2. CASE UNCHANGED stack
    BY <1>2
  <1>3. ASSUME stack # <<>>, NEW f \in Frame, f.dir = Top.dir, stack' = Rest \/ stack' = <<f>> \o Rest
        PROVE  Chained(stack')
    BY <1>1, <1>3, ChainedRest, ChainedTop
  <1>4. stack # <<>> => Top \in Frame /\ Top.dir \in AllDirs
    BY <1>1, Frames DEF Frame
  <1>5. \A d \in AllDirs : \A st \in {"watch", "list", "remember", "open", "walk"} :
           Call(d, st) \in Frame /\ Call(d, st).dir = d
    BY DEF Call, Frame
  <1>6. stack # <<>> => AfterListing(Top.dir) = Rest \/ AfterListing(Top.dir) = <<Call(Top.dir, "open")>> \o Rest
    BY DEF AfterListing
  <1>7. CASE AddWatch
    <2>1. /\ stack # <<>>
          /\ \/ stack' = Rest
             \/ stack' = <<Call(Top.dir, IF phase = "setup" THEN "list" ELSE "open")>> \o Rest
      BY <1>7 DEF AddWatch
    <2>2. (IF phase = "setup" THEN "list" ELSE "open") \in {"list", "open"}
      OBVIOUS
    <2>3. QED
      BY <1>3, <1>4, <1>5, <2>1, <2>2
  <1>8. CASE OpenDirectory
    <2>1. PICK h : h = [dir |-> Top.dir, stage |-> IF Top.stage = "list" THEN "remember" ELSE "walk",
                        names |-> {n \in Children(Top.dir) : disk[n]}]
      OBVIOUS
    <2>2. stack # <<>> /\ (stack' = <<h>> \o Rest \/ stack' = Rest \/ stack' = AfterListing(Top.dir))
      BY <1>8, <2>1 DEF OpenDirectory
    <2>3. h \in Frame /\ h.dir = Top.dir
      BY <1>4, <2>1, <2>2 DEF Frame, Children
    <2>4. QED
      BY <1>3, <1>4, <1>5, <1>6, <2>2, <2>3
  <1>9. ASSUME NEW n \in Nodes, Remember(n) \/ SetUp(n) \/ Discover(n) PROVE Chained(stack')
    <2>1. stack # <<>> /\ n \in Top.names
      BY <1>9 DEF Remember, SetUp, Discover
    <2>2. \/ stack' = AfterName(n)
          \/ n \in Dirs /\ \E st \in {"watch", "open"} : stack' = <<Call(n, st)>> \o AfterName(n)
      BY <1>9 DEF Remember, SetUp, Discover, Enter, AfterName
    <2>3. CASE stack' = AfterName(n)
      BY <1>4, <2>1, <2>3, ChainedNames
    <2>4. CASE stack' # AfterName(n)
      <3>1. n \in Dirs /\ n \in AllDirs
        BY <2>2, <2>4 DEF AllDirs
      <3>2. QED
        BY <1>5, <2>1, <2>2, <2>4, <3>1, ChainedNames
    <2>5. QED
      BY <2>3, <2>4
  <1>10. CASE EndNames
    BY <1>3, <1>4, <1>5, <1>6, <1>10 DEF EndNames
  <1>11. CASE Dispatch
    <2>1. PICK n \in Nodes : stack = <<>> /\ (UNCHANGED stack \/ \E event \in Action : OnFileModified(n, event))
      <3>1. stack = <<>> /\ queue # <<>> /\
            \/ UNCHANGED stack
            \/ OnFileModified(Head(queue).name, Head(queue).act)
        BY <1>11 DEF Dispatch
      <3>2. Head(queue) \in Event
        BY <1>1, <3>1, RestSeq DEF TypeOK
      <3>3. Head(queue).name \in Nodes /\ Head(queue).act \in Action
        BY <3>2 DEF Event
      <3>4. QED
        BY <3>1, <3>3
    <2>2. \/ UNCHANGED stack
          \/ n \in Dirs /\ (stack' = <<>> \/ \E st \in {"watch", "open"} : stack' = <<Call(n, st)>> \o <<>>)
      BY <2>1 DEF OnFileModified, OnFile, OnDirCreated, OnDirDeleted, OnDirAttrib, Enter
    <2>3. n \in Dirs => n \in AllDirs
      BY DEF AllDirs
    <2>4. QED
      BY <1>2, <1>4, <1>5, <2>2, <2>3, ChainedFew
  <1>12. CASE EndSetup
    BY <1>2, <1>12 DEF EndSetup
  <1>13. CASE Environment
    BY <1>1, <1>2, <1>13, EnvironmentShape
  <1>14. QED
    BY <1>2, <1>7, <1>8, <1>9, <1>10, <1>11, <1>12, <1>13 DEF Next, Listing, vars

-----------------------------------------------------------------------------
(* What the queue tells of the directories.                                   *)

(* A new result is not a confirmed one, nor one of a scan.                    *)
LEMMA NoNews ==
    ASSUME NEW d, results[KeyOf(d)] = NoResult
    PROVE  ~Confirmed(d) /\ ~Scanned(d)
  BY DEF Confirmed, Scanned, Exists, NoResult

(* A step that leaves the disk and the queue alone may confirm nothing, and    *)
(* give up a watch only where nothing below is confirmed.                     *)
LEMMA QueueKept ==
    ASSUME CalmInv, QueueInv, TypeOK', UNCHANGED <<queue, disk>>,
           \A m \in Dirs : Confirmed(m)' => Confirmed(m),
           \A m \in Nodes : \A i \in DOMAIN queue : Matched(i, m)' => Matched(i, m),
           \A m \in Dirs : \/ \A i \in DOMAIN queue : Matched(i, m) => Matched(i, m)'
                           \/ Quiet(m)' /\ ~Confirmed(m)',
           \A m \in Dirs : disk[m] /\ kernelWd'[Parent[m]] = 0 =>
                              \/ kernelWd[Parent[m]] = 0
                              \/ Quiet(m)' /\ ~Confirmed(m)'
    PROVE  QueueInv'
  <1>1. /\ RemovalInv /\ OrderInv /\ CreateInv /\ GoneInv /\ SeveredInv /\ ConfirmedInv /\ AnewInv
        /\ Dirs \subseteq Nodes
    BY DEF QueueInv, Nodes
  <1>2. RemovalInv' /\ CreateInv'
    BY <1>1 DEF RemovalInv, CreateInv
  <1>3. OrderInv'
    <2>1. SUFFICES ASSUME NEW i \in DOMAIN queue, NEW j \in DOMAIN queue, NEW d \in Dirs,
                          d = queue[i].name, queue[i].act = "delete",
                          Parent[queue[j].name] = d, queue[j].wd = wd'[d]
                   PROVE  j < i
      BY DEF OrderInv
    <2>2. queue[j].name \in Nodes
      <3>1. queue[j] \in Event
        BY DEF TypeOK
      <3>2. QED
        BY <3>1 DEF Event
    <2>3. Matched(j, queue[j].name)'
      BY <2>1 DEF Matched
    <2>4. Matched(j, queue[j].name)
      BY <2>2, <2>3
    <2>5. queue[j].wd = wd[d]
      BY <2>1, <2>4 DEF Matched
    <2>6. QED
      BY <1>1, <2>1, <2>5 DEF OrderInv
  <1>4. \A m \in Dirs : Quiet(m)' => \A i \in DOMAIN queue : ~Matched(i, m)'
    BY DEF Quiet
  <1>5. GoneInv'
    <2>1. SUFFICES ASSUME NEW d \in Dirs, ~disk[d], NEW j \in DOMAIN queue, Matched(j, d)'
                   PROVE  \E k \in DOMAIN queue : j <= k /\ Matched(k, d)' /\ queue[k].act = "delete"
      BY DEF GoneInv
    <2>2. PICK k \in DOMAIN queue : j <= k /\ Matched(k, d) /\ queue[k].act = "delete"
      BY <1>1, <2>1 DEF GoneInv
    <2>3. Matched(k, d)'
      BY <1>4, <2>1, <2>2
    <2>4. QED
      BY <2>2, <2>3
  <1>6. SeveredInv'
    <2>1. SUFFICES ASSUME NEW d \in Dirs, disk[d], kernelWd'[Parent[d]] = 0
                   PROVE  Quiet(d)' /\ ~Confirmed(d)'
      BY DEF SeveredInv
    <2>2. SUFFICES ASSUME kernelWd[Parent[d]] = 0 PROVE Quiet(d)' /\ ~Confirmed(d)'
      BY <2>1
    <2>3. Quiet(d) /\ ~Confirmed(d)
      BY <1>1, <2>1, <2>2 DEF SeveredInv
    <2>4. QED
      BY <1>1, <2>3 DEF Quiet
  <1>7. ASSUME NEW d \in Dirs, Confirmed(d)'
        PROVE  Confirmed(d) /\ \A i \in DOMAIN queue : Matched(i, d)' <=> Matched(i, d)
    BY <1>1, <1>7
  <1>8. ConfirmedInv'
    <2>1. SUFFICES ASSUME NEW d \in Dirs, Confirmed(d)'
                   PROVE  /\ ~disk[d] => \E i \in DOMAIN queue : Matched(i, d)' /\ queue[i].act = "delete"
                          /\ \A i \in DOMAIN queue : Matched(i, d)' => queue[i].act # "create"
      BY DEF ConfirmedInv, Going
    <2>2. /\ ~disk[d] => \E i \in DOMAIN queue : Matched(i, d) /\ queue[i].act = "delete"
          /\ \A i \in DOMAIN queue : Matched(i, d) => queue[i].act # "create"
      BY <1>1, <1>7, <2>1 DEF ConfirmedInv, Going
    <2>3. QED
      BY <1>7, <2>1, <2>2
  <1>9. AnewInv'
    <2>1. SUFFICES ASSUME NEW i \in DOMAIN queue, queue[i].name \in Dirs, queue[i].act = "create",
                          NEW p \in Below(queue[i].name) \cap Dirs
                   PROVE  /\ \A j \in DOMAIN queue : j < i /\ Matched(j, p)' =>
                                \E k \in DOMAIN queue : j <= k /\ k < i /\ Matched(k, p)' /\ queue[k].act = "delete"
                          /\ Confirmed(p)' => \E k \in DOMAIN queue : k < i /\ Matched(k, p)' /\ queue[k].act = "delete"
      BY DEF AnewInv
    <2>2. /\ \A j \in DOMAIN queue : j < i /\ Matched(j, p) =>
                \E k \in DOMAIN queue : j <= k /\ k < i /\ Matched(k, p) /\ queue[k].act = "delete"
          /\ Confirmed(p) => \E k \in DOMAIN queue : k < i /\ Matched(k, p) /\ queue[k].act = "delete"
      BY <1>1, <2>1 DEF AnewInv
    <2>3. ASSUME NEW j \in DOMAIN queue, j < i, Matched(j, p)'
          PROVE  \E k \in DOMAIN queue : j <= k /\ k < i /\ Matched(k, p)' /\ queue[k].act = "delete"
      <3>1. PICK k \in DOMAIN queue : j <= k /\ k < i /\ Matched(k, p) /\ queue[k].act = "delete"
        BY <1>1, <2>2, <2>3
      <3>2. Matched(k, p)'
        BY <1>4, <2>3, <3>1
      <3>3. QED
        BY <3>1, <3>2
    <2>4. Confirmed(p)' => \E k \in DOMAIN queue : k < i /\ Matched(k, p)' /\ queue[k].act = "delete"
      BY <1>7, <2>2
    <2>5. QED
      BY <2>3, <2>4
  <1>10. QED
    BY <1>2, <1>3, <1>5, <1>6, <1>8, <1>9 DEF QueueInv

(* What another process does to n is told of at the end of the queue, if n's   *)
(* parent is watched.                                                       *)
LEMMA EnvironmentPosts ==
    ASSUME CalmInv, Steady', NEW n \in Nodes, NEW act \in Action, Alters(n, act),
           UNCHANGED <<wd, results>>, NEW p, p = Parent[n]
    PROVE  /\ \A i \in DOMAIN queue : i \in DOMAIN queue' /\ queue'[i] = queue[i]
           /\ \A m \in Nodes : \A i \in DOMAIN queue : Matched(i, m)' <=> Matched(i, m)
           /\ \A i \in DOMAIN queue' :
                 \/ i \in DOMAIN queue /\ queue'[i] = queue[i]
                 \/ /\ queue'[i].name = n /\ queue'[i].act = act /\ queue'[i].wd = wd[p]
                    /\ kernelWd[p] # 0 /\ wd[p] = kernelWd[p]
                    /\ \A j \in DOMAIN queue' : j <= i
           /\ kernelWd[p] = 0 => queue' = queue
           /\ kernelWd[p] # 0 => \E k \in DOMAIN queue' :
                 /\ Matched(k, n)' /\ queue'[k].name = n /\ queue'[k].act = act
                 /\ \A j \in DOMAIN queue' : j <= k
           /\ disk'[n] = (act # "delete") /\ \A m \in Nodes : m # n => disk'[m] = disk[m]
           /\ \A d \in AllDirs : \/ kernelWd'[d] = kernelWd[d]
                                 \/ /\ d = n /\ n \in Dirs /\ act = "delete" /\ kernelWd'[d] = 0
                                    /\ \A m \in Nodes : Parent[m] = n => ~disk[m]
           /\ act = "create" <=> ~disk[n]
           /\ act = "create" /\ n \in Dirs => ~Queued(n)
  <1>1. /\ TypeOK
        /\ \A d \in AllDirs : kernelWd[d] # 0 => kernelWd[d] = wd[d]
        /\ p \in AllDirs
    BY ParentDir DEF CalmInv, WatchInv, AssertionsHold
  <1>2. Notify(n, act) /\ ~lost' /\ ~hasty'
    BY DEF Alters, Steady
  <1>3. \/ queue' = queue /\ kernelWd[p] = 0
        \/ /\ kernelWd[p] # 0 /\ wd[p] = kernelWd[p]
           /\ \E k \in DOMAIN queue' :
                 /\ queue'[k] = [wd |-> wd[p], name |-> n, act |-> act]
                 /\ \A i \in DOMAIN queue' : i <= k /\ (i = k \/ i \in DOMAIN queue)
                 /\ \A i \in DOMAIN queue : i \in DOMAIN queue' /\ queue'[i] = queue[i]
    BY <1>1, <1>2, Posted
  <1>4. /\ \A i \in DOMAIN queue : i \in DOMAIN queue' /\ queue'[i] = queue[i]
        /\ kernelWd[p] = 0 => queue' = queue
    BY <1>3
  <1>5. kernelWd[p] # 0 => \E k \in DOMAIN queue' :
           /\ Matched(k, n)' /\ queue'[k].name = n /\ queue'[k].act = act
           /\ \A j \in DOMAIN queue' : j <= k
    BY <1>3 DEF Matched
  <1>6. \A i \in DOMAIN queue' :
           \/ i \in DOMAIN queue /\ queue'[i] = queue[i]
           \/ /\ queue'[i].name = n /\ queue'[i].act = act /\ queue'[i].wd = wd[p]
              /\ kernelWd[p] # 0 /\ wd[p] = kernelWd[p]
              /\ \A j \in DOMAIN queue' : j <= i
    BY <1>3
  <1>7. \A m \in Nodes : \A i \in DOMAIN queue : Matched(i, m)' <=> Matched(i, m)
    BY <1>4 DEF Matched
  <1>8. disk'[n] = (act # "delete") /\ \A m \in Nodes : m # n => disk'[m] = disk[m]
    BY <1>1 DEF Alters, TypeOK
  <1>9. \A d \in AllDirs : \/ kernelWd'[d] = kernelWd[d]
                           \/ /\ d = n /\ n \in Dirs /\ act = "delete" /\ kernelWd'[d] = 0
                              /\ \A m \in Nodes : Parent[m] = n => ~disk[m]
    BY <1>1 DEF Alters, TypeOK, Children
  <1>10. (act = "create" <=> ~disk[n]) /\ (act = "create" /\ n \in Dirs => ~Queued(n))
    BY <1>2 DEF Alters
  <1>11. QED
    BY <1>4, <1>5, <1>6, <1>7, <1>8, <1>9, <1>10

LEMMA EnvironmentQueue ==
    ASSUME CalmInv, TypeOK', QueueInv, Steady', Environment PROVE QueueInv'
  <1>1. PICK n \in Nodes, act \in Action : Alters(n, act)
    BY EnvironmentAlters DEF CalmInv, WatchInv
  <1>2. UNCHANGED <<wd, results>>
    BY EnvironmentAlters DEF CalmInv, WatchInv
  <1>3. PICK p : p = Parent[n]
    OBVIOUS
  <1>4. /\ \A i \in DOMAIN queue : i \in DOMAIN queue' /\ queue'[i] = queue[i]
        /\ \A m \in Nodes : \A i \in DOMAIN queue : Matched(i, m)' <=> Matched(i, m)
        /\ \A i \in DOMAIN queue' :
              \/ i \in DOMAIN queue /\ queue'[i] = queue[i]
              \/ /\ queue'[i].name = n /\ queue'[i].act = act /\ queue'[i].wd = wd[p]
                 /\ kernelWd[p] # 0 /\ wd[p] = kernelWd[p]
                 /\ \A j \in DOMAIN queue' : j <= i
        /\ kernelWd[p] = 0 => queue' = queue
        /\ kernelWd[p] # 0 => \E k \in DOMAIN queue' :
              /\ Matched(k, n)' /\ queue'[k].name = n /\ queue'[k].act = act
              /\ \A j \in DOMAIN queue' : j <= k
        /\ disk'[n] = (act # "delete") /\ \A m \in Nodes : m # n => disk'[m] = disk[m]
        /\ \A d \in AllDirs : \/ kernelWd'[d] = kernelWd[d]
                              \/ /\ d = n /\ n \in Dirs /\ act = "delete" /\ kernelWd'[d] = 0
                                 /\ \A m \in Nodes : Parent[m] = n => ~disk[m]
        /\ act = "create" <=> ~disk[n]
        /\ act = "create" /\ n \in Dirs => ~Queued(n)
    BY <1>1, <1>2, <1>3, EnvironmentPosts
  <1>5. /\ RemovalInv /\ OrderInv /\ CreateInv /\ GoneInv /\ SeveredInv /\ ConfirmedInv /\ AnewInv
        /\ Dirs \subseteq Nodes /\ Base \notin Nodes /\ \A m \in Nodes : Parent[m] \in AllDirs
    BY ParentDir, KindsAssumption DEF QueueInv, Nodes
  <1>6. DOMAIN queue \subseteq Nat /\ DOMAIN queue' \subseteq Nat
    BY DEF CalmInv, WatchInv, TypeOK
  <1>7. \A d : Confirmed(d)' <=> Confirmed(d)
    BY <1>2 DEF Confirmed
  <1>8. \A i \in DOMAIN queue' : \A m : Matched(i, m)' => queue'[i].name = m
    BY DEF Matched
  <1>9. \A i \in DOMAIN queue : \A m : Matched(i, m) => queue[i].name = m
    BY DEF Matched
  <1>10. \A m : Queued(m) <=> \E i \in DOMAIN queue : queue[i].name = m
    BY DEF Queued
  <1>11. n \in Dirs /\ act = "create" => ~Confirmed(n)
    <2>1. SUFFICES ASSUME n \in Dirs, ~disk[n], Confirmed(n), ~Queued(n) PROVE FALSE
      BY <1>4
    <2>2. QED
      BY <1>9, <1>10, <2>1, <1>5 DEF ConfirmedInv, Going
  <1>12. RemovalInv'
    <2>1. SUFFICES ASSUME NEW i \in DOMAIN queue', NEW d \in Dirs, d = queue'[i].name, queue'[i].act = "delete"
                   PROVE  ~disk'[d]
      BY DEF RemovalInv
    <2>2. CASE i \in DOMAIN queue /\ queue'[i] = queue[i]
      <3>1. ~disk[d] /\ Queued(d)
        BY <1>5, <1>10, <2>1, <2>2 DEF RemovalInv
      <3>2. d # n
        BY <1>4, <2>1, <3>1
      <3>3. QED
        BY <1>4, <1>5, <3>1, <3>2
    <2>3. CASE ~(i \in DOMAIN queue /\ queue'[i] = queue[i])
      BY <1>4, <2>1, <2>3
    <2>4. QED
      BY <2>2, <2>3
  <1>13. OrderInv'
    <2>1. SUFFICES ASSUME NEW i \in DOMAIN queue', NEW j \in DOMAIN queue', NEW d \in Dirs,
                          d = queue'[i].name, queue'[i].act = "delete",
                          Parent[queue'[j].name] = d, queue'[j].wd = wd[d]
                   PROVE  j < i
      BY <1>2 DEF OrderInv
    <2>2. CASE j \in DOMAIN queue /\ queue'[j] = queue[j]
      <3>1. CASE i \in DOMAIN queue /\ queue'[i] = queue[i]
        BY <1>5, <2>1, <2>2, <3>1 DEF OrderInv
      <3>2. CASE ~(i \in DOMAIN queue /\ queue'[i] = queue[i])
        <4>1. j <= i /\ i # j
          BY <1>4, <2>2, <3>2
        <4>2. QED
          BY <1>6, <4>1
      <3>3. QED
        BY <3>1, <3>2
    <2>3. CASE ~(j \in DOMAIN queue /\ queue'[j] = queue[j])
      <3>1. d = p /\ kernelWd[d] # 0 /\ queue'[j].name = n
        BY <1>3, <1>4, <2>1, <2>3
      <3>2. disk[d]
        BY <3>1 DEF CalmInv, DiskInv
      <3>3. CASE i \in DOMAIN queue /\ queue'[i] = queue[i]
        BY <1>5, <2>1, <3>2, <3>3 DEF RemovalInv
      <3>4. CASE ~(i \in DOMAIN queue /\ queue'[i] = queue[i])
        <4>1. d = n /\ act = "delete" /\ disk[n]
          BY <1>4, <2>1, <3>4
        <4>2. QED
          BY <1>3, <3>1, <4>1, NotBelowItself
      <3>5. QED
        BY <3>3, <3>4
    <2>4. QED
      BY <2>2, <2>3
  <1>14. CreateInv'
    <2>1. SUFFICES ASSUME NEW i \in DOMAIN queue', NEW j \in DOMAIN queue', NEW d \in Dirs,
                          d = queue'[i].name, queue'[i].act = "create", queue'[j].name = d
                   PROVE  i <= j
      BY DEF CreateInv
    <2>2. CASE ~(j \in DOMAIN queue /\ queue'[j] = queue[j])
      BY <1>4, <2>2
    <2>3. CASE j \in DOMAIN queue /\ queue'[j] = queue[j]
      <3>1. CASE i \in DOMAIN queue /\ queue'[i] = queue[i]
        BY <1>5, <2>1, <2>3, <3>1 DEF CreateInv
      <3>2. CASE ~(i \in DOMAIN queue /\ queue'[i] = queue[i])
        <4>1. d = n /\ act = "create"
          BY <1>4, <2>1, <3>2
        <4>2. QED
          BY <1>4, <1>10, <2>1, <2>3, <4>1
      <3>3. QED
        BY <3>1, <3>2
    <2>4. QED
      BY <2>2, <2>3
  <1>15. GoneInv'
    <2>1. SUFFICES ASSUME NEW d \in Dirs, ~disk'[d], NEW j \in DOMAIN queue', Matched(j, d)'
                   PROVE  \E k \in DOMAIN queue' : j <= k /\ Matched(k, d)' /\ queue'[k].act = "delete"
      BY DEF GoneInv
    <2>2. CASE d = n
      <3>1. act = "delete" /\ disk[n]
        BY <1>4, <1>5, <2>1, <2>2
      <3>2. CASE kernelWd[p] # 0
        BY <1>4, <2>2, <3>1, <3>2
      <3>3. CASE kernelWd[p] = 0
        <4>1. Quiet(n)
          BY <1>3, <1>5, <2>1, <2>2, <3>1, <3>3 DEF SeveredInv
        <4>2. j \in DOMAIN queue /\ Matched(j, n)
          BY <1>4, <1>5, <2>1, <2>2, <3>3
        <4>3. QED
          BY <4>1, <4>2 DEF Quiet
      <3>4. QED
        BY <3>2, <3>3
    <2>3. CASE d # n
      <3>1. j \in DOMAIN queue /\ ~disk[d]
        BY <1>4, <1>5, <1>8, <2>1, <2>3
      <3>2. Matched(j, d)
        BY <1>4, <1>5, <2>1, <3>1
      <3>3. PICK k \in DOMAIN queue : j <= k /\ Matched(k, d) /\ queue[k].act = "delete"
        BY <1>5, <3>1, <3>2 DEF GoneInv
      <3>4. k \in DOMAIN queue' /\ Matched(k, d)' /\ queue'[k].act = "delete"
        BY <1>4, <1>5, <3>3
      <3>5. QED
        BY <3>3, <3>4
    <2>4. QED
      BY <2>2, <2>3
  <1>16. SeveredInv'
    <2>1. SUFFICES ASSUME NEW d \in Dirs, disk'[d], kernelWd'[Parent[d]] = 0
                   PROVE  Quiet(d)' /\ ~Confirmed(d)
      BY <1>7 DEF SeveredInv
    <2>2. kernelWd[Parent[d]] = 0
      <3>1. SUFFICES ASSUME act = "delete", \A m \in Nodes : Parent[m] = n => ~disk[m], Parent[d] = n PROVE FALSE
        BY <1>4, <1>5, <2>1
      <3>2. QED
        BY <1>4, <1>5, <2>1, <3>1
    <2>3. CASE disk[d]
      <3>1. Quiet(d) /\ ~Confirmed(d)
        BY <1>5, <2>2, <2>3 DEF SeveredInv
      <3>2. Quiet(d)'
        <4>1. SUFFICES ASSUME NEW i \in DOMAIN queue', Matched(i, d)' PROVE FALSE
          BY DEF Quiet
        <4>2. i \in DOMAIN queue
          BY <1>3, <1>4, <1>8, <2>2, <4>1
        <4>3. QED
          BY <1>4, <1>5, <3>1, <4>1, <4>2 DEF Quiet
      <3>3. QED
        BY <3>1, <3>2
    <2>4. CASE ~disk[d]
      <3>1. d = n /\ act = "create" /\ queue' = queue /\ ~Queued(n)
        BY <1>3, <1>4, <1>5, <2>1, <2>2, <2>4
      <3>2. Quiet(d)'
        BY <1>8, <1>10, <3>1 DEF Quiet
      <3>3. QED
        BY <1>11, <3>1, <3>2
    <2>5. QED
      BY <2>3, <2>4
  <1>17. ConfirmedInv'
    <2>1. SUFFICES ASSUME NEW d \in Dirs, Confirmed(d)
                   PROVE  /\ ~disk'[d] => \E i \in DOMAIN queue' : Matched(i, d)' /\ queue'[i].act = "delete"
                          /\ \A i \in DOMAIN queue' : Matched(i, d)' => queue'[i].act # "create"
      BY <1>7 DEF ConfirmedInv, Going
    <2>2. /\ ~disk[d] => \E i \in DOMAIN queue : Matched(i, d) /\ queue[i].act = "delete"
          /\ \A i \in DOMAIN queue : Matched(i, d) => queue[i].act # "create"
      BY <1>5, <2>1 DEF ConfirmedInv, Going
    <2>3. ASSUME ~disk'[d] PROVE \E i \in DOMAIN queue' : Matched(i, d)' /\ queue'[i].act = "delete"
      <3>1. CASE disk[d]
        <4>1. d = n /\ act = "delete"
          BY <1>4, <1>5, <2>3, <3>1
        <4>2. kernelWd[p] # 0
          BY <1>3, <1>5, <2>1, <3>1, <4>1 DEF SeveredInv
        <4>3. QED
          BY <1>4, <4>1, <4>2
      <3>2. CASE ~disk[d]
        BY <1>4, <1>5, <2>2, <3>2
      <3>3. QED
        BY <3>1, <3>2
    <2>4. ASSUME NEW i \in DOMAIN queue', Matched(i, d)' PROVE queue'[i].act # "create"
      <3>1. CASE i \in DOMAIN queue /\ queue'[i] = queue[i]
        BY <1>4, <1>5, <2>2, <2>4, <3>1
      <3>2. CASE ~(i \in DOMAIN queue /\ queue'[i] = queue[i])
        BY <1>4, <1>8, <1>11, <2>1, <2>4, <3>2
      <3>3. QED
        BY <3>1, <3>2
    <2>5. QED
      BY <2>3, <2>4
  <1>18. AnewInv'
    <2>1. SUFFICES ASSUME NEW i \in DOMAIN queue', NEW h \in Dirs, h = queue'[i].name, queue'[i].act = "create",
                          NEW q \in Below(h) \cap Dirs
                   PROVE  /\ \A j \in DOMAIN queue' : j < i /\ Matched(j, q)' =>
                                \E k \in DOMAIN queue' : j <= k /\ k < i /\ Matched(k, q)' /\ queue'[k].act = "delete"
                          /\ Confirmed(q) => \E k \in DOMAIN queue' : k < i /\ Matched(k, q)' /\ queue'[k].act = "delete"
      BY <1>7 DEF AnewInv
    <2>2. SUFFICES /\ \A j \in DOMAIN queue : j < i /\ Matched(j, q) =>
                         \E k \in DOMAIN queue : j <= k /\ k < i /\ Matched(k, q) /\ queue[k].act = "delete"
                   /\ Confirmed(q) => \E k \in DOMAIN queue : k < i /\ Matched(k, q) /\ queue[k].act = "delete"
      <3>1. \A j \in DOMAIN queue' : j < i => j \in DOMAIN queue
        BY <1>4, <1>6
      <3>2. \A j \in DOMAIN queue : Matched(j, q)' <=> Matched(j, q)
        BY <1>4, <1>5
      <3>3. QED
        BY <1>4, <3>1, <3>2
    <2>3. CASE i \in DOMAIN queue /\ queue'[i] = queue[i]
      BY <1>5, <2>1, <2>3 DEF AnewInv
    <2>4. CASE ~(i \in DOMAIN queue /\ queue'[i] = queue[i])
      <3>1. h = n /\ act = "create" /\ ~disk[h] /\ i \notin DOMAIN queue
        BY <1>4, <2>1, <2>4
      <3>2. ~disk[q]
        <4> DEFINE S == {m \in Nodes : ~disk[m]}
        <4>1. \A m \in Nodes : Parent[m] = h \/ Parent[m] \in S => m \in S
          <5>1. SUFFICES ASSUME NEW m \in Nodes, disk[m], Parent[m] \in Nodes, ~disk[Parent[m]] PROVE FALSE
            BY <1>5, <2>1, <3>1
          <5>2. Parent[m] \in Dirs
            BY <1>5, <5>1 DEF AllDirs
          <5>3. QED
            BY <5>1, <5>2 DEF CalmInv, DiskInv, Present
        <4>2. S \in SUBSET Nodes
          OBVIOUS
        <4> HIDE DEF S
        <4>3. q \in S
          BY <2>1, <4>1, <4>2, BelowLeast
        <4>4. QED
          BY <4>3 DEF S
      <3>3. \A k \in DOMAIN queue : k < i
        BY <1>4, <1>6, <2>4, <3>1
      <3>4. QED
        BY <1>5, <3>2, <3>3 DEF GoneInv, ConfirmedInv, Going
    <2>5. QED
      BY <2>3, <2>4
  <1>19. QED
    BY <1>12, <1>13, <1>14, <1>15, <1>16, <1>17, <1>18 DEF QueueInv

-----------------------------------------------------------------------------
(* What the scans have found.                                                *)

(* What another process removes is told of, or was not watched.               *)
LEMMA EnvironmentFound ==
    ASSUME CalmInv, FoundInv, Steady', Environment PROVE FoundInv'
  <1>1. PICK n \in Nodes, act \in Action : Alters(n, act)
    BY EnvironmentAlters DEF CalmInv, WatchInv
  <1>2. UNCHANGED <<wd, results, phase, stack>>
    BY EnvironmentAlters DEF CalmInv, WatchInv
  <1>3. PICK p : p = Parent[n]
    OBVIOUS
  <1>4. /\ \A i \in DOMAIN queue : i \in DOMAIN queue' /\ queue'[i] = queue[i]
        /\ \A m \in Nodes : \A i \in DOMAIN queue : Matched(i, m)' <=> Matched(i, m)
        /\ kernelWd[p] # 0 => \E k \in DOMAIN queue' :
              /\ Matched(k, n)' /\ queue'[k].name = n /\ queue'[k].act = act
        /\ disk'[n] = (act # "delete") /\ \A m \in Nodes : m # n => disk'[m] = disk[m]
        /\ \A d \in AllDirs : \/ kernelWd'[d] = kernelWd[d]
                              \/ /\ d = n /\ n \in Dirs /\ act = "delete" /\ kernelWd'[d] = 0
                                 /\ \A m \in Nodes : Parent[m] = n => ~disk[m]
        /\ act = "create" <=> ~disk[n]
    BY <1>1, <1>2, <1>3, EnvironmentPosts
  <1>5. /\ NewsInv /\ ListedInv /\ ScannedInv /\ ComingInv
        /\ Dirs \subseteq Nodes /\ Dirs \subseteq AllDirs /\ \A m \in Nodes : Parent[m] \in AllDirs
    BY ParentDir DEF FoundInv, Nodes, AllDirs
  <1>6. /\ Calls' = Calls /\ \A d : (Confirmed(d)' <=> Confirmed(d)) /\ (Scanned(d)' <=> Scanned(d))
        /\ \A d \in Dirs : Going(d) => Going(d)'
    BY <1>2, <1>4, <1>5 DEF Calls, Confirmed, Scanned, Going
  <1>7. ASSUME NEW m \in Nodes, disk[m] PROVE kernelWd'[Parent[m]] = kernelWd[Parent[m]]
    BY <1>4, <1>5, <1>7
  <1>8. NewsInv'
    BY <1>2, <1>5, <1>6 DEF NewsInv
  <1>9. ListedInv'
    <2>1. SUFFICES ASSUME phase = "running", NEW f \in Calls
                   PROVE  \/ \E i \in DOMAIN queue' : queue'[i].name = f.dir /\ queue'[i].act = "delete"
                          \/ disk'[f.dir] /\ kernelWd'[Parent[f.dir]] # 0 /\ (f.stage # "watch" => kernelWd'[f.dir] # 0)
      BY <1>2, <1>6 DEF ListedInv
    <2>2. f.dir \in Dirs
      BY <1>5, <2>1 DEF NewsInv
    <2>3. SUFFICES ASSUME disk[f.dir] /\ kernelWd[Parent[f.dir]] # 0 /\ (f.stage # "watch" => kernelWd[f.dir] # 0)
                   PROVE  \/ \E i \in DOMAIN queue' : queue'[i].name = f.dir /\ queue'[i].act = "delete"
                          \/ disk'[f.dir] /\ kernelWd'[Parent[f.dir]] # 0 /\ (f.stage # "watch" => kernelWd'[f.dir] # 0)
      <3>1. \/ \E i \in DOMAIN queue : queue[i].name = f.dir /\ queue[i].act = "delete"
            \/ disk[f.dir] /\ kernelWd[Parent[f.dir]] # 0 /\ (f.stage # "watch" => kernelWd[f.dir] # 0)
        BY <1>5, <2>1 DEF ListedInv
      <3>2. QED
        BY <1>4, <2>3, <3>1
    <2>4. CASE f.dir = n /\ act = "delete"
      BY <1>3, <1>4, <2>3, <2>4
    <2>5. CASE ~(f.dir = n /\ act = "delete")
      <3>1. disk'[f.dir] /\ kernelWd'[f.dir] = kernelWd[f.dir]
        BY <1>4, <1>5, <2>2, <2>3, <2>5
      <3>2. QED
        BY <1>5, <1>7, <2>2, <2>3, <3>1
    <2>6. QED
      BY <2>4, <2>5
  <1>10. ScannedInv'
    <2>1. SUFFICES ASSUME NEW d \in Dirs, Scanned(d)
                   PROVE  /\ kernelWd'[d] # 0 => kernelWd'[Parent[d]] # 0
                          /\ wd[d] # 0 /\ kernelWd'[d] = 0 => Going(d)'
      BY <1>2, <1>6 DEF ScannedInv
    <2>2. /\ kernelWd[d] # 0 => kernelWd[Parent[d]] # 0
          /\ wd[d] # 0 /\ kernelWd[d] = 0 => Going(d)
      BY <1>5, <2>1 DEF ScannedInv
    <2>3. kernelWd[d] # 0 => disk[d]
      BY DEF CalmInv, DiskInv
    <2>4. kernelWd'[d] # 0 => kernelWd[d] # 0
      BY <1>4, <1>5
    <2>5. kernelWd'[d] # 0 => kernelWd'[Parent[d]] # 0
      BY <1>5, <1>7, <2>2, <2>3, <2>4
    <2>6. ASSUME wd[d] # 0, kernelWd'[d] = 0 PROVE Going(d)'
      <3>1. CASE kernelWd[d] = 0
        BY <1>6, <2>2, <2>6, <3>1
      <3>2. CASE kernelWd[d] # 0
        <4>1. d = n /\ act = "delete" /\ kernelWd[p] # 0
          BY <1>3, <1>4, <1>5, <2>2, <2>6, <3>2
        <4>2. QED
          BY <1>4, <4>1 DEF Going
      <3>3. QED
        BY <3>1, <3>2
    <2>7. QED
      BY <2>5, <2>6
  <1>11. ComingInv'
    <2>1. SUFFICES ASSUME NEW d \in Dirs, InZone(d), disk'[d], kernelWd'[d] = 0, kernelWd'[Parent[d]] # 0
                   PROVE  \/ \E f \in Calls : WillWatch(f, d)
                          \/ \E i \in DOMAIN queue' : Matched(i, d)' /\ queue'[i].act = "create"
      BY <1>6 DEF ComingInv, InZone
    <2>2. kernelWd[Parent[d]] # 0
      BY <1>4, <1>5, <2>1
    <2>3. CASE d = n /\ act = "create"
      BY <1>3, <1>4, <2>2, <2>3
    <2>4. CASE ~(d = n /\ act = "create")
      <3>1. disk[d] /\ kernelWd[d] = 0
        BY <1>4, <1>5, <2>1, <2>4
      <3>2. \/ \E f \in Calls : WillWatch(f, d)
            \/ \E i \in DOMAIN queue : Matched(i, d) /\ queue[i].act = "create"
        BY <1>5, <2>1, <2>2, <3>1 DEF ComingInv
      <3>3. QED
        BY <1>4, <1>5, <3>2
    <2>5. QED
      BY <2>3, <2>4
  <1>12. QED
    BY <1>8, <1>9, <1>10, <1>11 DEF FoundInv

(* A new watch is on a directory that is there, in one that is watched.        *)
LEMMA AddWatchFound ==
    ASSUME CalmInv, QueueInv, FoundInv, AddWatch PROVE FoundInv'
  <1> DEFINE d == Top.dir
  <1>1. PICK f : f = Call(d, IF phase = "setup" THEN "list" ELSE "open")
    OBVIOUS
  <1>2. /\ d \in Dirs /\ wd[d] = 0 /\ kernelWd[d] = 0
        /\ UNCHANGED <<queue, phase, disk, results>>
        /\ \A n \in Nodes : \A i \in DOMAIN queue : Matched(i, n)' <=> Matched(i, n)
        /\ \A x \in AllDirs : x # d => wd'[x] = wd[x] /\ kernelWd'[x] = kernelWd[x]
        /\ IF disk[d] THEN wd'[d] = lastWd + 1 /\ kernelWd'[d] = lastWd + 1
                      ELSE UNCHANGED <<wd, kernelWd>>
    BY AddWatchShape
  <1>3. phase \in {"setup", "running"} /\ lastWd \in Nat
    BY DEF CalmInv, WatchInv, TypeOK
  <1>4. /\ f.dir = d
        /\ f.stage = IF phase = "setup" THEN "list" ELSE "open"
    BY <1>1 DEF Call
  <1>5. /\ Calls = {Top} \cup RestCalls /\ Top.stage = "watch"
        /\ IF disk[d] THEN Calls' = {f} \cup RestCalls ELSE Calls' = RestCalls
    <2>1. TypeOK /\ stack # <<>>
      BY DEF CalmInv, WatchInv, AddWatch
    <2>2. /\ Top.stage = "watch"
          /\ IF disk[d]
             THEN Calls' = {Call(d, IF phase = "setup" THEN "list" ELSE "open")} \cup RestCalls
             ELSE Calls' = RestCalls
      BY <2>1, AddWatchCalls
    <2> HIDE DEF d
    <2>3. QED
      BY <1>1, <2>1, <2>2, CallsSplit
  <1>6. d = Top.dir
    OBVIOUS
  <1> HIDE DEF d
  <1>7. /\ disk[d] => wd'[d] # 0 /\ kernelWd'[d] # 0
        /\ kernelWd'[d] # 0 => disk[d] /\ f \in Calls'
        /\ \A x \in AllDirs : kernelWd[x] # 0 => kernelWd'[x] # 0
    BY <1>2, <1>3, <1>5
  <1>8. /\ RemovalInv /\ NewsInv /\ ListedInv /\ ScannedInv /\ ComingInv
        /\ Dirs \subseteq Nodes /\ Dirs \subseteq AllDirs /\ \A m \in Nodes : Parent[m] \in AllDirs
    BY ParentDir DEF QueueInv, FoundInv, Nodes, AllDirs
  <1>9. /\ \A m : (Confirmed(m)' <=> Confirmed(m)) /\ (Scanned(m)' <=> Scanned(m))
        /\ \A m \in Dirs : Going(m) => Going(m)'
    BY <1>2, <1>8 DEF Confirmed, Scanned, Going
  <1>10. \A g \in Calls' : \E c \in Calls : c.dir = g.dir /\ (g = c \/ (g = f /\ c = Top /\ disk[d]))
    BY <1>4, <1>5, <1>6
  <1>11. NewsInv'
    BY <1>2, <1>8, <1>9, <1>10 DEF NewsInv
  <1>12. phase = "running" /\ disk[d] => kernelWd[Parent[d]] # 0
    <2>1. SUFFICES ASSUME phase = "running", disk[d] PROVE kernelWd[Parent[d]] # 0
      OBVIOUS
    <2>2. \/ \E i \in DOMAIN queue : queue[i].name = d /\ queue[i].act = "delete"
          \/ kernelWd[Parent[d]] # 0
      BY <1>5, <1>6, <1>8, <2>1 DEF ListedInv
    <2>3. QED
      BY <1>2, <1>8, <2>1, <2>2 DEF RemovalInv
  <1>13. ListedInv'
    <2>1. SUFFICES ASSUME phase = "running", NEW g \in Calls'
                   PROVE  \/ \E i \in DOMAIN queue : queue[i].name = g.dir /\ queue[i].act = "delete"
                          \/ disk[g.dir] /\ kernelWd'[Parent[g.dir]] # 0 /\ (g.stage # "watch" => kernelWd'[g.dir] # 0)
      BY <1>2 DEF ListedInv
    <2>2. PICK c \in Calls : c.dir = g.dir /\ (g = c \/ (g = f /\ c = Top /\ disk[d]))
      BY <1>10
    <2>3. c.dir \in Dirs /\ Parent[c.dir] \in AllDirs
      BY <1>8, <2>1 DEF NewsInv
    <2>4. CASE g = c
      <3>1. \/ \E i \in DOMAIN queue : queue[i].name = g.dir /\ queue[i].act = "delete"
            \/ disk[g.dir] /\ kernelWd[Parent[g.dir]] # 0 /\ (g.stage # "watch" => kernelWd[g.dir] # 0)
        BY <1>8, <2>1, <2>4 DEF ListedInv
      <3>2. QED
        BY <1>7, <1>8, <2>3, <2>4, <3>1
    <2>5. CASE g = f /\ disk[d]
      BY <1>4, <1>7, <1>12, <2>1, <2>2, <2>3, <2>5
    <2>6. QED
      BY <2>2, <2>4, <2>5
  <1>14. ScannedInv'
    <2>1. SUFFICES ASSUME NEW m \in Dirs, Scanned(m)
                   PROVE  /\ kernelWd'[m] # 0 => kernelWd'[Parent[m]] # 0
                          /\ wd'[m] # 0 /\ kernelWd'[m] = 0 => Going(m)'
      BY <1>9 DEF ScannedInv
    <2>2. /\ kernelWd[m] # 0 => kernelWd[Parent[m]] # 0
          /\ wd[m] # 0 /\ kernelWd[m] = 0 => Going(m)
      BY <1>8, <2>1 DEF ScannedInv
    <2>3. CASE m = d
      <3>1. phase = "running"
        <4>1. SUFFICES ASSUME phase = "setup" PROVE FALSE
          BY <1>3
        <4>2. results[KeyOf(m)] = NoResult
          BY <1>8, <4>1, KeyOfKey DEF CalmInv, WatchInv, SetupInv
        <4>3. QED
          BY <2>1, <4>2, NoNews
      <3>2. QED
        BY <1>2, <1>7, <1>8, <1>12, <2>3, <3>1
    <2>4. CASE m # d
      BY <1>2, <1>7, <1>8, <1>9, <2>2, <2>4
    <2>5. QED
      BY <2>3, <2>4
  <1>15. ComingInv'
    <2>1. SUFFICES ASSUME NEW c \in Dirs, InZone(c), disk[c], kernelWd'[c] = 0, kernelWd'[Parent[c]] # 0
                   PROVE  \/ \E g \in Calls' : WillWatch(g, c)
                          \/ \E i \in DOMAIN queue : Matched(i, c)' /\ queue[i].act = "create"
      BY <1>2 DEF ComingInv, InZone
    <2>2. c # d
      BY <1>7, <2>1
    <2>3. CASE Parent[c] = d
      BY <1>4, <1>7, <2>1, <2>3 DEF WillWatch
    <2>4. CASE Parent[c] # d
      <3>1. kernelWd[c] = 0 /\ kernelWd[Parent[c]] # 0
        BY <1>2, <1>8, <2>1, <2>2, <2>4
      <3>2. \/ \E g \in Calls : WillWatch(g, c)
            \/ \E i \in DOMAIN queue : Matched(i, c) /\ queue[i].act = "create"
        BY <1>8, <2>1, <3>1 DEF ComingInv
      <3>3. ASSUME NEW g \in Calls, WillWatch(g, c) PROVE g \in Calls'
        <4>1. g # Top
          BY <1>5, <1>6, <2>2, <2>4, <3>3 DEF WillWatch
        <4>2. QED
          BY <1>5, <4>1
      <3>4. QED
        BY <1>2, <1>8, <3>2, <3>3
    <2>5. QED
      BY <2>3, <2>4
  <1>16. QED
    BY <1>11, <1>13, <1>14, <1>15 DEF FoundInv

LEMMA AddWatchQueue ==
    ASSUME CalmInv, TypeOK', QueueInv, AddWatch PROVE QueueInv'
  <1>1. /\ Top.dir \in Dirs /\ kernelWd[Top.dir] = 0
        /\ UNCHANGED <<queue, disk, results>>
        /\ \A n \in Nodes : \A i \in DOMAIN queue : Matched(i, n)' <=> Matched(i, n)
        /\ \A x \in AllDirs : x # Top.dir => kernelWd'[x] = kernelWd[x]
    BY AddWatchShape
  <1>2. \A m \in Dirs : m \in Nodes /\ Parent[m] \in AllDirs
    BY ParentDir DEF Nodes
  <1>3. \A m \in Dirs : kernelWd'[Parent[m]] = 0 => kernelWd[Parent[m]] = 0
    BY <1>1, <1>2
  <1>4. \A m : Confirmed(m)' <=> Confirmed(m)
    BY <1>1 DEF Confirmed
  <1>5. QED
    BY <1>1, <1>2, <1>3, <1>4, QueueKept

(* A step that only moves on what the calls under way will come to.           *)
LEMMA SameFound ==
    ASSUME CalmInv, FoundInv, UNCHANGED <<disk, kernelWd, queue, wd>>,
           \A d \in Dirs : results'[KeyOf(d)] = results[KeyOf(d)],
           phase' = "running" => phase = "running" \/ Calls' = {},
           phase' = "running" => \A g \in Calls' : \E f \in Calls :
              f.dir = g.dir /\ (f.stage = "watch" => g.stage = "watch"),
           \A f \in Calls : \A d \in Dirs :
              WillWatch(f, d) /\ InZone(d) /\ disk[d] /\ kernelWd[Parent[d]] # 0 =>
                 \E g \in Calls' : WillWatch(g, d)
    PROVE  FoundInv'
  <1>1. /\ NewsInv /\ ListedInv /\ ScannedInv /\ ComingInv
        /\ Dirs \subseteq Nodes
    BY DEF FoundInv, Nodes
  <1>2. /\ \A d \in Dirs : (Confirmed(d)' <=> Confirmed(d)) /\ (Scanned(d)' <=> Scanned(d))
        /\ \A d \in Dirs : Going(d)' <=> Going(d)
        /\ \A d \in Dirs : \A i \in DOMAIN queue : Matched(i, d)' <=> Matched(i, d)
    BY DEF Confirmed, Scanned, Going, Matched
  <1>3. NewsInv'
    <2>1. ASSUME phase' = "running", NEW g \in Calls'
          PROVE  /\ g.dir \in Dirs /\ results'[KeyOf(g.dir)] # NoResult
                 /\ \A p \in Below(g.dir) \cap Dirs : ~Confirmed(p)'
      <3>1. PICK f \in Calls : f.dir = g.dir
        BY <2>1
      <3>2. /\ f.dir \in Dirs /\ results[KeyOf(f.dir)] # NoResult
            /\ \A p \in Below(f.dir) \cap Dirs : ~Confirmed(p)
        BY <1>1, <2>1, <3>1 DEF NewsInv
      <3>3. QED
        BY <1>2, <3>1, <3>2
    <2>2. \A d \in Dirs : Parent[d] \in Dirs /\ results'[KeyOf(Parent[d])] = NoResult => ~Scanned(d)'
      BY <1>1, <1>2 DEF NewsInv
    <2>3. QED
      BY <2>1, <2>2 DEF NewsInv
  <1>4. ListedInv'
    <2>1. SUFFICES ASSUME phase' = "running", NEW g \in Calls'
                   PROVE  \/ \E i \in DOMAIN queue : queue[i].name = g.dir /\ queue[i].act = "delete"
                          \/ disk[g.dir] /\ kernelWd[Parent[g.dir]] # 0 /\ (g.stage # "watch" => kernelWd[g.dir] # 0)
      BY DEF ListedInv
    <2>2. PICK f \in Calls : f.dir = g.dir /\ (f.stage = "watch" => g.stage = "watch")
      BY <2>1
    <2>3. \/ \E i \in DOMAIN queue : queue[i].name = f.dir /\ queue[i].act = "delete"
          \/ disk[f.dir] /\ kernelWd[Parent[f.dir]] # 0 /\ (f.stage # "watch" => kernelWd[f.dir] # 0)
      BY <1>1, <2>1, <2>2 DEF ListedInv
    <2>4. QED
      BY <2>2, <2>3
  <1>5. ScannedInv'
    BY <1>1, <1>2 DEF ScannedInv
  <1>6. ComingInv'
    <2>1. SUFFICES ASSUME NEW d \in Dirs, InZone(d), disk[d], kernelWd[d] = 0, kernelWd[Parent[d]] # 0
                   PROVE  \/ \E f \in Calls' : WillWatch(f, d)
                          \/ \E i \in DOMAIN queue : Matched(i, d)' /\ queue[i].act = "create"
      BY DEF ComingInv, InZone
    <2>2. \/ \E f \in Calls : WillWatch(f, d)
          \/ \E i \in DOMAIN queue : Matched(i, d) /\ queue[i].act = "create"
      BY <1>1, <2>1 DEF ComingInv
    <2>3. QED
      BY <1>2, <2>1, <2>2
  <1>7. QED
    BY <1>3, <1>4, <1>5, <1>6 DEF FoundInv

LEMMA SameQueueInv ==
    ASSUME CalmInv, TypeOK', QueueInv, UNCHANGED <<disk, kernelWd, queue, wd>>,
           \A d \in Dirs : results'[KeyOf(d)] = results[KeyOf(d)]
    PROVE  QueueInv'
  <1>1. \A m \in Dirs : Confirmed(m)' <=> Confirmed(m)
    BY DEF Confirmed
  <1>2. \A m \in Nodes : \A i \in DOMAIN queue : Matched(i, m)' <=> Matched(i, m)
    BY DEF Matched
  <1>3. Dirs \subseteq Nodes
    BY DEF Nodes
  <1>4. QED
    BY <1>1, <1>2, <1>3, QueueKept

(* What is there when a directory is read is among the names.                 *)
LEMMA OpenDirectoryFound ==
    ASSUME CalmInv, FoundInv, OpenDirectory PROVE FoundInv'
  <1> DEFINE d == Top.dir
             h == [dir |-> d, stage |-> IF Top.stage = "list" THEN "remember" ELSE "walk",
                   names |-> {n \in Children(d) : disk[n]}]
  <1>1. /\ Calls = {Top} \cup RestCalls /\ Top.stage \in {"list", "open"} /\ d \in AllDirs
        /\ Present(d) => Calls' = {h} \cup RestCalls
        /\ RestCalls \subseteq Calls'
        /\ \A g \in Calls' : g \in Calls \/ g.dir = d
    <2>1. TypeOK /\ stack # <<>>
      BY DEF CalmInv, WatchInv, OpenDirectory
    <2>2. Calls = {Top} \cup RestCalls
      BY <2>1, CallsSplit
    <2>3. /\ d \in AllDirs /\ Top.stage \in {"list", "open"}
          /\ IF Present(d)
             THEN Calls' = {h} \cup RestCalls
             ELSE Calls' = (IF Top.stage = "open" \/ d \in Leaves THEN {} ELSE {Call(d, "open")})
                              \cup RestCalls
      BY <2>1, OpenDirectoryCalls
    <2>4. Call(d, "open").dir = d /\ h.dir = d
      BY DEF Call
    <2> HIDE DEF d, h
    <2>5. QED
      BY <2>2, <2>3, <2>4
  <1>2. UNCHANGED <<disk, kernelWd, queue, wd, results, phase>>
    BY DEF OpenDirectory, files, inotify, tree, model
  <1>3. /\ h.dir = d /\ h.stage = (IF Top.stage = "list" THEN "remember" ELSE "walk")
        /\ \A n : n \in h.names <=> n \in Nodes /\ Parent[n] = d /\ disk[n]
    BY DEF Children
  <1>4. kernelWd[d] # 0 => Present(d)
    BY <1>1 DEF CalmInv, DiskInv, Present
  <1>5. Top.dir = d
    OBVIOUS
  <1> HIDE DEF h, d
  <1>6. ASSUME NEW f \in Calls, NEW c \in Dirs, WillWatch(f, c), disk[c], kernelWd[Parent[c]] # 0
        PROVE  \E g \in Calls' : WillWatch(g, c)
    <2>1. CASE f \in RestCalls
      BY <1>1, <1>6, <2>1
    <2>2. CASE f = Top
      <3>1. Parent[c] = d
        BY <1>1, <1>5, <1>6, <2>2 DEF WillWatch
      <3>2. h \in Calls' /\ c \in h.names
        BY <1>1, <1>3, <1>4, <1>6, <3>1 DEF Nodes
      <3>3. WillWatch(h, c)
        BY <1>1, <1>3, <3>1, <3>2 DEF WillWatch
      <3>4. QED
        BY <3>2, <3>3
    <2>3. QED
      BY <1>1, <2>1, <2>2
  <1>7. \A g \in Calls' : \E f \in Calls : f.dir = g.dir /\ (f.stage = "watch" => g.stage = "watch")
    BY <1>1, <1>5
  <1>8. QED
    BY <1>2, <1>6, <1>7, SameFound

(* The subdirectories are looked for afterwards, unless the zone ends there.   *)
LEMMA EndNamesFound ==
    ASSUME CalmInv, FoundInv, EndNames PROVE FoundInv'
  <1> DEFINE d == Top.dir
             g == Call(d, "open")
  <1>1. /\ Calls = {Top} \cup RestCalls
        /\ Top.stage \in {"remember", "walk"} /\ Top.names = {}
        /\ IF Top.stage = "walk" \/ d \in Leaves THEN Calls' = RestCalls ELSE Calls' = {g} \cup RestCalls
    BY EndNamesCalls DEF CalmInv, WatchInv
  <1>2. UNCHANGED <<disk, kernelWd, queue, wd, results, phase>>
    BY DEF EndNames, files, inotify, tree, model
  <1>3. g.dir = d /\ g.stage = "open" /\ Top.dir = d
    BY DEF Call
  <1> HIDE DEF d, g
  <1>4. RestCalls \subseteq Calls' /\ \A f \in Calls' : f \in Calls \/ f = g
    BY <1>1
  <1>5. ASSUME NEW f \in Calls, NEW c \in Dirs, WillWatch(f, c), InZone(c)
        PROVE  \E h \in Calls' : WillWatch(h, c)
    <2>1. CASE f = Top
      <3>1. Top.stage = "remember" /\ Parent[c] = d
        BY <1>1, <1>3, <1>5, <2>1 DEF WillWatch
      <3>2. d \notin Leaves
        BY <1>5, <3>1, KindsAssumption DEF InZone, Nodes
      <3>3. g \in Calls' /\ WillWatch(g, c)
        BY <1>1, <1>3, <3>1, <3>2 DEF WillWatch
      <3>4. QED
        BY <3>3
    <2>2. CASE f # Top
      BY <1>1, <1>4, <1>5, <2>2
    <2>3. QED
      BY <2>1, <2>2
  <1>6. \A h \in Calls' : \E f \in Calls : f.dir = h.dir /\ (f.stage = "watch" => h.stage = "watch")
    BY <1>1, <1>3, <1>4
  <1>7. QED
    BY <1>2, <1>5, <1>6, SameFound

(* addExistingContent(), or a scan that meets no directory, goes on.          *)
LEMMA DoneFound ==
    ASSUME CalmInv, FoundInv, stack # <<>>, NEW n \in Top.names,
           Top.stage = "remember" \/ n \notin Dirs \/ ~disk[n], Top.stage # "watch",
           Calls' = {Done(n)} \cup RestCalls,
           UNCHANGED <<disk, kernelWd, queue, wd, phase>>,
           \A d \in Dirs : results'[KeyOf(d)] = results[KeyOf(d)]
    PROVE  FoundInv'
  <1>1. /\ Calls = {Top} \cup RestCalls
        /\ Done(n).dir = Top.dir /\ Done(n).stage = Top.stage /\ Done(n).names = Top.names \ {n}
    BY WalkCalls DEF CalmInv, WatchInv
  <1>2. ASSUME NEW f \in Calls, NEW c \in Dirs, WillWatch(f, c), disk[c]
        PROVE  \E g \in Calls' : WillWatch(g, c)
    <2>1. CASE f = Top
      <3>1. WillWatch(Done(n), c)
        BY <1>1, <1>2, <2>1 DEF WillWatch
      <3>2. QED
        BY <3>1
    <2>2. CASE f # Top
      BY <1>1, <1>2, <2>2
    <2>3. QED
      BY <2>1, <2>2
  <1>3. \A g \in Calls' : \E f \in Calls : f.dir = g.dir /\ (f.stage = "watch" => g.stage = "watch")
    BY <1>1
  <1>4. QED
    BY <1>2, <1>3, SameFound

(* initialCreateToWatchDir() calls itself for every subdirectory.             *)
LEMMA SetUpFound ==
    ASSUME CalmInv, FoundInv, NEW n \in Nodes, SetUp(n) PROVE FoundInv'
  <1> DEFINE g == Call(n, "watch")
  <1>1. /\ stack # <<>> /\ n \in Top.names /\ Top.stage = "walk" /\ phase = "setup"
        /\ UNCHANGED <<disk, kernelWd, queue, wd, phase, results>>
        /\ Done(n) \in Calls' /\ RestCalls \subseteq Calls'
        /\ n \in Dirs /\ disk[n] => g \in Calls'
    <2>1. /\ stack # <<>> /\ n \in Top.names /\ Top.stage = "walk" /\ phase = "setup"
          /\ UNCHANGED <<disk, kernelWd, queue, wd, phase, results>>
          /\ IF n \in Dirs /\ disk[n] THEN Calls' = {g, Done(n)} \cup RestCalls
                                      ELSE Calls' = {Done(n)} \cup RestCalls
      BY SetUpCalls DEF CalmInv, WatchInv
    <2> HIDE DEF g
    <2>2. QED
      BY <2>1
  <1>2. g.dir = n /\ g.stage = "watch"
    BY DEF Call
  <1>3. /\ Calls = {Top} \cup RestCalls
        /\ Done(n).dir = Top.dir /\ Done(n).stage = Top.stage /\ Done(n).names = Top.names \ {n}
    BY <1>1, WalkCalls DEF CalmInv, WatchInv
  <1> HIDE DEF g
  <1>4. ASSUME NEW f \in Calls, NEW c \in Dirs, WillWatch(f, c), disk[c]
        PROVE  \E h \in Calls' : WillWatch(h, c)
    <2>1. CASE f = Top /\ c = n
      BY <1>1, <1>2, <1>4, <2>1 DEF WillWatch
    <2>2. CASE f = Top /\ c # n
      <3>1. WillWatch(Done(n), c)
        BY <1>1, <1>3, <1>4, <2>2 DEF WillWatch
      <3>2. QED
        BY <1>1, <3>1
    <2>3. CASE f # Top
      BY <1>1, <1>3, <1>4, <2>3
    <2>4. QED
      BY <2>1, <2>2, <2>3
  <1>5. QED
    BY <1>1, <1>4, SameFound

LEMMA RememberFound ==
    ASSUME CalmInv, FoundInv, NEW n \in Nodes, Remember(n) PROVE FoundInv'
  <1>1. /\ stack # <<>> /\ Top.stage = "remember" /\ n \in Top.names
        /\ UNCHANGED <<disk, kernelWd, queue, wd, phase, results>>
        /\ stack' = AfterName(n)
    BY DEF Remember, AfterName, files, inotify, tree
  <1>2. Calls' = {Done(n)} \cup RestCalls
    BY <1>1, WalkCalls DEF CalmInv, WatchInv
  <1>3. QED
    BY <1>1, <1>2, DoneFound

LEMMA EndSetupFound ==
    ASSUME CalmInv, FoundInv, EndSetup PROVE FoundInv'
  <1>1. UNCHANGED <<disk, kernelWd, queue, wd, results>> /\ stack = <<>> /\ stack' = <<>>
    BY DEF EndSetup, files, inotify, tree, model
  <1>2. Calls = {} /\ Calls' = {}
    BY <1>1 DEF Calls
  <1>3. QED
    BY <1>1, <1>2, SameFound

-----------------------------------------------------------------------------
(* A scan comes to a directory.                                              *)

(* What becomes of the result of a directory that a scan finds.               *)
LEMMA Found ==
    ASSUME NEW n, NEW r \in WatchedResult
    PROVE  LET new == Reconsider(n, r, OnScan(r)) IN
           /\ new \in WatchedResult /\ new # NoResult
           /\ new.immediate = ~(Exists(r) /\ ~r.immediate)
  <1>1. OnScan(r) \in WatchedResult /\ Exists(OnScan(r))
    BY OnScanResult
  <1>2. OnScan(r).immediate = ~(Exists(r) /\ ~r.immediate)
    BY DEF OnScan, ScanContradicts
  <1>3. /\ Reconsider(n, r, OnScan(r)) \in WatchedResult
        /\ Exists(Reconsider(n, r, OnScan(r)))
    BY <1>1, ReconsiderResult
  <1>4. Reconsider(n, r, OnScan(r)).immediate = OnScan(r).immediate
    BY <1>1 DEF Reconsider, WatchedResult
  <1>5. Reconsider(n, r, OnScan(r)) # NoResult
    BY <1>3 DEF NoResult, Exists
  <1>6. QED
    BY <1>2, <1>3, <1>4, <1>5

LEMMA DiscoverFinds ==
    ASSUME CalmInv, NEW n \in Dirs, disk[n], Discover(n)
    PROVE  /\ phase = "running" /\ Top.stage = "walk" /\ n \in Top.names /\ stack # <<>>
           /\ UNCHANGED <<queue, phase, disk>>
           /\ results'[KeyOf(n)] # NoResult
           /\ ~Confirmed(n) => Scanned(n)' /\ ~Confirmed(n)'
           /\ \A m \in Nodes : m # n => results'[KeyOf(m)] = results[KeyOf(m)]
           /\ \/ /\ toWatch[n] = "none" /\ Parent[n] \in Leaves
                 /\ Calls' = {Done(n)} \cup RestCalls
                 /\ UNCHANGED <<wd, kernelWd>>
              \/ /\ Calls' = {Call(n, IF wd'[n] = 0 THEN "watch" ELSE "open"), Done(n)} \cup RestCalls
                 /\ \/ /\ CreatedAgain(n, results[KeyOf(n)])
                       /\ wd' = [wd EXCEPT ![n] = 0] /\ kernelWd' = [kernelWd EXCEPT ![n] = 0]
                    \/ /\ ~CreatedAgain(n, results[KeyOf(n)])
                       /\ UNCHANGED <<wd, kernelWd>>
  <1>1. /\ phase = "running" /\ Top.stage = "walk" /\ n \in Top.names /\ stack # <<>>
        /\ UNCHANGED <<queue, phase, disk>>
    BY DEF Discover, files
  <1>2. TypeOK /\ FlagInv /\ n \in Nodes
    BY DEF CalmInv, WatchInv, Nodes
  <1>3. (n \in Dirs /\ disk[n]) = TRUE
    OBVIOUS
  <1>4. <<n, n \in Dirs /\ disk[n]>> = KeyOf(n)
    <2>1. <<n, n \in Dirs /\ disk[n]>> = <<n, TRUE>>
      BY <1>3, Zenon
    <2>2. QED
      BY <2>1, KeysDiffer
  <1>5. PICK r : r = results[KeyOf(n)]
    OBVIOUS
  <1>6. PICK new : new = Reconsider(n, r, OnScan(r))
    OBVIOUS
  <1>7. r \in WatchedResult
    BY <1>2, <1>5, KeyOfKey DEF TypeOK
  <1>8. new \in WatchedResult /\ new # NoResult /\ new.immediate = ~(Exists(r) /\ ~r.immediate)
    BY <1>6, <1>7, Found
  <1>9. Record(KeyOf(n), r, new, ScanEmits(r)) /\ Enter(n, r, AfterName(n))
    <2>1. ASSUME NEW k, k = KeyOf(n), NEW x, x = results[k],
                 \/ /\ n \in Dirs /\ disk[n]
                    /\ Record(k, x, Reconsider(n, x, OnScan(x)), ScanEmits(x))
                    /\ Enter(n, x, AfterName(n))
                 \/ /\ ~(n \in Dirs /\ disk[n])
                    /\ Record(k, x, OnScan(x), ScanEmits(x))
                    /\ stack' = AfterName(n)
                    /\ UNCHANGED <<kernelWd, toWatch, wd>>
          PROVE  Record(KeyOf(n), r, new, ScanEmits(r)) /\ Enter(n, r, AfterName(n))
      BY <1>5, <1>6, <2>1
    <2>2. QED
      BY <1>4, <2>1 DEF Discover
  <1>10. results'[KeyOf(n)] = new /\ \A m \in Nodes : m # n => results'[KeyOf(m)] = results[KeyOf(m)]
    BY <1>2, <1>5, <1>8, <1>9, Recorded
  <1>11. AfterName(n) \in Seq(Frame) /\ {AfterName(n)[i] : i \in DOMAIN AfterName(n)} = {Done(n)} \cup RestCalls
    BY <1>1, <1>2, AfterNameSet
  <1>12. \/ /\ toWatch[n] = "none" /\ Parent[n] \in Leaves
            /\ Calls' = {Done(n)} \cup RestCalls /\ UNCHANGED <<kernelWd, toWatch, wd>>
         \/ /\ Calls' = {Call(n, IF wd'[n] = 0 THEN "watch" ELSE "open")} \cup ({Done(n)} \cup RestCalls)
            /\ \/ CreatedAgain(n, r) /\ wd' = [wd EXCEPT ![n] = 0] /\ kernelWd' = [kernelWd EXCEPT ![n] = 0]
               \/ ~CreatedAgain(n, r) /\ UNCHANGED <<wd, kernelWd>>
    BY <1>2, <1>9, <1>11, EnterCalls
  <1>13. ~Confirmed(n) => Scanned(n)' /\ ~Confirmed(n)'
    BY <1>5, <1>8, <1>10 DEF Confirmed, Scanned
  <1>14. QED
    BY <1>1, <1>5, <1>8, <1>10, <1>12, <1>13

(* No event has told of it, so its watch is given up only if it was never told  *)
(* of at all, and then nothing below it was.                                 *)
LEMMA DiscoverFresh ==
    ASSUME CalmInv, Chained(stack), NewsInv, NEW n \in Dirs, disk[n], Discover(n)
    PROVE  /\ ~Confirmed(n) /\ \A m \in Dirs : Parent[m] = n => ~Confirmed(m)
           /\ \A f \in Calls : f.dir # n /\ Parent[f.dir] # n
           /\ CreatedAgain(n, results[KeyOf(n)]) => \A m \in Dirs : Parent[m] = n => ~Scanned(m)
  <1>1. /\ phase = "running" /\ n \in Top.names /\ stack # <<>> /\ TypeOK
        /\ n \in Nodes /\ Parent[n] = Top.dir /\ Top \in Calls
    BY CallInNames DEF Discover, CalmInv, WatchInv
  <1>2. /\ \A f \in Calls : f.dir \in Dirs
        /\ \A p \in Below(Top.dir) \cap Dirs : ~Confirmed(p)
    BY <1>1 DEF NewsInv
  <1>3. ~Confirmed(n) /\ \A m \in Dirs : Parent[m] = n => ~Confirmed(m)
    <2>1. n \in Below(Top.dir)
      BY <1>1, BelowClosed
    <2>2. \A m \in Dirs : Parent[m] = n => m \in Below(Top.dir)
      BY <2>1, BelowClosed DEF Nodes
    <2>3. QED
      BY <1>2, <2>1, <2>2
  <1>4. \A f \in Calls : f.dir # n /\ Parent[f.dir] # n
    BY <1>1, <1>2, NotAbove
  <1>5. CreatedAgain(n, results[KeyOf(n)]) => results[KeyOf(n)] = NoResult
    BY <1>3 DEF CreatedAgain, Confirmed, CalmInv, WatchInv, AssertionsHold
  <1>6. QED
    BY <1>3, <1>4, <1>5 DEF NewsInv

LEMMA DiscoverQueue ==
    ASSUME CalmInv, TypeOK', Chained(stack), NewsInv, QueueInv, NEW n \in Dirs, disk[n], Discover(n)
    PROVE  QueueInv'
  <1>1. /\ UNCHANGED <<queue, disk>>
        /\ \A m \in Nodes : m # n => results'[KeyOf(m)] = results[KeyOf(m)]
        /\ \/ wd' = [wd EXCEPT ![n] = 0] /\ kernelWd' = [kernelWd EXCEPT ![n] = 0]
           \/ UNCHANGED <<wd, kernelWd>>
        /\ ~Confirmed(n) => ~Confirmed(n)'
    BY DiscoverFinds
  <1>2. ~Confirmed(n) /\ \A m \in Dirs : Parent[m] = n => ~Confirmed(m)
    BY DiscoverFresh
  <1>3. /\ wd \in [AllDirs -> Nat] /\ kernelWd \in [AllDirs -> Nat]
        /\ \A m \in Nodes : Parent[m] \in AllDirs
        /\ Dirs \subseteq Nodes /\ n \in AllDirs
        /\ \A i \in DOMAIN queue : queue[i].wd # 0
    BY ParentDir DEF CalmInv, WatchInv, TypeOK, DescriptorInv, Nodes, AllDirs
  <1>4. \A m \in Dirs : Confirmed(m)' => Confirmed(m)
    BY <1>1, <1>2, <1>3 DEF Confirmed
  <1>5. ASSUME NEW m \in Nodes
        PROVE  /\ \A i \in DOMAIN queue : Matched(i, m)' => Matched(i, m)
               /\ \/ Parent[m] = n /\ Quiet(m)'
                  \/ /\ \A i \in DOMAIN queue : Matched(i, m) => Matched(i, m)'
                     /\ kernelWd'[Parent[m]] = kernelWd[Parent[m]]
    <2>1. CASE wd'[Parent[m]] = wd[Parent[m]] /\ kernelWd'[Parent[m]] = kernelWd[Parent[m]]
      BY <1>1, <2>1 DEF Matched
    <2>2. CASE Parent[m] = n /\ wd'[Parent[m]] = 0
      BY <1>1, <1>3, <2>2 DEF Matched, Quiet
    <2>3. QED
      BY <1>1, <1>3, <2>1, <2>2
  <1>6. \A m \in Dirs : Parent[m] = n => ~Confirmed(m)'
    BY <1>2, <1>4
  <1>7. \A m \in Dirs : \/ \A i \in DOMAIN queue : Matched(i, m) => Matched(i, m)'
                        \/ Quiet(m)' /\ ~Confirmed(m)'
    BY <1>3, <1>5, <1>6
  <1>8. \A m \in Dirs : disk[m] /\ kernelWd'[Parent[m]] = 0 =>
           \/ kernelWd[Parent[m]] = 0
           \/ Quiet(m)' /\ ~Confirmed(m)'
    BY <1>3, <1>5, <1>6
  <1>9. QED
    BY <1>1, <1>3, <1>4, <1>5, <1>7, <1>8, QueueKept

LEMMA DiscoverFound ==
    ASSUME CalmInv, QueueInv, Chained(stack), FoundInv, NEW n \in Dirs, disk[n], Discover(n)
    PROVE  FoundInv'
  <1>1. PICK g : g = Call(n, IF wd'[n] = 0 THEN "watch" ELSE "open")
    OBVIOUS
  <1>2. PICK again : again = CreatedAgain(n, results[KeyOf(n)])
    OBVIOUS
  <1>3. /\ phase = "running" /\ Top.stage = "walk" /\ n \in Top.names /\ stack # <<>>
        /\ UNCHANGED <<queue, phase, disk>>
        /\ results'[KeyOf(n)] # NoResult
        /\ ~Confirmed(n) => Scanned(n)' /\ ~Confirmed(n)'
        /\ \A m \in Nodes : m # n => results'[KeyOf(m)] = results[KeyOf(m)]
        /\ \/ /\ toWatch[n] = "none" /\ Parent[n] \in Leaves
              /\ Calls' = {Done(n)} \cup RestCalls
              /\ UNCHANGED <<wd, kernelWd>>
           \/ /\ Calls' = {g, Done(n)} \cup RestCalls
              /\ \/ again /\ wd' = [wd EXCEPT ![n] = 0] /\ kernelWd' = [kernelWd EXCEPT ![n] = 0]
                 \/ ~again /\ UNCHANGED <<wd, kernelWd>>
    BY <1>1, <1>2, DiscoverFinds
  <1>4. /\ QueueInv /\ RemovalInv /\ NewsInv /\ ListedInv /\ ScannedInv /\ ComingInv
        /\ TypeOK /\ n \in Nodes /\ n \in AllDirs /\ Parent[n] = Top.dir /\ Top \in Calls
        /\ Dirs \subseteq Nodes /\ Dirs \subseteq AllDirs /\ \A m \in Nodes : Parent[m] \in AllDirs
    BY <1>3, CallInNames, ParentDir DEF QueueInv, FoundInv, CalmInv, WatchInv, Nodes, AllDirs
  <1>5. /\ ~Confirmed(n) /\ \A m \in Dirs : Parent[m] = n => ~Confirmed(m)
        /\ \A f \in Calls : f.dir # n /\ Parent[f.dir] # n
        /\ again => \A m \in Dirs : Parent[m] = n => ~Scanned(m)
    BY <1>2, <1>4, DiscoverFresh
  <1>6. /\ Calls = {Top} \cup RestCalls
        /\ Done(n).dir = Top.dir /\ Done(n).stage = Top.stage /\ Done(n).names = Top.names \ {n}
    BY <1>3, <1>4, WalkCalls
  <1>7. g.dir = n /\ g.stage = (IF wd'[n] = 0 THEN "watch" ELSE "open")
    BY <1>1 DEF Call
  <1>8. \A c \in Calls' : c = g \/ \E f \in Calls : c.dir = f.dir /\ c.stage = f.stage
    BY <1>3, <1>6
  <1>9. /\ \A d \in AllDirs : d # n => wd'[d] = wd[d] /\ kernelWd'[d] = kernelWd[d]
        /\ \/ again /\ wd'[n] = 0 /\ kernelWd'[n] = 0
           \/ ~again /\ wd'[n] = wd[n] /\ kernelWd'[n] = kernelWd[n]
           \/ toWatch[n] = "none" /\ wd'[n] = wd[n] /\ kernelWd'[n] = kernelWd[n]
    <2>1. wd \in [AllDirs -> Nat] /\ kernelWd \in [AllDirs -> Nat]
      BY <1>4 DEF TypeOK
    <2>2. QED
      BY <1>3, <1>4, <2>1
  <1>10. /\ Scanned(n)' /\ ~Confirmed(n)'
         /\ \A m \in Dirs : m # n => (Scanned(m)' <=> Scanned(m)) /\ (Confirmed(m)' <=> Confirmed(m))
    BY <1>3, <1>4, <1>5 DEF Scanned, Confirmed
  <1>12. Top.dir \in Dirs /\ Top.dir # n /\ kernelWd'[Top.dir] # 0
    <2>1. Top.dir \in Dirs /\ Top.dir # n
      BY <1>3, <1>4, <1>5 DEF NewsInv
    <2>2. disk[Top.dir]
      BY <1>4, <2>1 DEF CalmInv, DiskInv, Present
    <2>3. kernelWd[Top.dir] # 0
      <3>1. \/ \E i \in DOMAIN queue : queue[i].name = Top.dir /\ queue[i].act = "delete"
            \/ Top.stage # "watch" => kernelWd[Top.dir] # 0
        BY <1>3, <1>4 DEF ListedInv
      <3>2. QED
        BY <1>3, <1>4, <2>1, <2>2, <3>1 DEF RemovalInv
    <2>4. QED
      BY <1>4, <1>9, <2>1, <2>3
  <1>13. wd'[n] # 0 => kernelWd'[n] # 0
    <2>1. SUFFICES ASSUME wd[n] # 0, kernelWd[n] = 0, ~again \/ toWatch[n] = "none" PROVE FALSE
      BY <1>9
    <2>2. toWatch[n] = "exists"
      BY <1>4, <2>1 DEF CalmInv, WatchInv, AssertionsHold
    <2>3. Scanned(n)
      BY <1>2, <2>1, <2>2 DEF CreatedAgain, Scanned
    <2>4. Going(n)
      BY <1>4, <2>1, <2>3 DEF ScannedInv
    <2>5. QED
      BY <1>4, <2>4 DEF Going, RemovalInv, Matched
  <1>14. NewsInv'
    <2>1. ASSUME NEW c \in Calls'
          PROVE  /\ c.dir \in Dirs /\ results'[KeyOf(c.dir)] # NoResult
                 /\ \A p \in Below(c.dir) \cap Dirs : ~Confirmed(p)'
      <3>1. CASE c = g
        <4>1. Below(n) \subseteq Below(Top.dir)
          BY <1>4, BelowClosed, BelowBelow
        <4>2. \A p \in Below(Top.dir) \cap Dirs : ~Confirmed(p)
          BY <1>3, <1>4 DEF NewsInv
        <4>3. QED
          BY <1>3, <1>7, <1>10, <3>1, <4>1, <4>2
      <3>2. CASE c # g
        <4>1. PICK f \in Calls : c.dir = f.dir
          BY <1>8, <3>2
        <4>2. /\ f.dir \in Dirs /\ results[KeyOf(f.dir)] # NoResult
              /\ \A p \in Below(f.dir) \cap Dirs : ~Confirmed(p)
          BY <1>3, <1>4 DEF NewsInv
        <4>3. f.dir \in Nodes /\ f.dir # n
          BY <1>4, <1>5, <4>2
        <4>4. QED
          BY <1>3, <1>10, <4>1, <4>2, <4>3
      <3>3. QED
        BY <3>1, <3>2
    <2>2. ASSUME NEW d \in Dirs, Parent[d] \in Dirs, results'[KeyOf(Parent[d])] = NoResult
          PROVE  ~Scanned(d)'
      <3>1. Parent[d] # n /\ Parent[d] \in Nodes
        BY <1>3, <1>4, <2>2
      <3>2. results[KeyOf(Parent[d])] = NoResult
        BY <1>3, <2>2, <3>1
      <3>3. d # n
        BY <1>3, <1>4, <3>2 DEF NewsInv
      <3>4. QED
        BY <1>4, <1>10, <2>2, <3>2, <3>3 DEF NewsInv
    <2>3. QED
      BY <2>1, <2>2 DEF NewsInv
  <1>15. ListedInv'
    <2>1. SUFFICES ASSUME NEW c \in Calls'
                   PROVE  \/ \E i \in DOMAIN queue : queue[i].name = c.dir /\ queue[i].act = "delete"
                          \/ disk[c.dir] /\ kernelWd'[Parent[c.dir]] # 0 /\ (c.stage # "watch" => kernelWd'[c.dir] # 0)
      BY <1>3 DEF ListedInv
    <2>2. CASE c = g
      BY <1>4, <1>7, <1>12, <1>13, <2>2
    <2>3. CASE c # g
      <3>1. PICK f \in Calls : c.dir = f.dir /\ c.stage = f.stage
        BY <1>8, <2>3
      <3>2. \/ \E i \in DOMAIN queue : queue[i].name = f.dir /\ queue[i].act = "delete"
            \/ disk[f.dir] /\ kernelWd[Parent[f.dir]] # 0 /\ (f.stage # "watch" => kernelWd[f.dir] # 0)
        BY <1>3, <1>4 DEF ListedInv
      <3>3. f.dir \in Dirs
        BY <1>3, <1>4 DEF NewsInv
      <3>4. kernelWd'[f.dir] = kernelWd[f.dir] /\ kernelWd'[Parent[f.dir]] = kernelWd[Parent[f.dir]]
        BY <1>4, <1>5, <1>9, <3>3
      <3>5. QED
        BY <3>1, <3>2, <3>4
    <2>4. QED
      BY <2>2, <2>3
  <1>16. ASSUME NEW m \in Dirs, m # n, Scanned(m)
         PROVE  wd'[Parent[m]] = wd[Parent[m]] /\ kernelWd'[Parent[m]] = kernelWd[Parent[m]]
    BY <1>4, <1>5, <1>9, <1>16
  <1>17. ScannedInv'
    <2>1. SUFFICES ASSUME NEW m \in Dirs, Scanned(m)'
                   PROVE  /\ kernelWd'[m] # 0 => kernelWd'[Parent[m]] # 0
                          /\ wd'[m] # 0 /\ kernelWd'[m] = 0 => Going(m)'
      BY DEF ScannedInv
    <2>2. CASE m = n
      BY <1>4, <1>12, <1>13, <2>2
    <2>3. CASE m # n
      <3>1. Scanned(m)
        BY <1>10, <2>1, <2>3
      <3>2. /\ kernelWd[m] # 0 => kernelWd[Parent[m]] # 0
            /\ wd[m] # 0 /\ kernelWd[m] = 0 => Going(m)
        BY <1>4, <3>1 DEF ScannedInv
      <3>3. /\ wd'[m] = wd[m] /\ kernelWd'[m] = kernelWd[m]
            /\ wd'[Parent[m]] = wd[Parent[m]] /\ kernelWd'[Parent[m]] = kernelWd[Parent[m]]
        BY <1>4, <1>9, <1>16, <2>3, <3>1
      <3>4. Going(m) => Going(m)'
        BY <1>3, <3>3 DEF Going, Matched
      <3>5. QED
        BY <3>2, <3>3, <3>4
    <2>4. QED
      BY <2>2, <2>3
  <1>18. ComingInv'
    <2>1. SUFFICES ASSUME NEW d \in Dirs, InZone(d), disk[d], kernelWd'[d] = 0, kernelWd'[Parent[d]] # 0
                   PROVE  \/ \E f \in Calls' : WillWatch(f, d)
                          \/ \E i \in DOMAIN queue : Matched(i, d)' /\ queue[i].act = "create"
      BY <1>3 DEF ComingInv, InZone
    <2>2. CASE d = n
      <3>1. Parent[n] \notin Leaves
        BY <1>4, <2>1, <2>2, KindsAssumption DEF InZone
      <3>2. g \in Calls'
        BY <1>3, <3>1
      <3>3. wd'[n] = 0
        BY <1>13, <2>1, <2>2
      <3>4. WillWatch(g, n)
        BY <1>7, <3>3 DEF WillWatch
      <3>5. QED
        BY <2>2, <3>2, <3>4
    <2>3. CASE d # n
      <3>1. /\ kernelWd[d] = 0 /\ kernelWd[Parent[d]] # 0 /\ wd'[Parent[d]] = wd[Parent[d]]
        BY <1>4, <1>9, <2>1, <2>3
      <3>2. \/ \E f \in Calls : WillWatch(f, d)
            \/ \E i \in DOMAIN queue : Matched(i, d) /\ queue[i].act = "create"
        BY <1>4, <2>1, <3>1 DEF ComingInv
      <3>3. ASSUME NEW f \in Calls, WillWatch(f, d) PROVE \E c \in Calls' : WillWatch(c, d)
        <4>1. CASE f = Top
          <5>1. WillWatch(Done(n), d)
            BY <1>3, <1>6, <2>3, <3>3, <4>1 DEF WillWatch
          <5>2. QED
            BY <1>3, <5>1
        <4>2. CASE f # Top
          BY <1>3, <1>6, <3>3, <4>2
        <4>3. QED
          BY <4>1, <4>2
      <3>4. \A i \in DOMAIN queue : Matched(i, d) => Matched(i, d)'
        BY <1>3, <3>1 DEF Matched
      <3>5. QED
        BY <3>2, <3>3, <3>4
    <2>4. QED
      BY <2>2, <2>3
  <1>19. QED
    BY <1>14, <1>15, <1>17, <1>18 DEF FoundInv

-----------------------------------------------------------------------------
(* An event is read.                                                         *)

(* What handling the event of a name does for root: its result is confirmed or *)
(* denied, and a watch is given up only with the removal of its directory, or  *)
(* when that is created again.                                              *)
LEMMA HandledRoot ==
    ASSUME CalmInv, IsRoot, NEW n \in Nodes, NEW event \in Action, phase = "running", stack = <<>>,
           OnFileModified(n, event)
    PROVE  /\ \A m \in Nodes : m # n => results'[KeyOf(m)] = results[KeyOf(m)]
           /\ results'[KeyOf(n)] # NoResult /\ ~results'[KeyOf(n)].immediate
           /\ Exists(results'[KeyOf(n)]) <=> event # "delete"
           /\ \/ /\ n \notin Dirs \/ event \notin {"create", "delete"}
                 /\ UNCHANGED <<kernelWd, wd>> /\ Calls' = {}
              \/ /\ n \in Dirs /\ event = "create"
                 /\ \/ /\ Parent[n] \in Leaves
                       /\ UNCHANGED <<kernelWd, wd>> /\ Calls' = {}
                    \/ /\ Calls' = {Call(n, IF wd'[n] = 0 THEN "watch" ELSE "open")}
                       /\ \/ /\ CreatedAgain(n, results[KeyOf(n)])
                             /\ wd' = [wd EXCEPT ![n] = 0] /\ kernelWd' = [kernelWd EXCEPT ![n] = 0]
                          \/ /\ ~CreatedAgain(n, results[KeyOf(n)])
                             /\ UNCHANGED <<wd, kernelWd>>
              \/ /\ n \in Dirs /\ event = "delete" /\ Calls' = {}
                 /\ wd' = [wd EXCEPT ![n] = 0] /\ kernelWd' = [kernelWd EXCEPT ![n] = 0]
  <1>1. TypeOK /\ FlagInv /\ WatchInv
    BY DEF CalmInv, WatchInv
  <1>2. PICK r, known : r = results[KeyOf(n)] /\ known = (n \in existing)
    OBVIOUS
  <1>3. r \in WatchedResult /\ known \in BOOLEAN
    BY <1>1, <1>2, KeyOfKey DEF TypeOK
  <1>4. Effective(r, event, known, IsRoot) = event
    BY DEF Effective
  <1>5. PICK new : new = OnEvent(r, event, known)
    OBVIOUS
  <1>6. new \in WatchedResult /\ new # NoResult /\ (Exists(new) <=> event # "delete")
    BY <1>3, <1>5, OnEventType, OnEventPresent
  <1>7. ~new.immediate
    BY <1>3, <1>5 DEF OnEvent, FirstResult, NextResult
  <1>8. stack' = stack => Calls' = {}
    BY DEF Calls
  <1>9. \/ n \in Files /\ OnFile(n, event)
        \/ n \in Dirs /\ event = "create" /\ OnDirCreated(n)
        \/ n \in Dirs /\ event = "delete" /\ OnDirDeleted(n)
        \/ n \in Dirs /\ event = "attrib" /\ OnDirAttrib(n)
    BY <1>2, <1>4 DEF OnFileModified
  <1>10. CASE n \in Files /\ OnFile(n, event)
    <2>1. Record(KeyOf(n), r, new, Emits(r, event)) /\ UNCHANGED <<kernelWd, stack, wd>>
      BY <1>2, <1>5, <1>10 DEF OnFile, tree
    <2>2. n \notin Dirs
      BY <1>10, KindsAssumption
    <2>3. QED
      BY <1>1, <1>2, <1>6, <1>7, <1>8, <2>1, <2>2, Recorded
  <1>11. CASE n \in Dirs /\ event = "attrib" /\ OnDirAttrib(n)
    <2>1. Record(KeyOf(n), r, new, FALSE) /\ UNCHANGED <<kernelWd, stack, wd>>
      BY <1>2, <1>5, <1>11 DEF OnDirAttrib, tree
    <2>2. QED
      BY <1>1, <1>2, <1>6, <1>7, <1>8, <1>11, <2>1, Recorded
  <1>12. CASE n \in Dirs /\ event = "delete" /\ OnDirDeleted(n)
    <2>1. /\ results' = [results EXCEPT ![KeyOf(n)] = new]
          /\ hasInconsistencies' = (hasInconsistencies \/ (new.inconsistent /\ ~r.inconsistent))
          /\ UNCHANGED stack
          /\ \/ wd' = [wd EXCEPT ![n] = 0] /\ kernelWd' = [kernelWd EXCEPT ![n] = 0]
             \/ toWatch[n] # "exists" /\ UNCHANGED <<wd, kernelWd>>
      BY <1>2, <1>5, <1>12 DEF OnDirDeleted
    <2>2. /\ results'[KeyOf(n)] = new
          /\ \A m \in Nodes : m # n => results'[KeyOf(m)] = results[KeyOf(m)]
      BY <1>1, <1>2, <1>6, <2>1, ResultSet
    <2>3. wd' = [wd EXCEPT ![n] = 0] /\ kernelWd' = [kernelWd EXCEPT ![n] = 0]
      <3>1. n \in AllDirs /\ wd \in [AllDirs -> Nat] /\ kernelWd \in [AllDirs -> Nat]
        BY <1>1, <1>12 DEF TypeOK, AllDirs
      <3>2. toWatch[n] # "exists" => wd[n] = 0 /\ kernelWd[n] = 0
        BY <1>1, <3>1 DEF WatchInv, AssertionsHold
      <3>3. QED
        BY <2>1, <3>1, <3>2
    <2>4. QED
      BY <1>6, <1>7, <1>8, <1>12, <2>1, <2>2, <2>3
  <1>13. CASE n \in Dirs /\ event = "create" /\ OnDirCreated(n)
    <2>1. PICK fin : fin = Reconsider(n, r, new)
      OBVIOUS
    <2>2. Record(KeyOf(n), r, fin, Emits(r, "create")) /\ Enter(n, r, <<>>)
      BY <1>2, <1>5, <1>13, <2>1 DEF OnDirCreated
    <2>3. fin \in WatchedResult /\ Exists(fin) /\ ~fin.immediate
      <3>1. fin \in WatchedResult /\ Exists(fin)
        BY <1>6, <1>13, <2>1, ReconsiderResult
      <3>2. fin.immediate = new.immediate
        BY <1>6, <2>1 DEF Reconsider, WatchedResult
      <3>3. QED
        BY <1>7, <3>1, <3>2
    <2>4. /\ results'[KeyOf(n)] = fin
          /\ \A m \in Nodes : m # n => results'[KeyOf(m)] = results[KeyOf(m)]
      BY <1>1, <1>2, <2>2, <2>3, Recorded
    <2>5. fin # NoResult
      BY <2>3, NoResultType
    <2>6. \/ /\ toWatch[n] = "none" /\ Parent[n] \in Leaves
             /\ Calls' = {} /\ UNCHANGED <<kernelWd, wd>>
          \/ /\ Calls' = {Call(n, IF wd'[n] = 0 THEN "watch" ELSE "open")}
             /\ \/ CreatedAgain(n, r) /\ wd' = [wd EXCEPT ![n] = 0] /\ kernelWd' = [kernelWd EXCEPT ![n] = 0]
                \/ ~CreatedAgain(n, r) /\ UNCHANGED <<wd, kernelWd>>
      BY <2>2, EnterAlone
    <2>7. QED
      BY <1>2, <1>13, <2>3, <2>4, <2>5, <2>6
  <1>14. QED
    BY <1>9, <1>10, <1>11, <1>12, <1>13

(* The same for an event that may be skipped, and for what waits behind it.   *)
LEMMA ReadRoot ==
    ASSUME CalmInv, IsRoot, Dispatch
    PROVE  \E n \in Nodes, event \in Action :
           /\ phase = "running" /\ Calls = {} /\ UNCHANGED <<phase, disk>>
           /\ 1 \in DOMAIN queue /\ queue[1].name = n /\ queue[1].act = event
           /\ DOMAIN queue \subseteq Nat \ {0} /\ DOMAIN queue' \subseteq Nat \ {0}
           /\ \A i \in DOMAIN queue' : i + 1 \in DOMAIN queue /\ queue'[i] = queue[i + 1]
           /\ \A i \in DOMAIN queue : i # 1 =>
                 i - 1 \in DOMAIN queue' /\ queue'[i - 1] = queue[i] /\ (i - 1) + 1 = i
           /\ \A m \in Nodes : m # n \/ ~Matched(1, n) => results'[KeyOf(m)] = results[KeyOf(m)]
           /\ \A d \in AllDirs :
                 \/ wd'[d] = wd[d] /\ kernelWd'[d] = kernelWd[d]
                 \/ /\ d = n /\ n \in Dirs /\ Matched(1, n) /\ wd'[d] = 0 /\ kernelWd'[d] = 0
                    /\ \/ event = "delete"
                       \/ event = "create" /\ CreatedAgain(n, results[KeyOf(n)])
           /\ Matched(1, n) =>
                 /\ results'[KeyOf(n)] # NoResult /\ ~results'[KeyOf(n)].immediate
                 /\ Exists(results'[KeyOf(n)]) <=> event # "delete"
           /\ \/ /\ Calls' = {}
                 /\ ~(n \in Dirs /\ Matched(1, n) /\ event = "create" /\ Parent[n] \notin Leaves)
              \/ /\ n \in Dirs /\ Matched(1, n) /\ event = "create"
                 /\ Calls' = {Call(n, IF wd'[n] = 0 THEN "watch" ELSE "open")}
                 /\ \/ wd'[n] = 0
                    \/ /\ ~CreatedAgain(n, results[KeyOf(n)])
                       /\ wd'[n] = wd[n] /\ kernelWd'[n] = kernelWd[n]
  <1>1. PICK n \in Nodes, event \in Action :
           /\ phase = "running" /\ stack = <<>>
           /\ 1 \in DOMAIN queue /\ queue[1].name = n /\ queue[1].act = event
           /\ DOMAIN queue \subseteq Nat \ {0} /\ DOMAIN queue' \subseteq Nat \ {0}
           /\ \A i \in DOMAIN queue' : i + 1 \in DOMAIN queue /\ queue'[i] = queue[i + 1]
           /\ \A i \in DOMAIN queue : i # 1 =>
                 i - 1 \in DOMAIN queue' /\ queue'[i - 1] = queue[i] /\ (i - 1) + 1 = i
           /\ UNCHANGED <<lost, lastWd, phase, atStart, disk, makes, hasty>>
           /\ \/ /\ ~Matched(1, n)
                 /\ UNCHANGED <<kernelWd, wd, results, existing, hasInconsistencies>> /\ Calls' = {}
              \/ Matched(1, n) /\ OnFileModified(n, event)
    BY DispatchShape
  <1>2. Calls = {}
    BY <1>1 DEF Calls
  <1>3. wd \in [AllDirs -> Nat] /\ kernelWd \in [AllDirs -> Nat] /\ (n \in Dirs => n \in AllDirs)
    BY DEF CalmInv, WatchInv, TypeOK, AllDirs
  <1>4. CASE Matched(1, n) /\ OnFileModified(n, event)
    <2>1. /\ \A m \in Nodes : m # n => results'[KeyOf(m)] = results[KeyOf(m)]
          /\ results'[KeyOf(n)] # NoResult /\ ~results'[KeyOf(n)].immediate
          /\ Exists(results'[KeyOf(n)]) <=> event # "delete"
          /\ \/ /\ n \notin Dirs \/ event \notin {"create", "delete"}
                /\ UNCHANGED <<kernelWd, wd>> /\ Calls' = {}
             \/ /\ n \in Dirs /\ event = "create"
                /\ \/ /\ Parent[n] \in Leaves
                      /\ UNCHANGED <<kernelWd, wd>> /\ Calls' = {}
                   \/ /\ Calls' = {Call(n, IF wd'[n] = 0 THEN "watch" ELSE "open")}
                      /\ \/ /\ CreatedAgain(n, results[KeyOf(n)])
                            /\ wd' = [wd EXCEPT ![n] = 0] /\ kernelWd' = [kernelWd EXCEPT ![n] = 0]
                         \/ /\ ~CreatedAgain(n, results[KeyOf(n)])
                            /\ UNCHANGED <<wd, kernelWd>>
             \/ /\ n \in Dirs /\ event = "delete" /\ Calls' = {}
                /\ wd' = [wd EXCEPT ![n] = 0] /\ kernelWd' = [kernelWd EXCEPT ![n] = 0]
      BY <1>1, <1>4, HandledRoot
    <2>2. \A d \in AllDirs :
             \/ wd'[d] = wd[d] /\ kernelWd'[d] = kernelWd[d]
             \/ /\ d = n /\ n \in Dirs /\ wd'[d] = 0 /\ kernelWd'[d] = 0
                /\ \/ event = "delete"
                   \/ event = "create" /\ CreatedAgain(n, results[KeyOf(n)])
      BY <1>3, <2>1
    <2>3. \/ Calls' = {} /\ ~(n \in Dirs /\ event = "create" /\ Parent[n] \notin Leaves)
          \/ /\ n \in Dirs /\ event = "create"
             /\ Calls' = {Call(n, IF wd'[n] = 0 THEN "watch" ELSE "open")}
             /\ \/ wd'[n] = 0
                \/ /\ ~CreatedAgain(n, results[KeyOf(n)])
                   /\ wd'[n] = wd[n] /\ kernelWd'[n] = kernelWd[n]
      BY <1>3, <2>1
    <2>4. QED
      BY <1>1, <1>2, <1>4, <2>1, <2>2, <2>3
  <1>5. CASE /\ ~Matched(1, n)
             /\ UNCHANGED <<kernelWd, wd, results, existing, hasInconsistencies>> /\ Calls' = {}
    BY <1>1, <1>2, <1>5
  <1>6. QED
    BY <1>1, <1>4, <1>5

(* A directory whose removal is read has nothing in it, and nothing waits that *)
(* happened in it; one that was reported has no creation left to be read.     *)
LEMMA HeadOfQueue ==
    ASSUME CalmInv, QueueInv, 1 \in DOMAIN queue, DOMAIN queue \subseteq Nat \ {0},
           NEW n \in Dirs, n = queue[1].name, Matched(1, n)
    PROVE  /\ \A i \in DOMAIN queue : i # 1 /\ queue[i].name = n => queue[i].act # "create"
           /\ queue[1].act = "create" => ~Confirmed(n) /\ \A p \in Below(n) \cap Dirs : ~Confirmed(p)
           /\ queue[1].act = "delete" =>
                 /\ ~disk[n]
                 /\ \A m \in Dirs : Parent[m] = n => ~disk[m] /\ Quiet(m) /\ ~Confirmed(m)
           /\ ~disk[n] /\ queue[1].act # "delete" =>
                 \E k \in DOMAIN queue : k # 1 /\ Matched(k, n) /\ queue[k].act = "delete"
           /\ disk[n] => kernelWd[Parent[n]] # 0
  <1>1. RemovalInv /\ OrderInv /\ CreateInv /\ GoneInv /\ SeveredInv /\ ConfirmedInv /\ AnewInv
    BY DEF QueueInv
  <1>2. \A i \in DOMAIN queue : 1 <= i /\ ~(i < 1)
    OBVIOUS
  <1>3. \A i \in DOMAIN queue : i # 1 /\ queue[i].name = n => queue[i].act # "create"
    <2>1. SUFFICES ASSUME NEW i \in DOMAIN queue, i # 1, queue[i].name = n, queue[i].act = "create" PROVE FALSE
      OBVIOUS
    <2>2. i <= 1
      BY <1>1, <2>1 DEF CreateInv
    <2>3. QED
      BY <1>2, <2>1, <2>2
  <1>4. queue[1].act = "create" => ~Confirmed(n) /\ \A p \in Below(n) \cap Dirs : ~Confirmed(p)
    <2>1. queue[1].act = "create" => ~Confirmed(n)
      BY <1>1 DEF ConfirmedInv
    <2>2. queue[1].act = "create" => \A p \in Below(n) \cap Dirs : ~Confirmed(p)
      BY <1>1, <1>2 DEF AnewInv
    <2>3. QED
      BY <2>1, <2>2
  <1>5. ASSUME queue[1].act = "delete"
        PROVE  ~disk[n] /\ \A m \in Dirs : Parent[m] = n => ~disk[m] /\ Quiet(m) /\ ~Confirmed(m)
    <2>1. ~disk[n]
      BY <1>1, <1>5 DEF RemovalInv
    <2>2. ASSUME NEW m \in Dirs, Parent[m] = n PROVE ~disk[m] /\ Quiet(m) /\ ~Confirmed(m)
      <3>1. m \in Nodes
        BY DEF Nodes
      <3>2. ~disk[m]
        BY <2>1, <2>2, <3>1 DEF CalmInv, DiskInv, Present
      <3>3. Quiet(m)
        <4>1. SUFFICES ASSUME NEW j \in DOMAIN queue, Matched(j, m) PROVE FALSE
          BY DEF Quiet
        <4>2. queue[j].wd = wd[n] /\ Parent[queue[j].name] = n
          BY <2>2, <4>1 DEF Matched
        <4>3. j < 1
          BY <1>1, <1>5, <4>2 DEF OrderInv
        <4>4. QED
          BY <1>2, <4>3
      <3>4. ~Confirmed(m)
        BY <1>1, <3>2, <3>3 DEF ConfirmedInv, Going, Quiet
      <3>5. QED
        BY <3>2, <3>3, <3>4
    <2>3. QED
      BY <2>1, <2>2
  <1>6. ~disk[n] /\ queue[1].act # "delete" =>
           \E k \in DOMAIN queue : k # 1 /\ Matched(k, n) /\ queue[k].act = "delete"
    <2>1. ~disk[n] => \E k \in DOMAIN queue : Matched(k, n) /\ queue[k].act = "delete"
      BY <1>1 DEF GoneInv
    <2>2. QED
      BY <2>1
  <1>7. disk[n] => kernelWd[Parent[n]] # 0
    BY <1>1 DEF SeveredInv, Quiet
  <1>8. QED
    BY <1>3, <1>4, <1>5, <1>6, <1>7

LEMMA DispatchQueue ==
    ASSUME CalmInv, QueueInv, IsRoot, Dispatch PROVE QueueInv'
  <1>1. PICK n \in Nodes, event \in Action :
           /\ phase = "running" /\ Calls = {} /\ UNCHANGED <<phase, disk>>
           /\ 1 \in DOMAIN queue /\ queue[1].name = n /\ queue[1].act = event
           /\ DOMAIN queue \subseteq Nat \ {0} /\ DOMAIN queue' \subseteq Nat \ {0}
           /\ \A i \in DOMAIN queue' : i + 1 \in DOMAIN queue /\ queue'[i] = queue[i + 1]
           /\ \A i \in DOMAIN queue : i # 1 =>
                 i - 1 \in DOMAIN queue' /\ queue'[i - 1] = queue[i] /\ (i - 1) + 1 = i
           /\ \A m \in Nodes : m # n \/ ~Matched(1, n) => results'[KeyOf(m)] = results[KeyOf(m)]
           /\ \A d \in AllDirs :
                 \/ wd'[d] = wd[d] /\ kernelWd'[d] = kernelWd[d]
                 \/ /\ d = n /\ n \in Dirs /\ Matched(1, n) /\ wd'[d] = 0 /\ kernelWd'[d] = 0
                    /\ \/ event = "delete"
                       \/ event = "create" /\ CreatedAgain(n, results[KeyOf(n)])
           /\ Matched(1, n) =>
                 /\ results'[KeyOf(n)] # NoResult /\ ~results'[KeyOf(n)].immediate
                 /\ Exists(results'[KeyOf(n)]) <=> event # "delete"
           /\ \/ /\ Calls' = {}
                 /\ ~(n \in Dirs /\ Matched(1, n) /\ event = "create" /\ Parent[n] \notin Leaves)
              \/ /\ n \in Dirs /\ Matched(1, n) /\ event = "create"
                 /\ Calls' = {Call(n, IF wd'[n] = 0 THEN "watch" ELSE "open")}
                 /\ \/ wd'[n] = 0
                    \/ /\ ~CreatedAgain(n, results[KeyOf(n)])
                       /\ wd'[n] = wd[n] /\ kernelWd'[n] = kernelWd[n]
    BY ReadRoot
  <1>2. /\ RemovalInv /\ OrderInv /\ CreateInv /\ GoneInv /\ SeveredInv /\ ConfirmedInv /\ AnewInv
        /\ Dirs \subseteq Nodes /\ Dirs \subseteq AllDirs /\ \A m \in Nodes : Parent[m] \in AllDirs
        /\ \A i \in DOMAIN queue : queue[i].wd # 0
    BY ParentDir DEF QueueInv, CalmInv, DescriptorInv, Nodes, AllDirs
  <1>3. PICK read : read = (n \in Dirs /\ Matched(1, n))
    OBVIOUS
  <1>4. read =>
           /\ \A i \in DOMAIN queue : i # 1 /\ queue[i].name = n => queue[i].act # "create"
           /\ event = "create" => ~Confirmed(n) /\ \A p \in Below(n) \cap Dirs : ~Confirmed(p)
           /\ event = "delete" =>
                 /\ ~disk[n]
                 /\ \A m \in Dirs : Parent[m] = n => ~disk[m] /\ Quiet(m) /\ ~Confirmed(m)
           /\ ~disk[n] /\ event # "delete" =>
                 \E k \in DOMAIN queue : k # 1 /\ Matched(k, n) /\ queue[k].act = "delete"
           /\ disk[n] => kernelWd[Parent[n]] # 0
    BY <1>1, <1>2, <1>3, HeadOfQueue
  <1>5. n \in Dirs => Parent[n] # n
    BY NotBelowItself
  <1>6. \A m \in Dirs : m # n \/ ~read => (Confirmed(m)' <=> Confirmed(m)) /\ ~Matched(1, m)
    <2>1. \A m \in Dirs : m # n \/ ~read => results'[KeyOf(m)] = results[KeyOf(m)]
      BY <1>1, <1>2, <1>3
    <2>2. \A m \in Dirs : m # n \/ ~read => ~Matched(1, m)
      BY <1>1, <1>3 DEF Matched
    <2>3. QED
      BY <2>1, <2>2 DEF Confirmed
  <1>7. ASSUME NEW m \in Nodes
        PROVE  \A i \in DOMAIN queue' : Matched(i, m)' => Matched(i + 1, m) /\ wd'[Parent[m]] = wd[Parent[m]]
    <2>1. wd'[Parent[m]] = 0 \/ wd'[Parent[m]] = wd[Parent[m]]
      BY <1>1, <1>2
    <2>2. QED
      BY <1>1, <1>2, <2>1, ReadOn
  <1>8. ASSUME NEW m \in Nodes, wd'[Parent[m]] = wd[Parent[m]], NEW i \in DOMAIN queue, i # 1, Matched(i, m)
        PROVE  i - 1 \in DOMAIN queue' /\ queue'[i - 1] = queue[i] /\ (i - 1) + 1 = i /\ Matched(i - 1, m)'
    BY <1>1, <1>8 DEF Matched
  <1>9. ASSUME NEW m \in Dirs
        PROVE  \/ wd'[Parent[m]] = wd[Parent[m]] /\ kernelWd'[Parent[m]] = kernelWd[Parent[m]]
               \/ Quiet(m)' /\ ~Confirmed(m) /\ ~Confirmed(m)'
    <2>1. SUFFICES ASSUME ~(wd'[Parent[m]] = wd[Parent[m]] /\ kernelWd'[Parent[m]] = kernelWd[Parent[m]])
                   PROVE  Quiet(m)' /\ ~Confirmed(m) /\ ~Confirmed(m)'
      OBVIOUS
    <2>2. Parent[m] = n /\ read /\ wd'[n] = 0 /\ event \in {"create", "delete"}
      BY <1>1, <1>2, <1>3, <2>1
    <2>3. Quiet(m)'
      <3>1. SUFFICES ASSUME NEW i \in DOMAIN queue', Matched(i, m)' PROVE FALSE
        BY DEF Quiet
      <3>2. queue'[i].wd = 0
        BY <2>2, <3>1 DEF Matched
      <3>3. QED
        BY <1>1, <1>2, <3>1, <3>2
    <2>4. ~Confirmed(m)
      <3>1. m \in Below(n)
        BY <1>2, <2>2, BelowClosed
      <3>2. QED
        BY <1>4, <2>2, <3>1
    <2>5. QED
      BY <1>5, <1>6, <2>2, <2>3, <2>4
  <1>10. read => wd'[Parent[n]] = wd[Parent[n]] /\ kernelWd'[Parent[n]] = kernelWd[Parent[n]]
    BY <1>1, <1>2, <1>3, <1>5
  <1>11. RemovalInv'
    BY <1>1, <1>2 DEF RemovalInv
  <1>12. CreateInv'
    <2>1. SUFFICES ASSUME NEW i \in DOMAIN queue', NEW j \in DOMAIN queue',
                          queue'[i].name \in Dirs, queue'[i].act = "create", queue'[j].name = queue'[i].name
                   PROVE  i <= j
      BY DEF CreateInv
    <2>2. /\ i + 1 \in DOMAIN queue /\ queue'[i] = queue[i + 1]
          /\ j + 1 \in DOMAIN queue /\ queue'[j] = queue[j + 1]
      BY <1>1
    <2>3. i + 1 <= j + 1
      BY <1>2, <2>1, <2>2 DEF CreateInv
    <2>4. i \in Nat /\ j \in Nat
      BY <1>1
    <2>5. QED
      BY <2>3, <2>4
  <1>13. OrderInv'
    <2>1. SUFFICES ASSUME NEW i \in DOMAIN queue', NEW j \in DOMAIN queue', NEW d \in Dirs,
                          d = queue'[i].name, queue'[i].act = "delete",
                          Parent[queue'[j].name] = d, queue'[j].wd = wd'[d]
                   PROVE  j < i
      BY DEF OrderInv
    <2>2. /\ i + 1 \in DOMAIN queue /\ queue'[i] = queue[i + 1]
          /\ j + 1 \in DOMAIN queue /\ queue'[j] = queue[j + 1]
      BY <1>1
    <2>3. wd'[d] = wd[d]
      BY <1>1, <1>2, <2>1, <2>2
    <2>4. j + 1 < i + 1
      BY <1>2, <2>1, <2>2, <2>3 DEF OrderInv
    <2>5. i \in Nat /\ j \in Nat
      BY <1>1
    <2>6. QED
      BY <2>4, <2>5
  <1>14. GoneInv'
    <2>1. SUFFICES ASSUME NEW d \in Dirs, ~disk[d], NEW j \in DOMAIN queue', Matched(j, d)'
                   PROVE  \E k \in DOMAIN queue' : j <= k /\ Matched(k, d)' /\ queue'[k].act = "delete"
      BY <1>1 DEF GoneInv
    <2>2. d \in Nodes /\ j + 1 \in DOMAIN queue /\ j \in Nat \ {0}
      BY <1>1, <1>2
    <2>3. Matched(j + 1, d) /\ wd'[Parent[d]] = wd[Parent[d]]
      BY <1>7, <2>1, <2>2
    <2>4. PICK k \in DOMAIN queue : j + 1 <= k /\ Matched(k, d) /\ queue[k].act = "delete"
      BY <1>2, <2>1, <2>2, <2>3 DEF GoneInv
    <2>5. k # 1 /\ k \in Nat /\ j <= k - 1
      BY <1>1, <2>2, <2>4
    <2>6. k - 1 \in DOMAIN queue' /\ queue'[k - 1] = queue[k] /\ Matched(k - 1, d)'
      BY <1>8, <2>2, <2>3, <2>4, <2>5
    <2>7. QED
      BY <2>4, <2>5, <2>6
  <1>15. SeveredInv'
    <2>1. SUFFICES ASSUME NEW d \in Dirs, disk[d], kernelWd'[Parent[d]] = 0
                   PROVE  Quiet(d)' /\ ~Confirmed(d)'
      BY <1>1 DEF SeveredInv
    <2>2. SUFFICES ASSUME kernelWd[Parent[d]] = 0 PROVE Quiet(d)' /\ ~Confirmed(d)'
      BY <1>9, <2>1
    <2>3. Quiet(d) /\ ~Confirmed(d)
      BY <1>2, <2>1, <2>2 DEF SeveredInv
    <2>4. Quiet(d)'
      BY <1>1, <1>2, <1>7, <2>3 DEF Quiet
    <2>5. ~Confirmed(d)'
      BY <1>4, <1>6, <2>1, <2>2, <2>3
    <2>6. QED
      BY <2>4, <2>5
  <1>16. ConfirmedInv'
    <2>1. SUFFICES ASSUME NEW d \in Dirs, Confirmed(d)'
                   PROVE  /\ ~disk[d] => \E i \in DOMAIN queue' : Matched(i, d)' /\ queue'[i].act = "delete"
                          /\ \A i \in DOMAIN queue' : Matched(i, d)' => queue'[i].act # "create"
      BY <1>1 DEF ConfirmedInv, Going
    <2>2. wd'[Parent[d]] = wd[Parent[d]] /\ d \in Nodes
      BY <1>2, <1>9, <2>1
    <2>3. CASE d = n /\ read
      <3>1. event # "delete"
        BY <1>1, <1>3, <2>1, <2>3 DEF Confirmed
      <3>2. ~disk[d] => \E k \in DOMAIN queue : k # 1 /\ Matched(k, d) /\ queue[k].act = "delete"
        BY <1>4, <2>3, <3>1
      <3>3. ~disk[d] => \E i \in DOMAIN queue' : Matched(i, d)' /\ queue'[i].act = "delete"
        BY <1>8, <2>2, <3>2
      <3>4. ASSUME NEW i \in DOMAIN queue', Matched(i, d)' PROVE queue'[i].act # "create"
        <4>1. i + 1 \in DOMAIN queue /\ queue'[i] = queue[i + 1] /\ i + 1 # 1 /\ queue[i + 1].name = d
          BY <1>1, <3>4 DEF Matched
        <4>2. QED
          BY <1>4, <2>3, <4>1
      <3>5. QED
        BY <3>3, <3>4
    <2>4. CASE d # n \/ ~read
      <3>1. Confirmed(d) /\ ~Matched(1, d)
        BY <1>6, <2>1, <2>4
      <3>2. /\ ~disk[d] => \E i \in DOMAIN queue : Matched(i, d) /\ queue[i].act = "delete"
            /\ \A i \in DOMAIN queue : Matched(i, d) => queue[i].act # "create"
        BY <1>2, <3>1 DEF ConfirmedInv, Going
      <3>3. ~disk[d] => \E i \in DOMAIN queue' : Matched(i, d)' /\ queue'[i].act = "delete"
        BY <1>8, <2>2, <3>1, <3>2
      <3>4. \A i \in DOMAIN queue' : Matched(i, d)' => queue'[i].act # "create"
        BY <1>1, <1>7, <2>2, <3>2
      <3>5. QED
        BY <3>3, <3>4
    <2>5. QED
      BY <2>3, <2>4
  <1>17. AnewInv'
    <2>1. SUFFICES ASSUME NEW i \in DOMAIN queue', queue'[i].name \in Dirs, queue'[i].act = "create",
                          NEW p \in Below(queue'[i].name) \cap Dirs
                   PROVE  /\ \A j \in DOMAIN queue' : j < i /\ Matched(j, p)' =>
                                \E k \in DOMAIN queue' : j <= k /\ k < i /\ Matched(k, p)' /\ queue'[k].act = "delete"
                          /\ Confirmed(p)' => \E k \in DOMAIN queue' : k < i /\ Matched(k, p)' /\ queue'[k].act = "delete"
      BY DEF AnewInv
    <2>2. i + 1 \in DOMAIN queue /\ queue'[i] = queue[i + 1] /\ i \in Nat \ {0} /\ p \in Nodes
      BY <1>1, <1>2
    <2>3. /\ \A j \in DOMAIN queue : j < i + 1 /\ Matched(j, p) =>
                \E k \in DOMAIN queue : j <= k /\ k < i + 1 /\ Matched(k, p) /\ queue[k].act = "delete"
          /\ Confirmed(p) => \E k \in DOMAIN queue : k < i + 1 /\ Matched(k, p) /\ queue[k].act = "delete"
      BY <1>2, <2>1, <2>2 DEF AnewInv
    <2>4. ASSUME NEW j \in DOMAIN queue', j < i, Matched(j, p)'
          PROVE  \E k \in DOMAIN queue' : j <= k /\ k < i /\ Matched(k, p)' /\ queue'[k].act = "delete"
      <3>1. j + 1 \in DOMAIN queue /\ Matched(j + 1, p) /\ wd'[Parent[p]] = wd[Parent[p]] /\ j \in Nat \ {0}
        BY <1>1, <1>7, <2>2, <2>4
      <3>2. PICK k \in DOMAIN queue : j + 1 <= k /\ k < i + 1 /\ Matched(k, p) /\ queue[k].act = "delete"
        <4>1. j + 1 < i + 1
          BY <2>2, <2>4, <3>1
        <4>2. QED
          BY <2>3, <3>1, <4>1
      <3>3. k # 1 /\ j <= k - 1 /\ k - 1 < i
        BY <1>1, <2>2, <3>1, <3>2
      <3>4. k - 1 \in DOMAIN queue' /\ queue'[k - 1] = queue[k] /\ Matched(k - 1, p)'
        BY <1>8, <2>2, <3>1, <3>2, <3>3
      <3>5. QED
        BY <3>2, <3>3, <3>4
    <2>5. ASSUME Confirmed(p)'
          PROVE  \E k \in DOMAIN queue' : k < i /\ Matched(k, p)' /\ queue'[k].act = "delete"
      <3>1. wd'[Parent[p]] = wd[Parent[p]]
        BY <1>9, <2>5
      <3>2. PICK k \in DOMAIN queue : k # 1 /\ k < i + 1 /\ Matched(k, p) /\ queue[k].act = "delete"
        <4>1. CASE p = n /\ read
          <5>1. 1 \in DOMAIN queue /\ 1 < i + 1 /\ Matched(1, p)
            <6>1. 1 \in DOMAIN queue /\ Matched(1, p)
              BY <1>1, <1>3, <4>1
            <6>2. 1 < i + 1
              BY <2>2
            <6>3. QED
              BY <6>1, <6>2
          <5>2. PICK k \in DOMAIN queue : k < i + 1 /\ Matched(k, p) /\ queue[k].act = "delete"
            BY <2>3, <5>1
          <5>3. queue[1].act # "delete"
            BY <1>1, <1>3, <2>5, <4>1 DEF Confirmed
          <5>4. QED
            BY <5>2, <5>3
        <4>2. CASE p # n \/ ~read
          BY <1>6, <2>3, <2>5, <4>2
        <4>3. QED
          BY <4>1, <4>2
      <3>3. k - 1 < i
        BY <1>1, <2>2, <3>2
      <3>4. k - 1 \in DOMAIN queue' /\ queue'[k - 1] = queue[k] /\ Matched(k - 1, p)'
        BY <1>8, <2>2, <3>1, <3>2
      <3>5. QED
        BY <3>2, <3>3, <3>4
    <2>6. QED
      BY <2>4, <2>5
  <1>18. QED
    BY <1>11, <1>12, <1>13, <1>14, <1>15, <1>16, <1>17 DEF QueueInv

LEMMA DispatchFound ==
    ASSUME CalmInv, QueueInv, FoundInv, IsRoot, Dispatch PROVE FoundInv'
  <1>1. PICK n \in Nodes, event \in Action :
           /\ phase = "running" /\ Calls = {} /\ UNCHANGED <<phase, disk>>
           /\ 1 \in DOMAIN queue /\ queue[1].name = n /\ queue[1].act = event
           /\ DOMAIN queue \subseteq Nat \ {0} /\ DOMAIN queue' \subseteq Nat \ {0}
           /\ \A i \in DOMAIN queue' : i + 1 \in DOMAIN queue /\ queue'[i] = queue[i + 1]
           /\ \A i \in DOMAIN queue : i # 1 =>
                 i - 1 \in DOMAIN queue' /\ queue'[i - 1] = queue[i] /\ (i - 1) + 1 = i
           /\ \A m \in Nodes : m # n \/ ~Matched(1, n) => results'[KeyOf(m)] = results[KeyOf(m)]
           /\ \A d \in AllDirs :
                 \/ wd'[d] = wd[d] /\ kernelWd'[d] = kernelWd[d]
                 \/ /\ d = n /\ n \in Dirs /\ Matched(1, n) /\ wd'[d] = 0 /\ kernelWd'[d] = 0
                    /\ \/ event = "delete"
                       \/ event = "create" /\ CreatedAgain(n, results[KeyOf(n)])
           /\ Matched(1, n) =>
                 /\ results'[KeyOf(n)] # NoResult /\ ~results'[KeyOf(n)].immediate
                 /\ Exists(results'[KeyOf(n)]) <=> event # "delete"
           /\ \/ /\ Calls' = {}
                 /\ ~(n \in Dirs /\ Matched(1, n) /\ event = "create" /\ Parent[n] \notin Leaves)
              \/ /\ n \in Dirs /\ Matched(1, n) /\ event = "create"
                 /\ Calls' = {Call(n, IF wd'[n] = 0 THEN "watch" ELSE "open")}
                 /\ \/ wd'[n] = 0
                    \/ /\ ~CreatedAgain(n, results[KeyOf(n)])
                       /\ wd'[n] = wd[n] /\ kernelWd'[n] = kernelWd[n]
    BY ReadRoot
  <1>2. /\ NewsInv /\ ListedInv /\ ScannedInv /\ ComingInv /\ RemovalInv /\ OrderInv
        /\ Dirs \subseteq Nodes /\ Dirs \subseteq AllDirs /\ \A m \in Nodes : Parent[m] \in AllDirs
        /\ n \in Dirs => Parent[n] # n
    BY ParentDir, NotBelowItself DEF FoundInv, QueueInv, Nodes, AllDirs
  <1>3. PICK read : read = (n \in Dirs /\ Matched(1, n))
    OBVIOUS
  <1>4. read =>
           /\ event = "create" => ~Confirmed(n) /\ \A p \in Below(n) \cap Dirs : ~Confirmed(p)
           /\ event = "delete" =>
                 /\ ~disk[n]
                 /\ \A m \in Dirs : Parent[m] = n => ~disk[m] /\ Quiet(m) /\ ~Confirmed(m)
           /\ ~disk[n] /\ event # "delete" =>
                 \E k \in DOMAIN queue : k # 1 /\ Matched(k, n) /\ queue[k].act = "delete"
           /\ disk[n] => kernelWd[Parent[n]] # 0
    BY <1>1, <1>3, HeadOfQueue
  <1>5. PICK g : g = Call(n, IF wd'[n] = 0 THEN "watch" ELSE "open")
    OBVIOUS
  <1>6. g.dir = n /\ g.stage = (IF wd'[n] = 0 THEN "watch" ELSE "open")
    BY <1>5 DEF Call
  <1>7. \/ Calls' = {} /\ ~(read /\ event = "create" /\ Parent[n] \notin Leaves)
        \/ /\ read /\ event = "create" /\ Calls' = {g}
           /\ \/ wd'[n] = 0
              \/ /\ ~CreatedAgain(n, results[KeyOf(n)])
                 /\ wd'[n] = wd[n] /\ kernelWd'[n] = kernelWd[n]
    BY <1>1, <1>3, <1>5
  <1>8. read => results'[KeyOf(n)] # NoResult /\ ~Scanned(n)'
    BY <1>1, <1>3 DEF Scanned
  <1>9. \A m \in Dirs : m # n \/ ~read =>
           /\ (Confirmed(m)' <=> Confirmed(m)) /\ (Scanned(m)' <=> Scanned(m))
           /\ ~Matched(1, m) /\ wd'[m] = wd[m] /\ kernelWd'[m] = kernelWd[m]
    <2>1. \A m \in Dirs : m # n \/ ~read => results'[KeyOf(m)] = results[KeyOf(m)]
      BY <1>1, <1>2, <1>3
    <2>2. \A m \in Dirs : m # n \/ ~read => ~Matched(1, m)
      BY <1>1, <1>3 DEF Matched
    <2>3. \A m \in Dirs : m # n \/ ~read => wd'[m] = wd[m] /\ kernelWd'[m] = kernelWd[m]
      BY <1>1, <1>2, <1>3
    <2>4. QED
      BY <2>1, <2>2, <2>3 DEF Confirmed, Scanned
  <1>10. ASSUME NEW m \in Nodes, wd'[Parent[m]] = wd[Parent[m]], NEW i \in DOMAIN queue, i # 1, Matched(i, m)
         PROVE  i - 1 \in DOMAIN queue' /\ queue'[i - 1] = queue[i] /\ Matched(i - 1, m)'
    BY <1>1, <1>10 DEF Matched
  <1>11. \A d \in AllDirs :
            \/ wd'[d] = wd[d] /\ kernelWd'[d] = kernelWd[d]
            \/ /\ d = n /\ read /\ wd'[d] = 0 /\ kernelWd'[d] = 0
               /\ \/ event = "delete"
                  \/ event = "create" /\ CreatedAgain(n, results[KeyOf(n)])
    BY <1>1, <1>3
  <1>12. ASSUME Calls' = {g}, read, disk[n], wd'[n] # 0 PROVE kernelWd'[n] # 0
    <2>1. SUFFICES ASSUME wd[n] # 0, kernelWd[n] = 0, ~CreatedAgain(n, results[KeyOf(n)]) PROVE FALSE
      BY <1>7, <1>12
    <2>2. n \in Dirs
      BY <1>3, <1>12
    <2>3. toWatch[n] = "exists"
      BY <1>2, <2>1, <2>2 DEF CalmInv, WatchInv, AssertionsHold
    <2>4. Scanned(n)
      BY <2>1, <2>3 DEF CreatedAgain, Scanned
    <2>5. Going(n)
      BY <1>2, <2>1, <2>2, <2>4 DEF ScannedInv
    <2>6. QED
      BY <1>2, <1>12, <2>2, <2>5 DEF Going, RemovalInv, Matched
  <1>13. NewsInv'
    <2>1. ASSUME NEW c \in Calls'
          PROVE  /\ c.dir \in Dirs /\ results'[KeyOf(c.dir)] # NoResult
                 /\ \A p \in Below(c.dir) \cap Dirs : ~Confirmed(p)'
      <3>1. c.dir = n /\ read /\ event = "create"
        BY <1>6, <1>7, <2>1
      <3>2. n \in Dirs /\ n \notin Below(n)
        BY <1>3, <3>1, NotBelowItself
      <3>3. QED
        BY <1>4, <1>8, <1>9, <3>1, <3>2
    <2>2. ASSUME NEW d \in Dirs, Parent[d] \in Dirs, results'[KeyOf(Parent[d])] = NoResult
          PROVE  ~Scanned(d)'
      <3>1. Parent[d] # n \/ ~Matched(1, n)
        BY <1>1, <2>2
      <3>2. results[KeyOf(Parent[d])] = NoResult
        BY <1>1, <1>2, <2>2, <3>1
      <3>3. ~Scanned(d)
        BY <1>2, <2>2, <3>2 DEF NewsInv
      <3>4. QED
        BY <1>8, <1>9, <3>3
    <2>3. QED
      BY <2>1, <2>2 DEF NewsInv
  <1>14. ListedInv'
    <2>1. SUFFICES ASSUME NEW c \in Calls'
                   PROVE  \/ \E i \in DOMAIN queue' : queue'[i].name = c.dir /\ queue'[i].act = "delete"
                          \/ disk[c.dir] /\ kernelWd'[Parent[c.dir]] # 0 /\ (c.stage # "watch" => kernelWd'[c.dir] # 0)
      BY <1>1 DEF ListedInv
    <2>2. c = g /\ Calls' = {g} /\ read /\ event = "create"
      BY <1>7, <2>1
    <2>3. CASE ~disk[n]
      <3>1. PICK k \in DOMAIN queue : k # 1 /\ Matched(k, n) /\ queue[k].act = "delete"
        BY <1>4, <2>2, <2>3
      <3>2. k - 1 \in DOMAIN queue' /\ queue'[k - 1] = queue[k] /\ queue[k].name = n
        BY <1>1, <3>1 DEF Matched
      <3>3. QED
        BY <1>6, <2>2, <3>1, <3>2
    <2>4. CASE disk[n]
      <3>1. kernelWd'[Parent[n]] # 0
        <4>1. n \in Nodes /\ Parent[n] \in AllDirs /\ Parent[n] # n
          BY <1>2, <1>3, <2>2
        <4>2. kernelWd'[Parent[n]] = kernelWd[Parent[n]]
          BY <1>11, <4>1
        <4>3. QED
          BY <1>4, <2>2, <2>4, <4>2
      <3>2. g.stage # "watch" => kernelWd'[n] # 0
        BY <1>6, <1>12, <2>2, <2>4
      <3>3. QED
        BY <1>6, <2>2, <2>4, <3>1, <3>2
    <2>5. QED
      BY <2>3, <2>4
  <1>15. ASSUME NEW m \in Dirs, Scanned(m)
         PROVE  \/ wd'[Parent[m]] = wd[Parent[m]] /\ kernelWd'[Parent[m]] = kernelWd[Parent[m]]
                \/ kernelWd[m] = 0 /\ wd[m] = 0
    <2>1. SUFFICES ASSUME Parent[m] = n, read,
                          event = "delete" \/ (event = "create" /\ CreatedAgain(n, results[KeyOf(n)]))
                   PROVE  kernelWd[m] = 0 /\ wd[m] = 0
      BY <1>2, <1>11
    <2>2. n \in Dirs
      BY <1>3, <2>1
    <2>3. CASE event = "delete"
      <3>1. ~disk[m] /\ Quiet(m)
        BY <1>4, <2>1, <2>3
      <3>2. kernelWd[m] = 0
        BY <3>1 DEF CalmInv, DiskInv
      <3>3. wd[m] # 0 => Going(m)
        BY <1>2, <1>15, <3>2 DEF ScannedInv
      <3>4. QED
        BY <3>1, <3>2, <3>3 DEF Going, Quiet
    <2>4. CASE event = "create" /\ CreatedAgain(n, results[KeyOf(n)])
      <3>1. ~Confirmed(n)
        BY <1>4, <2>1, <2>4
      <3>2. results[KeyOf(n)] = NoResult
        BY <2>2, <2>4, <3>1 DEF CreatedAgain, Confirmed, CalmInv, WatchInv, AssertionsHold
      <3>3. ~Scanned(m)
        BY <1>2, <2>1, <2>2, <3>2 DEF NewsInv
      <3>4. QED
        BY <1>15, <3>3
    <2>5. QED
      BY <2>1, <2>3, <2>4
  <1>16. ScannedInv'
    <2>1. SUFFICES ASSUME NEW m \in Dirs, Scanned(m)'
                   PROVE  /\ kernelWd'[m] # 0 => kernelWd'[Parent[m]] # 0
                          /\ wd'[m] # 0 /\ kernelWd'[m] = 0 => Going(m)'
      BY DEF ScannedInv
    <2>2. m # n \/ ~read
      BY <1>8, <2>1
    <2>3. Scanned(m) /\ ~Matched(1, m) /\ wd'[m] = wd[m] /\ kernelWd'[m] = kernelWd[m]
      BY <1>9, <2>1, <2>2
    <2>4. /\ kernelWd[m] # 0 => kernelWd[Parent[m]] # 0
          /\ wd[m] # 0 /\ kernelWd[m] = 0 => Going(m)
      BY <1>2, <2>3 DEF ScannedInv
    <2>5. SUFFICES ASSUME wd'[Parent[m]] = wd[Parent[m]], kernelWd'[Parent[m]] = kernelWd[Parent[m]]
                   PROVE  Going(m) => Going(m)'
      BY <1>15, <2>3, <2>4
    <2>6. QED
      BY <1>2, <1>10, <2>3, <2>5 DEF Going
  <1>17. ComingInv'
    <2>1. SUFFICES ASSUME NEW d \in Dirs, InZone(d), disk[d], kernelWd'[d] = 0, kernelWd'[Parent[d]] # 0
                   PROVE  \/ \E f \in Calls' : WillWatch(f, d)
                          \/ \E i \in DOMAIN queue' : Matched(i, d)' /\ queue'[i].act = "create"
      BY <1>1 DEF ComingInv, InZone
    <2>2. wd'[Parent[d]] = wd[Parent[d]] /\ kernelWd[Parent[d]] # 0 /\ d \in Nodes
      BY <1>2, <1>11, <2>1
    <2>3. CASE d = n /\ read /\ event = "create"
      <3>1. Parent[n] \notin Leaves
        BY <1>2, <2>1, <2>3, KindsAssumption DEF InZone
      <3>2. Calls' = {g}
        BY <1>7, <2>3, <3>1
      <3>3. wd'[n] = 0
        BY <1>12, <2>1, <2>3, <3>2
      <3>4. WillWatch(g, n)
        BY <1>6, <3>3 DEF WillWatch
      <3>5. QED
        BY <2>3, <3>2, <3>4
    <2>4. CASE ~(d = n /\ read /\ event = "create")
      <3>1. kernelWd[d] = 0 /\ ~(Matched(1, d) /\ queue[1].act = "create")
        <4>1. CASE d = n /\ read
          <5>1. event \notin {"create", "delete"}
            BY <1>4, <2>1, <2>4, <4>1
          <5>2. kernelWd'[d] = kernelWd[d]
            BY <1>2, <1>11, <5>1
          <5>3. QED
            BY <1>1, <2>1, <5>1, <5>2
        <4>2. CASE d # n \/ ~read
          BY <1>9, <2>1, <4>2
        <4>3. QED
          BY <4>1, <4>2
      <3>2. PICK i \in DOMAIN queue : Matched(i, d) /\ queue[i].act = "create"
        BY <1>1, <1>2, <2>1, <2>2, <3>1 DEF ComingInv
      <3>3. i - 1 \in DOMAIN queue' /\ queue'[i - 1] = queue[i] /\ Matched(i - 1, d)'
        BY <1>10, <2>2, <3>1, <3>2
      <3>4. QED
        BY <3>2, <3>3
    <2>5. QED
      BY <2>3, <2>4
  <1>18. QED
    BY <1>13, <1>14, <1>16, <1>17 DEF FoundInv

-----------------------------------------------------------------------------
(* Every step.                                                               *)

(* A scan comes to a file, or to a directory that has vanished: nothing is     *)
(* learnt of any directory.                                                 *)
LEMMA DiscoverNone ==
    ASSUME CalmInv, TypeOK', NEW n \in Nodes, n \notin Dirs \/ ~disk[n], Discover(n)
    PROVE  /\ QueueInv => QueueInv'
           /\ FoundInv => FoundInv'
  <1>1. /\ Top.stage = "walk" /\ n \in Top.names /\ stack # <<>>
        /\ UNCHANGED <<queue, disk, kernelWd, wd, phase>>
        /\ Calls' = {Done(n)} \cup RestCalls
        /\ \A m \in Nodes : m # n => results'[KeyOf(m)] = results[KeyOf(m)]
        /\ n \in Dirs => results'[KeyOf(n)] = results[KeyOf(n)]
    BY DiscoverShape
  <1>2. \A d \in Dirs : results'[KeyOf(d)] = results[KeyOf(d)]
    BY <1>1 DEF Nodes
  <1>3. QueueInv => QueueInv'
    BY <1>1, <1>2, SameQueueInv
  <1>4. FoundInv => FoundInv'
    BY <1>1, <1>2, DoneFound
  <1>5. QED
    BY <1>3, <1>4

(* What is lost or hasty stays so.                                            *)
LEMMA SteadyBefore == ASSUME CalmInv, [Next]_vars, Steady' PROVE Steady
  <1>1. SUFFICES (lost => lost') /\ (hasty => hasty')
    BY DEF Steady
  <1>2. CASE Environment
    <2>1. TypeOK
      BY DEF CalmInv, WatchInv
    <2>2. PICK n \in Nodes, act \in Action : Notify(n, act)
      BY <1>2, <2>1, EnvironmentAlters DEF Alters
    <2>3. lost => lost'
      BY <2>2 DEF Notify
    <2>4. hasty => hasty'
      BY <1>2, <2>1, EnvironmentAlters
    <2>5. QED
      BY <2>3, <2>4
  <1>3. CASE AddWatch \/ OpenDirectory \/ EndNames \/ EndSetup
    BY <1>3 DEF AddWatch, OpenDirectory, EndNames, EndSetup, files, inotify
  <1>4. ASSUME NEW n \in Nodes, Remember(n) \/ SetUp(n) \/ Discover(n) PROVE UNCHANGED <<lost, hasty>>
    BY <1>4 DEF Remember, SetUp, Discover, files, inotify
  <1>5. CASE Dispatch
    BY <1>5 DEF Dispatch, files
  <1>6. CASE UNCHANGED vars
    BY <1>6 DEF vars, files, inotify
  <1>7. QED
    BY <1>2, <1>3, <1>4, <1>5, <1>6 DEF Next, Listing

LEMMA SteadyStep == ASSUME SteadyInv, [Next]_vars PROVE SteadyInv'
  <1>1. CalmInv /\ CalmInv' /\ TypeOK' /\ Chained(stack)
    BY CalmStep DEF SteadyInv, CalmInv, WatchInv
  <1>2. Chained(stack')
    BY <1>1, ChainedStep
  <1>3. SUFFICES ASSUME Steady' PROVE QueueInv' /\ FoundInv'
    BY <1>1, <1>2 DEF SteadyInv
  <1>4. QueueInv /\ FoundInv /\ IsRoot
    BY <1>1, <1>3, SteadyBefore DEF SteadyInv, Steady
  <1>5. CASE Environment
    BY <1>1, <1>3, <1>4, <1>5, EnvironmentQueue, EnvironmentFound
  <1>6. CASE AddWatch
    BY <1>1, <1>4, <1>6, AddWatchQueue, AddWatchFound
  <1>7. CASE OpenDirectory \/ EndNames \/ EndSetup
    <2>1. UNCHANGED <<disk, kernelWd, queue, wd, results>>
      BY <1>7 DEF OpenDirectory, EndNames, EndSetup, files, inotify, tree, model
    <2>2. QueueInv'
      BY <1>1, <1>4, <2>1, SameQueueInv
    <2>3. FoundInv'
      BY <1>1, <1>4, <1>7, OpenDirectoryFound, EndNamesFound, EndSetupFound
    <2>4. QED
      BY <2>2, <2>3
  <1>8. ASSUME NEW n \in Nodes, Remember(n) \/ SetUp(n) PROVE QueueInv' /\ FoundInv'
    <2>1. UNCHANGED <<disk, kernelWd, queue, wd, results>>
      BY <1>8 DEF Remember, SetUp, files, inotify, tree, model
    <2>2. QueueInv'
      BY <1>1, <1>4, <2>1, SameQueueInv
    <2>3. FoundInv'
      BY <1>1, <1>4, <1>8, RememberFound, SetUpFound
    <2>4. QED
      BY <2>2, <2>3
  <1>9. ASSUME NEW n \in Nodes, Discover(n) PROVE QueueInv' /\ FoundInv'
    <2>1. CASE n \in Dirs /\ disk[n]
      <3>1. QueueInv'
        BY <1>1, <1>4, <1>9, <2>1, DiscoverQueue DEF FoundInv
      <3>2. FoundInv'
        BY <1>1, <1>4, <1>9, <2>1, DiscoverFound
      <3>3. QED
        BY <3>1, <3>2
    <2>2. CASE n \notin Dirs \/ ~disk[n]
      BY <1>1, <1>4, <1>9, <2>2, DiscoverNone
    <2>3. QED
      BY <2>1, <2>2
  <1>10. CASE Dispatch
    BY <1>1, <1>4, <1>10, DispatchQueue, DispatchFound
  <1>11. CASE UNCHANGED vars
    <2>1. UNCHANGED <<disk, kernelWd, queue, wd, results, phase, stack>> /\ Calls' = Calls
      BY <1>11 DEF vars, files, inotify, tree, model, Calls
    <2>2. QueueInv'
      BY <1>1, <1>4, <2>1, SameQueueInv
    <2>3. FoundInv'
      <3>1. \A f \in Calls : \E g \in Calls' : g = f
        BY <2>1
      <3>2. QED
        BY <1>1, <1>4, <2>1, <3>1, SameFound
    <2>4. QED
      BY <2>2, <2>3
  <1>12. QED
    BY <1>5, <1>6, <1>7, <1>8, <1>9, <1>10, <1>11 DEF Next, Listing

LEMMA InitSteady == ASSUME Init PROVE SteadyInv
  <1>1. CalmInv
    BY InitCalm
  <1>2. /\ queue = <<>> /\ DOMAIN queue = {} /\ phase = "setup" /\ stack = <<Call(Base, "list")>>
        /\ wd = [d \in AllDirs |-> IF d = Base THEN 1 ELSE 0]
    BY DEF Init
  <1>3. \A d \in Dirs : ~Confirmed(d) /\ ~Scanned(d)
    <2>1. \A d \in Dirs : results[KeyOf(d)] = NoResult
      BY KeyOfKey DEF Init, Nodes
    <2>2. QED
      BY <2>1, NoNews
  <1>4. Chained(stack)
    BY <1>2 DEF Chained
  <1>5. QueueInv
    BY <1>2, <1>3 DEF QueueInv, RemovalInv, OrderInv, CreateInv, GoneInv, SeveredInv, ConfirmedInv, AnewInv, Quiet
  <1>6. NewsInv /\ ListedInv /\ ScannedInv
    BY <1>2, <1>3 DEF NewsInv, ListedInv, ScannedInv
  <1>7. ComingInv
    <2>1. /\ Call(Base, "list") \in Calls
          /\ \A n \in Nodes : kernelWd[Parent[n]] # 0 => Parent[n] = Base
      BY <1>2, ParentDir DEF Init, Calls
    <2>2. \A d \in Dirs : Parent[d] = Base => WillWatch(Call(Base, "list"), d)
      BY DEF WillWatch, Call
    <2>3. QED
      BY <2>1, <2>2 DEF ComingInv, Nodes
  <1>8. QED
    BY <1>1, <1>4, <1>5, <1>6, <1>7 DEF SteadyInv, FoundInv

THEOREM SteadyInvariance == Spec => []SteadyInv
  BY InitSteady, SteadyStep, PTL DEF Spec

(* In any tree of directories and files, whatever inconsistencies were flagged  *)
(* and however many watches were given up for directories reported as created  *)
(* again: for root, once all events are handled, every existing directory of   *)
(* the zone has its ToWatchDir, which holds the kernel's watch on it, provided  *)
(* nothing was lost and no directory was made again before its removal was     *)
(* read.                                                                    *)
THEOREM WatchedCorrect == Spec => []EveryDirectoryWatched
  <1>1. SteadyInv => EveryDirectoryWatched
    <2>1. SUFFICES ASSUME SteadyInv, IsRoot, Settled, ~hasty, NEW d \in Dirs, InZone(d), disk[d]
                   PROVE  toWatch[d] = "exists" /\ wd[d] # 0 /\ wd[d] = kernelWd[d]
      BY DEF EveryDirectoryWatched
    <2>2. CalmInv /\ ComingInv
      BY <2>1 DEF SteadyInv, Steady, FoundInv, Settled
    <2>3. d \in AllDirs /\ Present(d)
      BY <2>1 DEF AllDirs, Present
    <2>4. kernelWd[d] # 0
      BY <2>1, <2>2, <2>3, AllWatched
    <2>5. QED
      BY <2>2, <2>3, <2>4 DEF CalmInv, WatchInv, AssertionsHold
  <1>2. QED
    BY <1>1, SteadyInvariance, PTL

=============================================================================
