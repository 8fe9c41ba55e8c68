----------------------------- MODULE FileMovesProofs -----------------------------
(***************************************************************************)
(* Proofs about FileMoves, for any set of names, any filter, any queue limit *)
(* and any number of renames.                                               *)
(***************************************************************************)
EXTENDS FileMoves, ResultLifeProofs

(* What a rename makes of the results of its two names.                     *)
LEMMA MovedResults ==
    ASSUME NEW r \in WatchedResult
    PROVE  /\ MovedFrom(r) \in WatchedResult /\ MovedTo(r) \in WatchedResult
           /\ MovedFrom(r) # NoResult /\ MovedTo(r) # NoResult
           /\ r # NoResult => ExistedAtStart(MovedFrom(r)) = ExistedAtStart(r)
           /\ r.inconsistent => MovedFrom(r).inconsistent /\ MovedTo(r).inconsistent
           /\ ExistedAtStart(MovedTo(r)) = ExistedAtStart(r)
  BY DEF MovedFrom, MovedTo, PresentType, GoneType, Exists, ExistedAtStart, WatchedResult,
         ResultType, NoResult

(* Renames change results into results.                                     *)
LEMMA RenamedType ==
    ASSUME NEW rs \in [Names -> WatchedResult], NEW from, NEW to
    PROVE  Renamed(rs, from, to) \in [Names -> WatchedResult]
  <1>1. \A n \in Names : (IF n \in from THEN MovedFrom(rs[n])
                          ELSE IF n \in to THEN MovedTo(rs[n]) ELSE rs[n]) \in WatchedResult
    BY MovedResults
  <1>2. QED
    BY <1>1 DEF Renamed

-----------------------------------------------------------------------------
(* The queue.                                                               *)

(* A posted event is appended, merged with the youngest one, or lost.        *)
LEMMA PostQueue ==
    ASSUME TypeOK, NEW e \in Event, Post(e)
    PROVE  /\ queue' \in Seq(Event)
           /\ lost' \in BOOLEAN
           /\ ~lost' => /\ ~lost
                        /\ \/ queue' = Append(queue, e)
                           \/ queue' = queue /\ Len(queue) > 0 /\ queue[Len(queue)] = e
  <1> DEFINE merged == queue # <<>> /\ Last(queue) = e
             full == Len(queue) >= MaxQueue
  <1>1. queue \in Seq(Event)
    BY DEF TypeOK
  <1>2. /\ queue' = IF merged \/ full THEN queue ELSE Append(queue, e)
        /\ lost' = (lost \/ (~merged /\ full))
    BY DEF Post
  <1>3. merged => Len(queue) > 0 /\ queue[Len(queue)] = e
    BY <1>1 DEF Last
  <1> HIDE DEF merged, full
  <1>4. queue' = queue \/ queue' = Append(queue, e)
    BY <1>2
  <1>5. queue' \in Seq(Event)
    BY <1>1, <1>4
  <1>6. lost' \in BOOLEAN
    BY <1>2
  <1>7. ~lost' => ~lost /\ (queue' = Append(queue, e) \/ (queue' = queue /\ merged))
    BY <1>2
  <1>8. QED
    BY <1>3, <1>5, <1>6, <1>7

(* The first event of a name after an event was posted is the first one       *)
(* before, or the posted one.                                               *)
LEMMA FirstAfterPost ==
    ASSUME TypeOK, NEW e \in Event, Post(e), ~lost', NEW n \in Names
    PROVE  /\ NothingQueued(n)' => n # e.name /\ NothingQueued(n)
           /\ \A i \in DOMAIN queue' : IsFirst(i, n)' =>
                 \/ i \in DOMAIN queue /\ IsFirst(i, n) /\ queue'[i] = queue[i]
                 \/ queue'[i] = e /\ n = e.name /\ NothingQueued(n)
  <1>1. queue \in Seq(Event)
    BY DEF TypeOK
  <1>2. CASE queue' = Append(queue, e)
    <2> PICK k \in Nat : k = Len(queue) + 1
      BY <1>1
    <2>1. /\ DOMAIN queue' = 1..k
          /\ queue'[k] = e
          /\ \A i \in 1..Len(queue) : queue'[i] = queue[i]
          /\ DOMAIN queue = 1..Len(queue) /\ Len(queue) \in Nat
      BY <1>1, <1>2
    <2>2. NothingQueued(n)' => n # e.name /\ NothingQueued(n)
      BY <2>1 DEF NothingQueued
    <2>3. ASSUME NEW i \in DOMAIN queue', IsFirst(i, n)', i # k
          PROVE  i \in DOMAIN queue /\ IsFirst(i, n) /\ queue'[i] = queue[i]
      BY <2>1, <2>3 DEF IsFirst
    <2>4. ASSUME IsFirst(k, n)'
          PROVE  n = e.name /\ NothingQueued(n)
      BY <2>1, <2>4 DEF IsFirst, NothingQueued
    <2>5. QED
      BY <2>1, <2>2, <2>3, <2>4
  <1>3. CASE queue' = queue /\ Len(queue) > 0 /\ queue[Len(queue)] = e
    BY <1>1, <1>3 DEF IsFirst, NothingQueued
  <1>4. QED
    BY <1>2, <1>3, PostQueue

(* Reading the oldest event: the first one of every other name stays first.   *)
LEMMA FirstAfterRead ==
    ASSUME TypeOK, queue # <<>>, queue' = Tail(queue), NEW n \in Names
    PROVE  /\ Head(queue) \in Event
           /\ queue' \in Seq(Event)
           /\ 1 \in DOMAIN queue /\ Head(queue) = queue[1] /\ IsFirst(1, Head(queue).name)
           /\ n # Head(queue).name => (NothingQueued(n)' => NothingQueued(n))
           /\ n # Head(queue).name => \A i \in DOMAIN queue' : IsFirst(i, n)' =>
                 i + 1 \in DOMAIN queue /\ IsFirst(i + 1, n) /\ queue'[i] = queue[i + 1]
  <1>1. queue \in Seq(Event) /\ Len(queue) \in Nat /\ Len(queue) > 0
    BY DEF TypeOK
  <1>2. /\ DOMAIN queue = 1..Len(queue)
        /\ DOMAIN queue' = 1..(Len(queue) - 1)
        /\ Head(queue) = queue[1]
        /\ \A i \in 1..(Len(queue) - 1) : queue'[i] = queue[i + 1]
    BY <1>1
  <1>3. Head(queue) \in Event /\ queue' \in Seq(Event)
    BY <1>1
  <1>4. 1 \in DOMAIN queue /\ IsFirst(1, Head(queue).name)
    BY <1>1, <1>2 DEF IsFirst
  <1>5. ASSUME n # Head(queue).name, NothingQueued(n)'
        PROVE  NothingQueued(n)
    <2>1. SUFFICES ASSUME NEW i \in 1..Len(queue) PROVE queue[i].name # n
      BY <1>2 DEF NothingQueued
    <2>2. CASE i = 1
      BY <1>2, <1>5, <2>2
    <2>3. CASE i # 1
      <3>1. i - 1 \in DOMAIN queue' /\ queue'[i - 1] = queue[i]
        BY <1>1, <1>2, <2>3
      <3>2. QED
        BY <1>5, <3>1 DEF NothingQueued
    <2>4. QED
      BY <2>2, <2>3
  <1>6. ASSUME n # Head(queue).name, NEW i \in DOMAIN queue', IsFirst(i, n)'
        PROVE  i + 1 \in DOMAIN queue /\ IsFirst(i + 1, n) /\ queue'[i] = queue[i + 1]
    <2>1. i + 1 \in DOMAIN queue /\ queue'[i] = queue[i + 1]
      BY <1>1, <1>2
    <2>2. ASSUME NEW j \in 1..((i + 1) - 1) PROVE queue[j].name # n
      <3>1. CASE j = 1
        BY <1>2, <1>6, <3>1
      <3>2. CASE j # 1
        <4>1. j - 1 \in 1..(i - 1) /\ queue'[j - 1] = queue[j]
          BY <1>1, <1>2, <3>2
        <4>2. QED
          BY <1>6, <4>1 DEF IsFirst
      <3>3. QED
        BY <3>1, <3>2
    <2>3. QED
      BY <1>6, <2>1, <2>2 DEF IsFirst
  <1>7. QED
    BY <1>2, <1>3, <1>4, <1>5, <1>6

-----------------------------------------------------------------------------
(* The environment.                                                         *)

(* Every step of the others posts one event, about a file that was there      *)
(* unless the event tells of its coming, and that is there after it unless    *)
(* the event tells of its going; every other file, unless it is about to be   *)
(* the target of a rename, is as it was.                                    *)
LEMMA EnvironmentShape ==
    ASSUME TypeOK, Environment
    PROVE  /\ UNCHANGED <<overtaken, atStart, existing, results, openMoves, hasInconsistencies>>
           /\ disk' \in [Names -> BOOLEAN]
           /\ lastCookie' \in Nat
           /\ halfDone' \subseteq [from: Names, to: Names, cookie: Nat]
           /\ TargetInv => TargetInv'
           /\ \E e \in Event :
                 /\ Post(e)
                 /\ e.act \notin {"create", "to"} => disk[e.name] /\ NoneComing(e.name)
                 /\ TargetInv => disk'[e.name] = (e.act \notin {"delete", "from"})
                 /\ \A n \in Names : n # e.name /\ NoneComing(n)'
                       => disk'[n] = disk[n] /\ NoneComing(n)
  <1> DEFINE Shape(e) ==
        /\ disk' \in [Names -> BOOLEAN]
        /\ lastCookie' \in Nat
        /\ halfDone' \subseteq [from: Names, to: Names, cookie: Nat]
        /\ TargetInv => TargetInv'
        /\ e \in Event
        /\ Post(e)
        /\ e.act \notin {"create", "to"} => disk[e.name] /\ NoneComing(e.name)
        /\ TargetInv => disk'[e.name] = (e.act \notin {"delete", "from"})
        /\ \A n \in Names : n # e.name /\ NoneComing(n)'
              => disk'[n] = disk[n] /\ NoneComing(n)
  <1>1. UNCHANGED <<overtaken, atStart, existing, results, openMoves, hasInconsistencies>>
    BY DEF Environment, model
  <1>2. \A n \in Unlocked : n \in Names /\ NoneComing(n)
    BY DEF Unlocked, Locked, NoneComing
  <1>0. /\ disk \in [Names -> BOOLEAN] /\ lastCookie \in Nat
        /\ halfDone \subseteq [from: Names, to: Names, cookie: Nat]
        /\ \A r \in halfDone : r.to \in Names /\ r.cookie \in Nat
    BY DEF TypeOK
  <1>3. ASSUME NEW n \in Unlocked, CreateFile(n) PROVE Shape(Plain(n, "create"))
    <2>1. Plain(n, "create") \in Event /\ Plain(n, "create").name = n /\ Plain(n, "create").act = "create"
      BY <1>2 DEF Plain, Event, Action
    <2>2. QED
      BY <1>0, <1>2, <1>3, <2>1 DEF CreateFile, TargetInv, NoneComing
  <1>4. ASSUME NEW n \in Unlocked, DeleteFile(n) PROVE Shape(Plain(n, "delete"))
    <2>1. Plain(n, "delete") \in Event /\ Plain(n, "delete").name = n /\ Plain(n, "delete").act = "delete"
      BY <1>2 DEF Plain, Event, Action
    <2>2. QED
      BY <1>0, <1>2, <1>4, <2>1 DEF DeleteFile, TargetInv, NoneComing
  <1>5. ASSUME NEW n \in Unlocked, NEW act \in {"modify", "attrib"}, TouchFile(n, act)
        PROVE  Shape(Plain(n, act))
    <2>1. Plain(n, act) \in Event /\ Plain(n, act).name = n /\ Plain(n, act).act = act
      BY <1>2 DEF Plain, Event, Action
    <2>2. QED
      BY <1>0, <1>2, <1>5, <2>1 DEF TouchFile, TargetInv, NoneComing
  <1>6. ASSUME NEW n \in Unlocked, MoveOut(n)
        PROVE  Shape([name |-> n, act |-> "from", cookie |-> lastCookie + 1])
    <2> DEFINE e == [name |-> n, act |-> "from", cookie |-> lastCookie + 1]
    <2>1. e \in Event /\ e.name = n /\ e.act = "from" /\ lastCookie + 1 \in Nat
      BY <1>0, <1>2 DEF Event
    <2>2. /\ disk[n] /\ disk' = [disk EXCEPT ![n] = FALSE] /\ lastCookie' = lastCookie + 1
          /\ Post(e) /\ halfDone' = halfDone
      BY <1>6 DEF MoveOut, BeginMove
    <2> HIDE DEF e
    <2>3. Shape(e)
      BY <1>0, <1>2, <2>1, <2>2 DEF TargetInv, NoneComing
    <2>4. QED
      BY <2>3 DEF e
  <1>7. ASSUME NEW n \in Unlocked, MoveIn(n)
        PROVE  Shape([name |-> n, act |-> "to", cookie |-> lastCookie + 1])
    <2> DEFINE e == [name |-> n, act |-> "to", cookie |-> lastCookie + 1]
    <2>1. e \in Event /\ e.name = n /\ e.act = "to" /\ lastCookie + 1 \in Nat
      BY <1>0, <1>2 DEF Event
    <2>2. /\ disk' = [disk EXCEPT ![n] = TRUE] /\ lastCookie' = lastCookie + 1
          /\ Post(e) /\ halfDone' = halfDone
      BY <1>7 DEF MoveIn, BeginMove
    <2> HIDE DEF e
    <2>3. Shape(e)
      BY <1>0, <1>2, <2>1, <2>2 DEF TargetInv, NoneComing
    <2>4. QED
      BY <2>3 DEF e
  <1>8. ASSUME NEW m \in Unlocked, NEW n \in Unlocked, MoveFile(m, n)
        PROVE  Shape([name |-> m, act |-> "from", cookie |-> lastCookie + 1])
    <2> DEFINE e == [name |-> m, act |-> "from", cookie |-> lastCookie + 1]
               move == [from |-> m, to |-> n, cookie |-> lastCookie + 1]
    <2>1. /\ m \in Names /\ n \in Names /\ m # n /\ disk[m]
          /\ disk' = [disk EXCEPT ![m] = FALSE, ![n] = TRUE]
          /\ lastCookie' = lastCookie + 1 /\ lastCookie' \in Nat
          /\ Post(e)
          /\ halfDone' = halfDone \cup {move}
      BY <1>0, <1>2, <1>8 DEF MoveFile, BeginMove
    <2>2. /\ e \in Event /\ e.name = m /\ e.act = "from"
          /\ move.to = n /\ move \in [from: Names, to: Names, cookie: Nat]
      BY <1>0, <2>1 DEF Event
    <2> HIDE DEF e, move
    <2>3. /\ disk' \in [Names -> BOOLEAN] /\ ~disk'[m] /\ disk'[n]
          /\ \A k \in Names : k # m /\ k # n => disk'[k] = disk[k]
      BY <1>0, <2>1
    <2>4. ASSUME TargetInv PROVE TargetInv'
      <3>1. ASSUME NEW r \in halfDone PROVE disk'[r.to]
        BY <1>0, <1>2, <2>3, <2>4 DEF TargetInv, NoneComing
      <3>2. QED
        BY <2>1, <2>2, <2>3, <3>1 DEF TargetInv
    <2>5. ASSUME NEW k \in Names, k # m, NoneComing(k)'
          PROVE  disk'[k] = disk[k] /\ NoneComing(k)
      <3>1. k # n /\ NoneComing(k)
        BY <2>1, <2>2, <2>5 DEF NoneComing
      <3>2. QED
        BY <2>3, <2>5, <3>1
    <2>6. halfDone' \subseteq [from: Names, to: Names, cookie: Nat]
      BY <1>0, <2>1, <2>2
    <2>7. Shape(e)
      BY <1>2, <2>1, <2>2, <2>3, <2>4, <2>5, <2>6
    <2>8. QED
      BY <2>7 DEF e
  <1>9. ASSUME NEW r \in halfDone, FinishMove(r)
        PROVE  Shape([name |-> r.to, act |-> "to", cookie |-> r.cookie])
    <2> DEFINE e == [name |-> r.to, act |-> "to", cookie |-> r.cookie]
    <2>1. e \in Event /\ e.name = r.to /\ e.act = "to"
      BY <1>0 DEF Event
    <2>2. Post(e) /\ halfDone' = halfDone \ {r} /\ disk' = disk /\ lastCookie' = lastCookie
      BY <1>9 DEF FinishMove
    <2> HIDE DEF e
    <2>3. \A n \in Names : n # e.name /\ NoneComing(n)' => NoneComing(n)
      BY <2>1, <2>2 DEF NoneComing
    <2>4. Shape(e)
      BY <1>0, <2>1, <2>2, <2>3 DEF TargetInv
    <2>5. QED
      BY <2>4 DEF e
  <1>10. \E e : Shape(e)
    <2> HIDE DEF Shape
    <2>1. QED
      BY <1>3, <1>4, <1>5, <1>6, <1>7, <1>8, <1>9 DEF Environment
  <1>11. QED
    BY <1>1, <1>10

-----------------------------------------------------------------------------
(* Types.                                                                   *)

(* An event that is not a rename gives its name a result.                   *)
LEMMA PlainResult ==
    ASSUME TypeOK, NEW n \in Names, NEW event \in Action
    PROVE  LET known == n \in existing
               act   == Effective(results[n], event, known, IsRoot)
               new   == OnEvent(results[n], act, known)
           IN  /\ new \in WatchedResult
               /\ new # NoResult
               /\ results[n] # NoResult => /\ ExistedAtStart(new) = ExistedAtStart(results[n])
                                           /\ results[n].inconsistent => new.inconsistent
               /\ results[n] = NoResult /\ ExistedAtStart(new) => event # "create"
  <1> DEFINE known == n \in existing
             act   == Effective(results[n], event, known, IsRoot)
  <1>1. results[n] \in WatchedResult /\ known \in BOOLEAN
    BY DEF TypeOK
  <1>2. act \in Action /\ (event = "create" => act = "create")
    BY EffectiveType
  <1> HIDE DEF known, act
  <1>3. /\ OnEvent(results[n], act, known) \in WatchedResult
        /\ OnEvent(results[n], act, known) # NoResult
    BY <1>1, <1>2, OnEventType
  <1>4. results[n] # NoResult =>
            /\ ExistedAtStart(OnEvent(results[n], act, known)) = ExistedAtStart(results[n])
            /\ results[n].inconsistent => OnEvent(results[n], act, known).inconsistent
    BY <1>1, <1>2, NextResultKeeps
  <1>5. results[n] = NoResult /\ ExistedAtStart(OnEvent(results[n], act, known)) => event # "create"
    BY <1>1, <1>2, FirstResultOld
  <1>6. QED
    BY <1>3, <1>4, <1>5 DEF act, known

(* traverseRename() keeps the types.                                        *)
LEMMA TraverseType ==
    ASSUME TypeOK, NEW from \in SUBSET Names, NEW to \in SUBSET Names, TraverseRename(from, to)
    PROVE  /\ results' \in [Names -> WatchedResult]
           /\ existing' \subseteq Names
           /\ hasInconsistencies' \in BOOLEAN
  <1>1. results' \in [Names -> WatchedResult]
    BY RenamedType DEF TraverseRename, TypeOK
  <1>2. QED
    BY <1>1 DEF TraverseRename, TypeOK

(* The types hold initially.                                                *)
LEMMA TypeInit == Init => TypeOK
  <1> SUFFICES ASSUME Init PROVE TypeOK
    OBVIOUS
  <1>1. results \in [Names -> WatchedResult]
    BY NoResultType DEF Init
  <1>2. queue \in Seq(Event) /\ halfDone \subseteq [from: Names, to: Names, cookie: Nat]
    BY DEF Init
  <1>3. atStart \in [Names -> BOOLEAN] /\ disk \in [Names -> BOOLEAN]
    BY DEF Init
  <1>4. QED
    BY <1>1, <1>2, <1>3 DEF Init, TypeOK

(* Every step preserves the types.                                          *)
LEMMA TypeStep == TypeOK /\ [Next]_vars => TypeOK'
  <1> SUFFICES ASSUME TypeOK, [Next]_vars PROVE TypeOK'
    OBVIOUS
  <1>1. CASE Environment
    <2>1. PICK e \in Event : Post(e)
      BY <1>1, EnvironmentShape
    <2>2. queue' \in Seq(Event) /\ lost' \in BOOLEAN
      BY <2>1, PostQueue
    <2>3. UNCHANGED <<overtaken, atStart, existing, results, openMoves, hasInconsistencies>>
      BY <1>1, EnvironmentShape
    <2>4. /\ disk' \in [Names -> BOOLEAN]
          /\ lastCookie' \in Nat
          /\ halfDone' \subseteq [from: Names, to: Names, cookie: Nat]
      BY <1>1, EnvironmentShape
    <2>5. QED
      BY <2>2, <2>3, <2>4 DEF TypeOK
  <1>2. CASE Dispatch
    <2> DEFINE e == Head(queue)
    <2>1. queue # <<>> /\ queue' = Tail(queue) /\ UNCHANGED <<disk, lost, lastCookie, halfDone, atStart>>
      BY <1>2 DEF Dispatch
    <2>2. queue' \in Seq(Event) /\ e \in Event
      BY <2>1 DEF TypeOK
    <2>3. e.name \in Names /\ e.cookie \in Nat
      BY <2>2 DEF Event
    <2>4. /\ \/ RenameFrom(e)
             \/ RenameTo(e)
             \/ e.act \in Action /\ PlainEvent(e)
          /\ overtaken' = (overtaken \/ Overtakes(e))
      BY <1>2 DEF Dispatch
    <2> HIDE DEF e
    <2>5. overtaken' \in BOOLEAN
      BY <2>4
    <2>6. /\ existing' \subseteq Names
          /\ results' \in [Names -> WatchedResult]
          /\ openMoves' \subseteq OpenMove
          /\ hasInconsistencies' \in BOOLEAN
      <3>1. CASE RenameFrom(e)
        BY <2>3, <3>1 DEF RenameFrom, TypeOK, OpenMove
      <3>2. CASE RenameTo(e)
        <4>1. openMoves' \subseteq openMoves
          BY <3>2 DEF RenameTo, Closed, model
        <4>2. ASSUME NEW move \in openMoves
              PROVE  Watched(move.name) \in SUBSET Names
          BY DEF Watched, TypeOK, OpenMove
        <4>3. Watched(e.name) \in SUBSET Names
          BY <2>3 DEF Watched
        <4>4. \/ UNCHANGED model
              \/ \E from \in SUBSET Names : TraverseRename(from, Watched(e.name))
          BY <3>2, <4>2 DEF RenameTo
        <4>5. CASE UNCHANGED model
          BY <4>5 DEF model, TypeOK
        <4>6. ASSUME NEW from \in SUBSET Names, TraverseRename(from, Watched(e.name))
              PROVE  /\ existing' \subseteq Names
                     /\ results' \in [Names -> WatchedResult]
                     /\ hasInconsistencies' \in BOOLEAN
          BY <4>3, <4>6, TraverseType
        <4>7. QED
          BY <4>1, <4>4, <4>5, <4>6 DEF TypeOK
      <3>3. CASE e.act \in Action /\ PlainEvent(e)
        <4> DEFINE known == e.name \in existing
                   act == Effective(results[e.name], e.act, known, IsRoot)
                   new == OnEvent(results[e.name], act, known)
        <4>1. /\ openMoves' = openMoves
              /\ \/ UNCHANGED <<existing, results, hasInconsistencies>>
                 \/ /\ results' = [results EXCEPT ![e.name] = new]
                    /\ existing' = existing \ {e.name}
                    /\ hasInconsistencies' =
                          (hasInconsistencies \/ (new.inconsistent /\ ~results[e.name].inconsistent))
          BY <3>3 DEF PlainEvent
        <4>2. new \in WatchedResult
          BY <2>3, <3>3, PlainResult
        <4> HIDE DEF new
        <4>3. QED
          BY <4>1, <4>2 DEF TypeOK
      <3>4. QED
        BY <2>4, <3>1, <3>2, <3>3
    <2>7. QED
      BY <2>1, <2>2, <2>5, <2>6 DEF TypeOK
  <1>3. ASSUME NEW c, CheckOpenMoves(c) PROVE TypeOK'
    <2> DEFINE over  == OpenTooLong(c)
               names == {move.name : move \in over} \ Excluded
               twice == {n \in names : \E m, k \in over : m # k /\ m.name = n /\ k.name = n}
    <2>1. /\ results' = Renamed(Renamed(results, names, {}), twice, {})
          /\ existing' = existing \ names
          /\ openMoves' = openMoves \ over
          /\ hasInconsistencies' \in BOOLEAN
          /\ UNCHANGED <<overtaken, atStart, disk, queue, lost, lastCookie, halfDone>>
      BY <1>3 DEF CheckOpenMoves, outside, TypeOK
    <2> HIDE DEF names, twice, over
    <2>2. results' \in [Names -> WatchedResult]
      BY <2>1, RenamedType DEF TypeOK
    <2>3. QED
      BY <2>1, <2>2 DEF TypeOK
  <1>4. CASE UNCHANGED vars
    BY <1>4 DEF vars, TypeOK
  <1>5. QED
    BY <1>1, <1>2, <1>3, <1>4 DEF Next, Timer

(* Type correctness of FileMoves: renames leave a result a result.           *)
THEOREM TypeCorrect == Spec => []TypeOK
  BY TypeInit, TypeStep, PTL DEF Spec

-----------------------------------------------------------------------------
(* OldMeansOld.                                                             *)

\* What a result may say: of the beginning nothing, or the truth, or it is flagged.
Honest(r, n) == ExistedAtStart(r) => r.inconsistent \/ atStart[n]

(* A rename keeps an honest result honest, and makes a first one that is.    *)
LEMMA RenamedTells ==
    ASSUME NEW rs \in [Names -> WatchedResult], NEW from, NEW to, NEW n \in Names,
           Honest(rs[n], n), n \in from /\ rs[n] = NoResult => atStart[n]
    PROVE  LET new == Renamed(rs, from, to)[n] IN
           /\ Honest(new, n)
           /\ n \in from \cup to => new # NoResult
           /\ n \notin from \cup to => new = rs[n]
  <1>1. Renamed(rs, from, to)[n] = IF n \in from THEN MovedFrom(rs[n])
                                   ELSE IF n \in to THEN MovedTo(rs[n]) ELSE rs[n]
    BY DEF Renamed
  <1>2. rs[n] \in WatchedResult
    OBVIOUS
  <1>3. CASE n \in from
    <2>1. CASE rs[n] = NoResult
      BY <1>1, <1>2, <1>3, <2>1, MovedResults DEF Honest
    <2>2. CASE rs[n] # NoResult
      BY <1>1, <1>2, <1>3, <2>2, MovedResults DEF Honest
    <2>3. QED
      BY <2>1, <2>2
  <1>4. CASE n \notin from /\ n \in to
    BY <1>1, <1>2, <1>4, MovedResults DEF Honest
  <1>5. CASE n \notin from \cup to
    BY <1>1, <1>5
  <1>6. QED
    BY <1>3, <1>4, <1>5

\* How a step may leave the result of n: as it is, or honest and not filtered out.
Tells(n) == \/ results'[n] = results[n]
            \/ n \notin Excluded /\ results'[n] # NoResult /\ Honest(results'[n], n)

(* What handling an event or the timer leave of the open moves and results.  *)
LEMMA TellsKeepsOld ==
    ASSUME TypeOK, OldInv, UNCHANGED <<lost, atStart>>, ~lost, \A n \in Names : Tells(n)
    PROVE  /\ ExcludedInv'
           /\ OldMeansOld'
           /\ \A n \in Names : results'[n] = NoResult => results[n] = NoResult
  <1>1. \A n \in Names : Honest(results[n], n)
    BY DEF OldInv, OldMeansOld, Honest
  <1>2. \A n \in Names : results'[n] = NoResult => results[n] = NoResult
    BY DEF Tells
  <1>3. ExcludedInv'
    BY ExcludedAssumption DEF Tells, OldInv, ExcludedInv
  <1>4. ASSUME NEW n \in Names, ExistedAtStart(results'[n])
        PROVE  results'[n].inconsistent \/ atStart[n]
    BY <1>1, <1>4 DEF Tells, Honest
  <1>5. OldMeansOld'
    BY <1>4 DEF OldMeansOld
  <1>6. QED
    BY <1>2, <1>3, <1>5

(* It holds initially.                                                      *)
LEMMA OldInit == Init => OldInv
  <1> SUFFICES ASSUME Init PROVE OldInv
    OBVIOUS
  <1>1. TypeOK
    BY TypeInit
  <1>2. \A n \in Names : results[n] = NoResult
    BY DEF Init
  <1>3. ExcludedInv
    BY <1>2, ExcludedAssumption DEF ExcludedInv
  <1>4. OldMeansOld
    BY <1>2, NoResultType DEF OldMeansOld
  <1>5. OpenMoveInv /\ FirstQueuedInv /\ DiskInv
    BY DEF Init, OpenMoveInv, FirstQueuedInv, DiskInv
  <1>6. QED
    BY <1>1, <1>3, <1>4, <1>5 DEF OldInv

(* The others preserve it.                                                  *)
LEMMA OldEnvironment == ASSUME OldInv, Environment PROVE OldInv'
  <1>1. TypeOK /\ TypeOK'
    BY TypeStep DEF OldInv, Next
  <1>2. UNCHANGED <<overtaken, atStart, existing, results, openMoves, hasInconsistencies>>
    BY <1>1, EnvironmentShape
  <1>4. ASSUME ~lost' PROVE (ExcludedInv /\ OpenMoveInv /\ FirstQueuedInv /\ DiskInv /\ OldMeansOld)'
    <2>1. PICK e \in Event :
             /\ Post(e)
             /\ e.act \notin {"create", "to"} => disk[e.name] /\ NoneComing(e.name)
             /\ \A n \in Names : n # e.name /\ NoneComing(n)' => disk'[n] = disk[n] /\ NoneComing(n)
      BY <1>1, EnvironmentShape
    <2>2. ~lost
      BY <1>1, <1>4, <2>1, PostQueue
    <2>3. ExcludedInv /\ OpenMoveInv /\ FirstQueuedInv /\ DiskInv /\ OldMeansOld
      BY <2>2 DEF OldInv
    <2>11. ExcludedInv'
      BY <1>2, <2>3 DEF ExcludedInv
    <2>4. OpenMoveInv'
      BY <1>2, <2>3 DEF OpenMoveInv
    <2>5. OldMeansOld'
      BY <1>2, <1>4, <2>2, <2>3 DEF OldMeansOld
    <2>6. ASSUME NEW n \in Names \ Excluded, NEW i \in DOMAIN queue', results[n] = NoResult,
                 IsFirst(i, n)', queue'[i].act \notin {"create", "to"}
          PROVE  atStart[n]
      <3>1. \/ i \in DOMAIN queue /\ IsFirst(i, n) /\ queue'[i] = queue[i]
            \/ queue'[i] = e /\ n = e.name /\ NothingQueued(n)
        BY <1>1, <1>4, <2>1, <2>6, FirstAfterPost
      <3>2. CASE i \in DOMAIN queue /\ IsFirst(i, n) /\ queue'[i] = queue[i]
        BY <2>3, <2>6, <3>2 DEF FirstQueuedInv
      <3>3. CASE queue'[i] = e /\ n = e.name /\ NothingQueued(n)
        BY <2>1, <2>3, <2>6, <3>3 DEF DiskInv, NoneComing
      <3>4. QED
        BY <3>1, <3>2, <3>3
    <2>7. FirstQueuedInv'
      BY <1>2, <2>6 DEF FirstQueuedInv
    <2>8. ASSUME NEW n \in Names \ Excluded, results[n] = NoResult, NothingQueued(n)', disk'[n],
                 \A r \in halfDone' : r.to # n
          PROVE  atStart[n]
      <3>1. n # e.name /\ NothingQueued(n)
        BY <1>1, <1>4, <2>1, <2>8, FirstAfterPost
      <3>2. disk[n] /\ NoneComing(n)
        BY <2>1, <2>8, <3>1 DEF NoneComing
      <3>3. QED
        BY <2>3, <2>8, <3>1, <3>2 DEF DiskInv, NoneComing
    <2>9. DiskInv'
      BY <1>2, <2>8 DEF DiskInv
    <2>10. QED
      BY <2>4, <2>5, <2>7, <2>9, <2>11
  <1>5. QED
    BY <1>1, <1>4 DEF OldInv

(* What the oldest event does to the results: the result of its own name,     *)
(* unless it is a RENAME_FROM, which makes an open move instead.             *)
LEMMA DispatchTells ==
    ASSUME OldInv, Dispatch, ~lost
    PROVE  LET e == Head(queue) IN
           /\ \A n \in Names : Tells(n)
           /\ \/ e.act = "from" /\ openMoves' = openMoves \cup {[name |-> e.name, cookie |-> e.cookie]}
              \/ openMoves' \subseteq openMoves /\ (e.name \in Excluded \/ results'[e.name] # NoResult)
  <1> DEFINE e == Head(queue)
  <1>1. queue # <<>> /\ queue' = Tail(queue)
    BY DEF Dispatch
  <1>2. TypeOK /\ ExcludedInv /\ OpenMoveInv /\ FirstQueuedInv /\ OldMeansOld
    BY DEF OldInv
  <1>3. \/ e.act = "from" /\ RenameFrom(e)
        \/ RenameTo(e)
        \/ e.act \in Action /\ PlainEvent(e)
    BY DEF Dispatch
  <1>4. e \in Event
    BY <1>1, <1>2 DEF TypeOK
  <1>5. e.name \in Names
    BY <1>4 DEF Event
  <1>6. 1 \in DOMAIN queue /\ e = queue[1] /\ IsFirst(1, e.name)
    BY <1>1, <1>2, <1>5, FirstAfterRead
  <1> HIDE DEF e
  <1>7. \A n \in Names : Honest(results[n], n)
    BY <1>2 DEF OldMeansOld, Honest
  <1>8. results \in [Names -> WatchedResult]
    BY <1>2 DEF TypeOK
  <1>9. CASE e.act = "from" /\ RenameFrom(e)
    BY <1>9 DEF RenameFrom, Tells, e
  <1>10. CASE RenameTo(e)
    <2>1. ASSUME NEW move \in openMoves, TraverseRename(Watched(move.name), Watched(e.name)),
                 openMoves' = Closed(move)
          PROVE  /\ \A n \in Names : Tells(n)
                 /\ openMoves' \subseteq openMoves
                 /\ e.name \in Excluded \/ results'[e.name] # NoResult
      <3> DEFINE from == Watched(move.name)
                 to   == Watched(e.name)
      <3>1. results' = Renamed(results, from, to)
        BY <2>1 DEF TraverseRename
      <3>2. \A n \in from : n \notin Excluded /\ (results[n] = NoResult => atStart[n])
        BY <1>2 DEF Watched, OpenMoveInv
      <3>3. \A n \in to : n \notin Excluded
        BY DEF Watched
      <3>4. e.name \in Excluded \/ e.name \in to
        BY DEF Watched
      <3> HIDE DEF from, to
      <3>5. ASSUME NEW n \in Names
            PROVE  Tells(n) /\ (n \in to => results'[n] # NoResult)
        <4>1. LET new == Renamed(results, from, to)[n] IN
              /\ Honest(new, n)
              /\ n \in from \cup to => new # NoResult
              /\ n \notin from \cup to => new = results[n]
          BY <1>7, <1>8, <3>2, RenamedTells
        <4>2. QED
          BY <3>1, <3>2, <3>3, <4>1 DEF Tells
      <3>6. QED
        BY <1>5, <2>1, <3>4, <3>5 DEF Closed
    <2>2. ASSUME TraverseRename({}, Watched(e.name)), openMoves' = openMoves
          PROVE  /\ \A n \in Names : Tells(n)
                 /\ e.name \in Excluded \/ results'[e.name] # NoResult
      <3> DEFINE to == Watched(e.name)
      <3>1. results' = Renamed(results, {}, to)
        BY <2>2 DEF TraverseRename
      <3>2. (\A n \in to : n \notin Excluded) /\ (e.name \in Excluded \/ e.name \in to)
        BY DEF Watched
      <3> HIDE DEF to
      <3>3. ASSUME NEW n \in Names
            PROVE  Tells(n) /\ (n \in to => results'[n] # NoResult)
        <4>1. LET new == Renamed(results, {}, to)[n] IN
              /\ Honest(new, n)
              /\ n \in {} \cup to => new # NoResult
              /\ n \notin {} \cup to => new = results[n]
          BY <1>7, <1>8, RenamedTells
        <4>2. QED
          BY <3>1, <3>2, <4>1 DEF Tells
      <3>4. QED
        BY <1>5, <3>2, <3>3
    <2>3. ASSUME NEW move \in openMoves, move.name \in Excluded, e.name \in Excluded, UNCHANGED model
          PROVE  (\A n \in Names : Tells(n)) /\ openMoves' \subseteq openMoves
      BY <2>3 DEF model, Tells
    <2>4. QED
      BY <1>10, <2>1, <2>2, <2>3 DEF RenameTo, e
  <1>11. CASE e.act \in Action /\ PlainEvent(e)
    <2> DEFINE known == e.name \in existing
               act == Effective(results[e.name], e.act, known, IsRoot)
               new == OnEvent(results[e.name], act, known)
    <2>1. /\ openMoves' = openMoves
          /\ IF e.name \in Excluded THEN results' = results
                                    ELSE results' = [results EXCEPT ![e.name] = new]
      BY <1>11 DEF PlainEvent
    <2>2. CASE e.name \in Excluded
      BY <2>1, <2>2 DEF Tells, e
    <2>3. CASE e.name \notin Excluded
      <3>1. /\ new # NoResult
            /\ results[e.name] # NoResult =>
                  /\ ExistedAtStart(new) = ExistedAtStart(results[e.name])
                  /\ results[e.name].inconsistent => new.inconsistent
            /\ results[e.name] = NoResult /\ ExistedAtStart(new) => e.act # "create"
        BY <1>2, <1>5, <1>11, PlainResult
      <3> HIDE DEF new
      <3>2. results'[e.name] = new /\ \A n \in Names : n # e.name => results'[n] = results[n]
        BY <1>5, <1>8, <2>1, <2>3
      <3>3. Honest(new, e.name)
        <4>1. CASE results[e.name] # NoResult
          BY <1>5, <1>7, <3>1, <4>1 DEF Honest
        <4>2. CASE results[e.name] = NoResult
          <5>1. ExistedAtStart(new) => e.act \notin {"create", "to"}
            BY <1>11, <3>1, <4>2 DEF Action
          <5>2. QED
            BY <1>2, <1>5, <1>6, <2>3, <4>2, <5>1 DEF FirstQueuedInv, Honest
        <4>3. QED
          BY <4>1, <4>2
      <3>4. \A n \in Names : Tells(n)
        BY <2>3, <3>1, <3>2, <3>3 DEF Tells
      <3>5. QED
        BY <2>1, <3>1, <3>2, <3>4 DEF e
    <2>4. QED
      BY <2>2, <2>3
  <1>12. QED
    BY <1>3, <1>9, <1>10, <1>11 DEF e

(* Handling an event preserves it.                                          *)
LEMMA OldDispatch == ASSUME OldInv, Dispatch PROVE OldInv'
  <1> DEFINE e == Head(queue)
  <1>1. TypeOK /\ TypeOK'
    BY TypeStep DEF OldInv, Next
  <1>2. CASE lost
    BY <1>1, <1>2 DEF Dispatch, OldInv
  <1>3. CASE ~lost
    <2>1. /\ queue # <<>> /\ queue' = Tail(queue)
          /\ UNCHANGED <<disk, lost, lastCookie, halfDone, atStart>>
      BY DEF Dispatch
    <2>2. /\ \A n \in Names : Tells(n)
          /\ \/ e.act = "from" /\ openMoves' = openMoves \cup {[name |-> e.name, cookie |-> e.cookie]}
             \/ openMoves' \subseteq openMoves /\ (e.name \in Excluded \/ results'[e.name] # NoResult)
      BY <1>3, DispatchTells
    <2>3. OpenMoveInv /\ FirstQueuedInv /\ DiskInv
      BY <1>3 DEF OldInv
    <2>4. ExcludedInv' /\ OldMeansOld' /\ \A n \in Names : results'[n] = NoResult => results[n] = NoResult
      BY <1>1, <1>3, <2>1, <2>2, TellsKeepsOld
    <2>5. e \in Event
      BY <1>1, <2>1 DEF TypeOK
    <2>6. e.name \in Names
      BY <2>5 DEF Event
    <2>7. 1 \in DOMAIN queue /\ e = queue[1] /\ IsFirst(1, e.name)
      BY <1>1, <2>1, <2>6, FirstAfterRead
    <2>8. \A n \in Names \ Excluded : n # e.name =>
              /\ NothingQueued(n)' => NothingQueued(n)
              /\ \A i \in DOMAIN queue' : IsFirst(i, n)' =>
                    i + 1 \in DOMAIN queue /\ IsFirst(i + 1, n) /\ queue'[i] = queue[i + 1]
      BY <1>1, <2>1, FirstAfterRead
    <2> HIDE DEF e
    <2>9. results[e.name] = NoResult /\ e.name \notin Excluded /\ e.act = "from" => atStart[e.name]
      BY <2>3, <2>6, <2>7 DEF FirstQueuedInv
    <2>10. e.name \notin Excluded /\ results'[e.name] = NoResult => atStart[e.name]
      BY <2>2, <2>4, <2>6, <2>9
    <2>11. OpenMoveInv'
      <3> SUFFICES ASSUME NEW move \in openMoves', results'[move.name] = NoResult,
                          move.name \notin Excluded
                   PROVE  atStart[move.name]
        BY <2>1 DEF OpenMoveInv
      <3>1. CASE move \in openMoves
        <4>1. move.name \in Names
          BY <1>1, <3>1 DEF TypeOK, OpenMove
        <4>2. QED
          BY <2>3, <2>4, <3>1, <4>1 DEF OpenMoveInv
      <3>2. CASE move \notin openMoves
        <4>1. move.name = e.name
          BY <2>2, <3>2
        <4>2. QED
          BY <2>10, <4>1
      <3>3. QED
        BY <3>1, <3>2
    <2>12. FirstQueuedInv'
      <3> SUFFICES ASSUME NEW n \in Names \ Excluded, NEW i \in DOMAIN queue', results'[n] = NoResult,
                          IsFirst(i, n)', queue'[i].act \notin {"create", "to"}
                   PROVE  atStart[n]
        BY <2>1 DEF FirstQueuedInv
      <3>1. CASE n = e.name
        BY <2>10, <3>1
      <3>2. CASE n # e.name
        BY <2>3, <2>4, <2>8, <3>2 DEF FirstQueuedInv
      <3>3. QED
        BY <3>1, <3>2
    <2>13. DiskInv'
      <3> SUFFICES ASSUME NEW n \in Names \ Excluded, results'[n] = NoResult, NothingQueued(n)',
                          disk[n], \A r \in halfDone : r.to # n
                   PROVE  atStart[n]
        BY <2>1 DEF DiskInv
      <3>1. CASE n = e.name
        BY <2>10, <3>1
      <3>2. CASE n # e.name
        BY <2>3, <2>4, <2>8, <3>2 DEF DiskInv
      <3>3. QED
        BY <3>1, <3>2
    <2>14. QED
      BY <1>1, <2>4, <2>11, <2>12, <2>13 DEF OldInv
  <1>4. QED
    BY <1>2, <1>3

(* So does the timer.                                                       *)
LEMMA OldTimer == ASSUME OldInv, NEW move \in openMoves, CheckOpenMoves(move.cookie) PROVE OldInv'
  <1> DEFINE over  == OpenTooLong(move.cookie)
             names == {m.name : m \in over} \ Excluded
             twice == {n \in names : \E m, k \in over : m # k /\ m.name = n /\ k.name = n}
             once  == Renamed(results, names, {})
  <1>1. TypeOK /\ TypeOK'
    BY TypeStep DEF OldInv, Next, Timer
  <1>2. /\ results' = Renamed(once, twice, {})
        /\ openMoves' = openMoves \ over
        /\ UNCHANGED <<atStart, disk, queue, lost, halfDone>>
    BY DEF CheckOpenMoves, outside
  <1>3. CASE lost
    BY <1>1, <1>2, <1>3 DEF OldInv
  <1>4. CASE ~lost
    <2>1. OpenMoveInv /\ FirstQueuedInv /\ DiskInv /\ OldMeansOld
      BY <1>4 DEF OldInv
    <2>2. \A n \in names : n \notin Excluded /\ (results[n] = NoResult => atStart[n])
      BY <2>1 DEF OpenTooLong, OpenMoveInv
    <2>3. twice \subseteq names
      OBVIOUS
    <2>4. results \in [Names -> WatchedResult] /\ once \in [Names -> WatchedResult]
      BY <1>1, RenamedType DEF TypeOK
    <2> HIDE DEF over, names, twice
    <2>5. ASSUME NEW n \in Names PROVE Tells(n)
      <3>1. Honest(results[n], n)
        BY <1>4, <2>1 DEF OldMeansOld, Honest
      <3>2. /\ Honest(once[n], n)
            /\ n \in names => once[n] # NoResult
            /\ n \notin names => once[n] = results[n]
        BY <2>2, <2>4, <3>1, RenamedTells
      <3> HIDE DEF once
      <3>3. /\ Honest(results'[n], n)
            /\ n \in twice => results'[n] # NoResult
            /\ n \notin twice => results'[n] = once[n]
        BY <1>2, <2>3, <2>4, <3>2, RenamedTells
      <3>4. QED
        BY <2>2, <2>3, <3>2, <3>3 DEF Tells
    <2>6. ExcludedInv' /\ OldMeansOld' /\ \A n \in Names : results'[n] = NoResult => results[n] = NoResult
      BY <1>1, <1>2, <1>4, <2>5, TellsKeepsOld
    <2>7. OpenMoveInv'
      <3>1. \A m \in openMoves : m.name \in Names
        BY <1>1 DEF TypeOK, OpenMove
      <3>2. QED
        BY <1>2, <2>1, <2>6, <3>1 DEF OpenMoveInv
    <2>8. FirstQueuedInv'
      BY <1>2, <2>1, <2>6 DEF FirstQueuedInv, IsFirst
    <2>9. DiskInv'
      BY <1>2, <2>1, <2>6 DEF DiskInv, NothingQueued
    <2>10. QED
      BY <1>1, <2>6, <2>7, <2>8, <2>9 DEF OldInv
  <1>5. QED
    BY <1>3, <1>4

(* Whatever is renamed over or away from a file, an unflagged result that     *)
(* says it was there when the run began tells the truth.                     *)
THEOREM OldCorrect == Spec => []OldMeansOld
  <1>1. OldInv /\ [Next]_vars => OldInv'
    <2> SUFFICES ASSUME OldInv, [Next]_vars PROVE OldInv'
      OBVIOUS
    <2>1. CASE UNCHANGED vars
      <3>1. TypeOK'
        BY <2>1, TypeStep DEF OldInv
      <3>2. QED
        BY <2>1, <3>1 DEF vars, OldInv, ExcludedInv, OpenMoveInv, FirstQueuedInv, DiskInv,
                          OldMeansOld, IsFirst, NothingQueued
    <2>2. QED
      BY <2>1, OldEnvironment, OldDispatch, OldTimer DEF Next, Timer
  <1>2. OldInv => OldMeansOld
    BY DEF OldInv, OldMeansOld
  <1>3. QED
    BY <1>1, <1>2, OldInit, PTL DEF Spec

-----------------------------------------------------------------------------
(* ExistenceIsRight.                                                        *)

(* A posted event is the last one of its name; the last one of any other is   *)
(* the one it was.                                                          *)
LEMMA LastAfterPost ==
    ASSUME TypeOK, NEW e \in Event, Post(e), ~lost', NEW n \in Names
    PROVE  \A i \in DOMAIN queue' : IsLast(i, n)' =>
              IF n = e.name THEN queue'[i] = e
                            ELSE i \in DOMAIN queue /\ IsLast(i, n) /\ queue'[i] = queue[i]
  <1>1. queue \in Seq(Event)
    BY DEF TypeOK
  <1>2. CASE queue' = Append(queue, e)
    <2> PICK k \in Nat : k = Len(queue) + 1
      BY <1>1
    <2>1. /\ DOMAIN queue' = 1..k
          /\ queue'[k] = e
          /\ \A i \in 1..Len(queue) : queue'[i] = queue[i] /\ i < k
          /\ DOMAIN queue = 1..Len(queue) /\ Len(queue) \in Nat
          /\ \A i \in 1..k : i # k => i \in 1..Len(queue)
      BY <1>1, <1>2
    <2>2. ASSUME NEW i \in DOMAIN queue', IsLast(i, n)', n = e.name
          PROVE  queue'[i] = e
      BY <2>1, <2>2 DEF IsLast
    <2>3. ASSUME NEW i \in DOMAIN queue', IsLast(i, n)', n # e.name
          PROVE  i \in DOMAIN queue /\ IsLast(i, n) /\ queue'[i] = queue[i]
      BY <2>1, <2>3 DEF IsLast
    <2>4. QED
      BY <2>2, <2>3
  <1>3. CASE queue' = queue /\ Len(queue) > 0 /\ queue[Len(queue)] = e
    <2> PICK k \in Nat : k = Len(queue)
      BY <1>1
    <2>1. DOMAIN queue = 1..k /\ k \in DOMAIN queue /\ queue[k] = e /\ \A i \in 1..k : i = k \/ k > i
      BY <1>1, <1>3
    <2>2. ASSUME NEW i \in DOMAIN queue', IsLast(i, n)'
          PROVE  IsLast(i, n) /\ (n = e.name => i = k)
      BY <1>3, <2>1, <2>2 DEF IsLast
    <2>3. QED
      BY <1>3, <2>1, <2>2
  <1>4. QED
    BY <1>2, <1>3, PostQueue

(* Reading the oldest event: the last one of any name stays last, and is the   *)
(* one read when none of its name is left.                                  *)
LEMMA LastAfterRead ==
    ASSUME TypeOK, queue # <<>>, queue' = Tail(queue), NEW n \in Names
    PROVE  /\ \A i \in DOMAIN queue' : IsLast(i, n)' =>
                 i + 1 \in DOMAIN queue /\ IsLast(i + 1, n) /\ queue'[i] = queue[i + 1]
           /\ NothingQueued(n)' /\ n = Head(queue).name =>
                 1 \in DOMAIN queue /\ IsLast(1, n) /\ queue[1] = Head(queue)
  <1>1. queue \in Seq(Event)
    BY DEF TypeOK
  <1> PICK k \in Nat : k = Len(queue)
    BY <1>1
  <1>2. /\ k > 0
        /\ DOMAIN queue = 1..k
        /\ DOMAIN queue' = 1..(k - 1)
        /\ Head(queue) = queue[1]
        /\ \A i \in 1..(k - 1) : queue'[i] = queue[i + 1]
    BY <1>1
  <1>3. ASSUME NEW j \in 2..k
        PROVE  j - 1 \in DOMAIN queue' /\ queue'[j - 1] = queue[j]
    BY <1>2
  <1>4. ASSUME NEW i \in DOMAIN queue', IsLast(i, n)'
        PROVE  i + 1 \in DOMAIN queue /\ IsLast(i + 1, n) /\ queue'[i] = queue[i + 1]
    <2>1. i + 1 \in DOMAIN queue /\ queue'[i] = queue[i + 1]
      BY <1>2
    <2>2. ASSUME NEW j \in DOMAIN queue, j > i + 1 PROVE queue[j].name # n
      <3>1. j - 1 \in DOMAIN queue' /\ queue'[j - 1] = queue[j] /\ j - 1 > i
        BY <1>2, <1>3, <2>2
      <3>2. QED
        BY <1>4, <3>1 DEF IsLast
    <2>3. QED
      BY <1>4, <2>1, <2>2 DEF IsLast
  <1>5. ASSUME NothingQueued(n)', n = Head(queue).name
        PROVE  1 \in DOMAIN queue /\ IsLast(1, n) /\ queue[1] = Head(queue)
    <2>1. ASSUME NEW j \in DOMAIN queue, j > 1 PROVE queue[j].name # n
      <3>1. j - 1 \in DOMAIN queue' /\ queue'[j - 1] = queue[j]
        BY <1>2, <1>3, <2>1
      <3>2. QED
        BY <1>5, <3>1 DEF NothingQueued
    <2>2. QED
      BY <1>2, <1>5, <2>1 DEF IsLast
  <1>6. QED
    BY <1>4, <1>5

(* It holds initially.                                                      *)
LEMMA ExistenceInit == Init => ExistenceInv
  <1> SUFFICES ASSUME Init PROVE ExistenceInv
    OBVIOUS
  <1>1. TypeOK
    BY TypeInit
  <1>2. TargetInv /\ LastQueuedInv
    BY DEF Init, TargetInv, LastQueuedInv
  <1>3. KnownInv
    BY DEF Init, KnownInv, IsMoving, Known
  <1>4. QED
    BY <1>1, <1>2, <1>3 DEF ExistenceInv

(* The others preserve it: what they do to a file waits in the queue.         *)
LEMMA ExistenceEnvironment == ASSUME ExistenceInv, Environment PROVE ExistenceInv'
  <1>1. TypeOK /\ TypeOK'
    BY TypeStep DEF ExistenceInv, Next
  <1>2. UNCHANGED <<overtaken, existing, results, openMoves>>
    BY <1>1, EnvironmentShape
  <1>3. ASSUME ~lost', ~overtaken PROVE (TargetInv /\ LastQueuedInv /\ KnownInv)'
    <2>1. PICK e \in Event :
             /\ Post(e)
             /\ TargetInv => disk'[e.name] = (e.act \notin {"delete", "from"})
             /\ \A n \in Names : n # e.name /\ NoneComing(n)' => disk'[n] = disk[n] /\ NoneComing(n)
      BY <1>1, EnvironmentShape
    <2>2. ~lost
      BY <1>1, <1>3, <2>1, PostQueue
    <2>3. TargetInv /\ LastQueuedInv /\ KnownInv
      BY <1>3, <2>2 DEF ExistenceInv
    <2>4. TargetInv'
      BY <1>1, <2>3, EnvironmentShape
    <2>5. ASSUME NEW n \in Names \ Excluded, NEW i \in DOMAIN queue', NoneComing(n)', IsLast(i, n)'
          PROVE  disk'[n] = (queue'[i].act \notin {"delete", "from"})
      <3>1. IF n = e.name THEN queue'[i] = e
                          ELSE i \in DOMAIN queue /\ IsLast(i, n) /\ queue'[i] = queue[i]
        BY <1>1, <1>3, <2>1, <2>5, LastAfterPost
      <3>2. CASE n = e.name
        BY <2>1, <2>3, <3>1, <3>2
      <3>3. CASE n # e.name
        BY <2>1, <2>3, <2>5, <3>1, <3>3 DEF LastQueuedInv
      <3>4. QED
        BY <3>2, <3>3
    <2>6. LastQueuedInv'
      BY <2>5 DEF LastQueuedInv
    <2>7. ASSUME NEW n \in Names \ Excluded, NothingQueued(n)', NoneComing(n)'
          PROVE  IF IsMoving(n) THEN ~disk'[n] ELSE Known(n) = disk'[n]
      <3>1. n # e.name /\ NothingQueued(n)
        BY <1>1, <1>3, <2>1, <2>7, FirstAfterPost
      <3>2. disk'[n] = disk[n] /\ NoneComing(n)
        BY <2>1, <2>7, <3>1
      <3>3. QED
        BY <2>3, <3>1, <3>2 DEF KnownInv
    <2>8. KnownInv'
      BY <1>2, <2>7 DEF KnownInv, IsMoving, Known
    <2>9. QED
      BY <2>4, <2>6, <2>8
  <1>4. QED
    BY <1>1, <1>2, <1>3 DEF ExistenceInv

\* How a step may leave what is believed of n: as it is, or gone if it was moving.
Believes(n) ==
    \/ Known(n)' = Known(n) /\ IsMoving(n)' = IsMoving(n)
    \/ IsMoving(n) /\ ~Known(n)'

(* What a rename makes the model believe.                                   *)
LEMMA RenamedKnown ==
    ASSUME NEW rs \in [Names -> WatchedResult], NEW from, NEW to, NEW n \in Names
    PROVE  LET new == Renamed(rs, from, to)[n] IN
           /\ n \in from => new # NoResult /\ ~Exists(new)
           /\ n \in to \ from => new # NoResult /\ Exists(new)
           /\ n \notin from \cup to => new = rs[n]
  <1>1. Renamed(rs, from, to)[n] = IF n \in from THEN MovedFrom(rs[n])
                                   ELSE IF n \in to THEN MovedTo(rs[n]) ELSE rs[n]
    BY DEF Renamed
  <1>2. rs[n] \in WatchedResult
    OBVIOUS
  <1>3. /\ MovedFrom(rs[n]) # NoResult /\ ~Exists(MovedFrom(rs[n]))
        /\ MovedTo(rs[n]) # NoResult /\ Exists(MovedTo(rs[n]))
    BY <1>2 DEF MovedFrom, MovedTo, PresentType, GoneType, Exists, ExistedAtStart, WatchedResult,
                ResultType, NoResult
  <1>4. QED
    BY <1>1, <1>3

(* What is believed of a name is a truth value.                             *)
LEMMA KnownIsBoolean == ASSUME NEW n PROVE Known(n)' \in BOOLEAN
  <1>1. CASE results'[n] = NoResult
    BY <1>1 DEF Known
  <1>2. CASE results'[n] # NoResult
    BY <1>2 DEF Known, Exists
  <1>3. QED
    BY <1>1, <1>2

(* What the oldest event makes the model believe: of its own name what it      *)
(* says, unless it overtakes an open move; of another one only that it is gone *)
(* if it was moving.                                                        *)
LEMMA DispatchBelieves ==
    ASSUME TypeOK, Dispatch, ~overtaken'
    PROVE  LET e == Head(queue) IN
           \A n \in Names \ Excluded :
              IF n # e.name THEN Believes(n)
              ELSE IF e.act = "from" THEN IsMoving(n)'
              ELSE ~IsMoving(n)' /\ Known(n)' = (e.act # "delete")
  <1> DEFINE e == Head(queue)
  <1>1. queue # <<>>
    BY DEF Dispatch
  <1>2. /\ \/ e.act = "from" /\ RenameFrom(e)
           \/ e.act = "to" /\ RenameTo(e)
           \/ e.act \in Action /\ PlainEvent(e)
        /\ ~IsMoving(e.name)
    BY DEF Dispatch, Overtakes, IsMoving
  <1>3. e \in Event
    BY <1>1 DEF TypeOK
  <1>4. e.name \in Names
    BY <1>3 DEF Event
  <1>5. results \in [Names -> WatchedResult]
    BY DEF TypeOK
  <1> HIDE DEF e
  <1>6. CASE e.act = "from" /\ RenameFrom(e)
    <2>1. /\ openMoves' = openMoves \cup {[name |-> e.name, cookie |-> e.cookie]}
          /\ UNCHANGED <<existing, results>>
      BY <1>6 DEF RenameFrom
    <2>2. \A n \in Names : n # e.name => IsMoving(n)' = IsMoving(n)
      BY <2>1 DEF IsMoving
    <2>3. ASSUME NEW n \in Names, n = e.name PROVE IsMoving(n)'
      <3> DEFINE move == [name |-> e.name, cookie |-> e.cookie]
      <3>1. move \in openMoves' /\ move.name = n
        BY <2>1, <2>3
      <3>2. QED
        BY <3>1 DEF IsMoving
    <2>4. QED
      BY <1>6, <2>1, <2>2, <2>3 DEF Believes, Known, e
  <1>7. CASE e.act = "to" /\ RenameTo(e)
    <2>1. ASSUME NEW move \in openMoves, TraverseRename(Watched(move.name), Watched(e.name)),
                 openMoves' = Closed(move)
          PROVE  /\ \A n \in Names \ Excluded : n # e.name => Believes(n)
                 /\ \A n \in Names \ Excluded : n = e.name => ~IsMoving(n)' /\ Known(n)'
      <3> DEFINE from == Watched(move.name)
                 to   == Watched(e.name)
      <3>1. /\ results' = Renamed(results, from, to)
            /\ existing' = existing \ (from \cup to)
        BY <2>1 DEF TraverseRename
      <3>2. IsMoving(move.name) /\ move.name # e.name
        BY <1>2 DEF IsMoving
      <3>3. /\ \A n \in from : n = move.name
            /\ \A n \in to : n = e.name
            /\ move.name \notin Excluded => move.name \in from
            /\ e.name \notin Excluded => e.name \in to \ from
        BY <3>2 DEF Watched
      <3> HIDE DEF from, to
      <3>4. ASSUME NEW n \in Names \ Excluded, n # e.name, n = move.name
            PROVE  Believes(n)
        <4>1. n \in from
          BY <3>3, <3>4
        <4>2. results'[n] # NoResult /\ ~Exists(results'[n])
          BY <1>5, <3>1, <4>1, RenamedKnown
        <4>3. QED
          BY <3>2, <3>4, <4>2 DEF Believes, Known
      <3>5. ASSUME NEW n \in Names \ Excluded, n # e.name, n # move.name
            PROVE  Believes(n)
        <4>1. n \notin from \cup to
          BY <3>3, <3>5
        <4>2. results'[n] = results[n]
          BY <1>5, <3>1, <4>1, RenamedKnown
        <4>3. Known(n)' = Known(n)
          BY <3>1, <4>1, <4>2 DEF Known
        <4>4. IsMoving(n)' = IsMoving(n)
          BY <2>1, <3>5 DEF IsMoving, Closed
        <4>5. QED
          BY <4>3, <4>4 DEF Believes
      <3>6. ASSUME NEW n \in Names \ Excluded, n = e.name PROVE ~IsMoving(n)' /\ Known(n)'
        <4>1. results'[n] # NoResult /\ Exists(results'[n])
          BY <1>5, <3>1, <3>3, <3>6, RenamedKnown
        <4>2. ~IsMoving(n)'
          BY <1>2, <2>1, <3>6 DEF IsMoving, Closed
        <4>3. QED
          BY <4>1, <4>2 DEF Known
      <3>7. QED
        BY <3>4, <3>5, <3>6
    <2>2. ASSUME TraverseRename({}, Watched(e.name)), openMoves' = openMoves
          PROVE  /\ \A n \in Names \ Excluded : n # e.name => Believes(n)
                 /\ \A n \in Names \ Excluded : n = e.name => ~IsMoving(n)' /\ Known(n)'
      <3> DEFINE to == Watched(e.name)
      <3>1. /\ results' = Renamed(results, {}, to)
            /\ existing' = existing \ to
        BY <2>2 DEF TraverseRename
      <3>2. /\ \A n \in to : n = e.name
            /\ e.name \notin Excluded => e.name \in to \ {}
        BY DEF Watched
      <3> HIDE DEF to
      <3>3. ASSUME NEW n \in Names \ Excluded, n # e.name PROVE Believes(n)
        <4>1. n \notin {} \cup to
          BY <3>2, <3>3
        <4>2. results'[n] = results[n]
          BY <1>5, <3>1, <4>1, RenamedKnown
        <4>3. QED
          BY <2>2, <3>1, <4>1, <4>2 DEF Known, IsMoving, Believes
      <3>4. ASSUME NEW n \in Names \ Excluded, n = e.name PROVE ~IsMoving(n)' /\ Known(n)'
        <4>1. results'[n] # NoResult /\ Exists(results'[n])
          BY <1>5, <3>1, <3>2, <3>4, RenamedKnown
        <4>2. QED
          BY <1>2, <2>2, <3>4, <4>1 DEF Known, IsMoving
      <3>5. QED
        BY <3>3, <3>4
    <2>3. ASSUME NEW move \in openMoves, move.name \in Excluded, e.name \in Excluded, UNCHANGED model
          PROVE  \A n \in Names \ Excluded : Believes(n)
      BY <2>3 DEF model, Believes, Known, IsMoving
    <2>4. /\ \A n \in Names \ Excluded : n # e.name => Believes(n)
          /\ \A n \in Names \ Excluded : n = e.name => ~IsMoving(n)' /\ Known(n)'
      BY <1>7, <2>1, <2>2, <2>3 DEF RenameTo
    <2>5. ASSUME NEW n \in Names PROVE Known(n)' \in BOOLEAN
      BY KnownIsBoolean
    <2>6. QED
      BY <1>7, <2>4, <2>5 DEF e
  <1>8. CASE e.act \in Action /\ PlainEvent(e)
    <2> DEFINE known == e.name \in existing
               act == Effective(results[e.name], e.act, known, IsRoot)
               new == OnEvent(results[e.name], act, known)
    <2>1. /\ openMoves' = openMoves
          /\ IF e.name \in Excluded THEN results' = results /\ existing' = existing
             ELSE results' = [results EXCEPT ![e.name] = new] /\ existing' = existing \ {e.name}
      BY <1>8 DEF PlainEvent
    <2>2. act \in Action /\ (act = "delete" <=> e.act = "delete")
      BY <1>8, EffectiveType
    <2>3. results[e.name] \in WatchedResult /\ known \in BOOLEAN
      BY <1>4, <1>5
    <2> HIDE DEF act, known
    <2>4. new # NoResult /\ Exists(new) = (e.act # "delete")
      BY <2>2, <2>3, OnEventType, OnEventPresent
    <2> HIDE DEF new
    <2>5. \A n \in Names \ Excluded : n # e.name => Believes(n)
      <3>1. ASSUME NEW n \in Names \ Excluded, n # e.name
            PROVE  results'[n] = results[n] /\ (n \in existing' <=> n \in existing)
        BY <1>4, <1>5, <2>1, <3>1
      <3>2. QED
        BY <2>1, <3>1 DEF Believes, Known, IsMoving
    <2>6. ASSUME NEW n \in Names \ Excluded, n = e.name
          PROVE  ~IsMoving(n)' /\ Known(n)' = (e.act # "delete")
      <3>1. results'[n] = new
        BY <1>5, <2>1, <2>6
      <3>2. ~IsMoving(n)'
        BY <1>2, <2>1, <2>6 DEF IsMoving
      <3>3. Known(n)' = Exists(new)
        BY <2>4, <3>1 DEF Known
      <3>4. QED
        BY <2>4, <3>2, <3>3
    <2>7. QED
      BY <1>8, <2>5, <2>6 DEF e, Action
  <1>9. QED
    BY <1>2, <1>6, <1>7, <1>8 DEF e

(* Handling an event preserves it.                                          *)
LEMMA ExistenceDispatch == ASSUME ExistenceInv, Dispatch PROVE ExistenceInv'
  <1> DEFINE e == Head(queue)
  <1>1. TypeOK /\ TypeOK'
    BY TypeStep DEF ExistenceInv, Next
  <1>2. /\ queue # <<>> /\ queue' = Tail(queue)
        /\ UNCHANGED <<disk, lost, halfDone>>
        /\ overtaken => overtaken'
    BY DEF Dispatch
  <1>3. ASSUME ~lost, ~overtaken' PROVE (TargetInv /\ LastQueuedInv /\ KnownInv)'
    <2>1. TargetInv /\ LastQueuedInv /\ KnownInv
      BY <1>2, <1>3 DEF ExistenceInv
    <2>2. TargetInv'
      BY <1>2, <2>1 DEF TargetInv
    <2>3. ASSUME NEW n \in Names
          PROVE  /\ \A i \in DOMAIN queue' : IsLast(i, n)' =>
                       i + 1 \in DOMAIN queue /\ IsLast(i + 1, n) /\ queue'[i] = queue[i + 1]
                 /\ NothingQueued(n)' /\ n = e.name =>
                       1 \in DOMAIN queue /\ IsLast(1, n) /\ queue[1] = e
                 /\ n # e.name /\ NothingQueued(n)' => NothingQueued(n)
      BY <1>1, <1>2, LastAfterRead, FirstAfterRead
    <2>4. LastQueuedInv'
      BY <1>2, <2>1, <2>3 DEF LastQueuedInv, NoneComing
    <2>5. \A n \in Names \ Excluded :
             IF n # e.name THEN Believes(n)
             ELSE IF e.act = "from" THEN IsMoving(n)'
             ELSE ~IsMoving(n)' /\ Known(n)' = (e.act # "delete")
      BY <1>1, <1>3, DispatchBelieves
    <2> HIDE DEF e
    <2>6. ASSUME NEW n \in Names \ Excluded, NothingQueued(n)', NoneComing(n)
          PROVE  IF IsMoving(n)' THEN ~disk[n] ELSE Known(n)' = disk[n]
      <3>1. disk[n] \in BOOLEAN
        BY <1>1 DEF TypeOK
      <3>2. CASE n = e.name
        <4>1. disk[n] = (e.act \notin {"delete", "from"})
          BY <2>1, <2>3, <2>6, <3>2 DEF LastQueuedInv
        <4>2. QED
          BY <2>5, <3>1, <3>2, <4>1
      <3>3. CASE n # e.name
        <4>1. IF IsMoving(n) THEN ~disk[n] ELSE Known(n) = disk[n]
          BY <2>1, <2>3, <2>6, <3>3 DEF KnownInv
        <4>2. Known(n)' \in BOOLEAN
          BY KnownIsBoolean
        <4>3. QED
          BY <2>5, <3>1, <3>3, <4>1, <4>2 DEF Believes
      <3>4. QED
        BY <3>2, <3>3
    <2>7. KnownInv'
      BY <1>2, <2>6 DEF KnownInv, NoneComing
    <2>8. QED
      BY <2>2, <2>4, <2>7
  <1>4. QED
    BY <1>1, <1>2, <1>3 DEF ExistenceInv

(* So does the timer: a file whose move it gives up is gone, or its coming back *)
(* is still in the queue.                                                   *)
LEMMA ExistenceTimer ==
    ASSUME ExistenceInv, NEW move \in openMoves, CheckOpenMoves(move.cookie) PROVE ExistenceInv'
  <1> DEFINE over  == OpenTooLong(move.cookie)
             names == {m.name : m \in over} \ Excluded
             twice == {n \in names : \E m, k \in over : m # k /\ m.name = n /\ k.name = n}
             once  == Renamed(results, names, {})
  <1>1. TypeOK /\ TypeOK'
    BY TypeStep DEF ExistenceInv, Next, Timer
  <1>2. /\ results' = Renamed(once, twice, {})
        /\ existing' = existing \ names
        /\ openMoves' = openMoves \ over
        /\ UNCHANGED <<disk, queue, lost, halfDone, overtaken>>
    BY DEF CheckOpenMoves, outside
  <1>3. /\ twice \subseteq names
        /\ \A n \in names : IsMoving(n)
        /\ \A n \in Names \ Excluded : n \notin names => \A m \in over : m.name # n
    BY DEF OpenTooLong, IsMoving
  <1>4. results \in [Names -> WatchedResult] /\ once \in [Names -> WatchedResult]
    BY <1>1, RenamedType DEF TypeOK
  <1> HIDE DEF over, names, twice
  <1>5. ASSUME NEW n \in Names \ Excluded PROVE Believes(n)
    <2>1. CASE n \in names
      <3>1. once[n] # NoResult /\ ~Exists(once[n])
        BY <1>4, <2>1, RenamedKnown
      <3> HIDE DEF once
      <3>2. results'[n] # NoResult /\ ~Exists(results'[n])
        BY <1>2, <1>4, <3>1, RenamedKnown
      <3>3. QED
        BY <1>3, <2>1, <3>2 DEF Believes, Known
    <2>2. CASE n \notin names
      <3>1. once[n] = results[n]
        BY <1>4, <2>2, RenamedKnown
      <3> HIDE DEF once
      <3>2. results'[n] = results[n]
        BY <1>2, <1>3, <1>4, <2>2, <3>1, RenamedKnown
      <3>3. IsMoving(n)' = IsMoving(n)
        BY <1>2, <1>3, <2>2 DEF IsMoving
      <3>4. QED
        BY <1>2, <2>2, <3>2, <3>3 DEF Believes, Known
    <2>3. QED
      BY <2>1, <2>2
  <1>6. ASSUME ~lost, ~overtaken PROVE (TargetInv /\ LastQueuedInv /\ KnownInv)'
    <2>1. TargetInv /\ LastQueuedInv /\ KnownInv
      BY <1>6 DEF ExistenceInv
    <2>2. TargetInv' /\ LastQueuedInv'
      BY <1>2, <2>1 DEF TargetInv, LastQueuedInv, IsLast, NoneComing
    <2>3. ASSUME NEW n \in Names \ Excluded, NothingQueued(n), NoneComing(n)
          PROVE  IF IsMoving(n)' THEN ~disk[n] ELSE Known(n)' = disk[n]
      <3>1. disk[n] \in BOOLEAN /\ Known(n)' \in BOOLEAN
        BY <1>1, KnownIsBoolean DEF TypeOK
      <3>2. IF IsMoving(n) THEN ~disk[n] ELSE Known(n) = disk[n]
        BY <2>1, <2>3 DEF KnownInv
      <3>3. QED
        BY <1>5, <3>1, <3>2 DEF Believes
    <2>4. KnownInv'
      BY <1>2, <2>3 DEF KnownInv, NoneComing, NothingQueued
    <2>5. QED
      BY <2>2, <2>4
  <1>7. QED
    BY <1>1, <1>2, <1>6 DEF ExistenceInv

(* Whatever was renamed to what, and whether the timer or the second event    *)
(* came first, once all is settled the model knows which files exist, unless  *)
(* an event overtook an open move of its name.                              *)
THEOREM ExistenceCorrect == Spec => []ExistenceIsRight
  <1>1. ExistenceInv /\ [Next]_vars => ExistenceInv'
    <2> SUFFICES ASSUME ExistenceInv, [Next]_vars PROVE ExistenceInv'
      OBVIOUS
    <2>1. CASE UNCHANGED vars
      <3>1. TypeOK'
        BY <2>1, TypeStep DEF ExistenceInv
      <3>2. QED
        BY <2>1, <3>1 DEF vars, ExistenceInv, TargetInv, LastQueuedInv, KnownInv, IsLast, NoneComing,
                          IsMoving, NothingQueued, Known
    <2>2. QED
      BY <2>1, ExistenceEnvironment, ExistenceDispatch, ExistenceTimer DEF Next, Timer
  <1>2. ExistenceInv => ExistenceIsRight
    <2> SUFFICES ASSUME ExistenceInv, Settled, ~overtaken, NEW n \in Names \ Excluded
                 PROVE  Known(n) = disk[n]
      BY DEF ExistenceIsRight
    <2>1. KnownInv
      BY DEF ExistenceInv, Settled
    <2>2. NothingQueued(n) /\ NoneComing(n) /\ ~IsMoving(n)
      BY DEF Settled, NothingQueued, NoneComing, IsMoving
    <2>3. QED
      BY <2>1, <2>2 DEF KnownInv
  <1>3. QED
    BY <1>1, <1>2, ExistenceInit, PTL DEF Spec

=============================================================================
