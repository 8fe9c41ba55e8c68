--------------------------- MODULE FileResultsProofs ---------------------------
(***************************************************************************)
(* Proofs about FileResults, for any set of names, any filter, any queue    *)
(* limit and any number of runs.                                            *)
(***************************************************************************)
EXTENDS FileResults, ResultLifeProofs

(* After an event the model believes the file to be as the event left it.   *)
LEMMA OnEventExists ==
    ASSUME NEW r \in WatchedResult, NEW act \in Action, NEW known \in BOOLEAN
    PROVE  Exists(OnEvent(r, act, known)) = After(act)
  BY DEF OnEvent, FirstResult, NextResult, FirstType, PresentType, GoneType, Exists,
         ExistedAtStart, Contradicts, WatchedResult, ResultType, Action, NoResult, After

(* The rewriting of an ATTRIB into a CREATE leaves what follows alone.       *)
LEMMA EffectiveAction ==
    ASSUME NEW r \in WatchedResult, NEW act \in Action, NEW known \in BOOLEAN
    PROVE  /\ Effective(r, act, known, IsRoot) \in Action
           /\ After(Effective(r, act, known, IsRoot)) = After(act)
           /\ IsRoot => Effective(r, act, known, IsRoot) = act
  BY IsRootAssumption DEF Effective, Action, After, Exists, WatchedResult, ResultType, NoResult

(* The first event decides what a result says of the beginning of the run.   *)
LEMMA FirstResultTells ==
    ASSUME NEW act \in Action, NEW known \in BOOLEAN
    PROVE  LET new == OnEvent(NoResult, act, known) IN
           /\ ExistedAtStart(new) = Before(act)
           /\ ~known => new.inconsistent = Before(act)
  BY DEF OnEvent, FirstResult, FirstType, ExistedAtStart, Before, Action, NoResult

-----------------------------------------------------------------------------
(* Types.                                                                   *)

(* Every step of the environment is a change of one file, announced by an    *)
(* event that tells how the file was before and is after it.                 *)
LEMMA ChangeShape ==
    ASSUME TypeOK, Environment
    PROVE  \E n \in Names, act \in Action :
              /\ disk[n] = Before(act)
              /\ disk' = [disk EXCEPT ![n] = After(act)]
              /\ Change(n, act)
  <1>1. PICK n \in Names : \/ CreateFile(n)
                           \/ DeleteFile(n)
                           \/ \E act \in {"modify", "attrib"} : TouchFile(n, act)
    BY DEF Environment
  <1>2. CASE CreateFile(n)
    BY <1>2 DEF CreateFile, TypeOK, Before, After, Action
  <1>3. CASE DeleteFile(n)
    BY <1>3 DEF DeleteFile, TypeOK, Before, After, Action
  <1>4. ASSUME NEW act \in {"modify", "attrib"}, TouchFile(n, act)
        PROVE  /\ disk[n] = Before(act)
               /\ disk' = [disk EXCEPT ![n] = After(act)]
               /\ Change(n, act)
    BY <1>4 DEF TouchFile, TypeOK, Before, After
  <1>5. QED
    BY <1>1, <1>2, <1>3, <1>4 DEF Action

(* The queue after a change: the event is appended unless the directory has  *)
(* no watch, or the event is merged or lost.                                 *)
LEMMA NotifyQueue ==
    ASSUME TypeOK, NEW n \in Names, NEW act \in Action, Notify(n, act)
    PROVE  LET e == [wd |-> wd, name |-> n, act |-> act] IN
           /\ queue' \in Seq(Event)
           /\ lost' \in BOOLEAN
           /\ queue' = queue \/ (wd # 0 /\ queue' = Append(queue, e))
           /\ wd # 0 /\ ~lost' =>
                 \/ queue' = Append(queue, e)
                 \/ queue' = queue /\ Len(queue) > 0 /\ queue[Len(queue)] = e
           /\ ~lost' => ~lost
  <1> DEFINE e == [wd |-> wd, name |-> n, act |-> act]
             merged == Len(queue) > 0 /\ queue[Len(queue)] = e
             full == Len(queue) >= MaxQueue
  <1>1. e \in Event
    BY DEF Event, TypeOK
  <1>2. /\ queue' = IF wd = 0 \/ merged \/ full THEN queue ELSE Append(queue, e)
        /\ lost' = (lost \/ (wd # 0 /\ ~merged /\ full))
    BY DEF Notify
  <1> HIDE DEF e
  <1>3. queue' = queue \/ (wd # 0 /\ queue' = Append(queue, e))
    BY <1>2
  <1>4. queue' \in Seq(Event)
    BY <1>1, <1>3 DEF TypeOK
  <1> HIDE DEF merged, full
  <1>5. lost' \in BOOLEAN
    BY <1>2
  <1>6. ~lost' => ~lost
    BY <1>2
  <1>7. ASSUME wd # 0, ~lost' PROVE queue' = Append(queue, e) \/ (queue' = queue /\ merged)
    BY <1>2, <1>7
  <1>8. QED
    BY <1>3, <1>4, <1>5, <1>6, <1>7 DEF e, merged

(* The types hold initially.                                                *)
LEMMA TypeInit == Init => TypeOK
  <1> SUFFICES ASSUME Init PROVE TypeOK
    OBVIOUS
  <1>1. results \in [Names -> WatchedResult] /\ shown \in [Names -> ResultType]
    BY NoResultType DEF Init, ResultType
  <1>2. queue \in Seq(Event)
    BY DEF Init
  <1>3. QED
    BY <1>1, <1>2 DEF Init, TypeOK

(* Every step preserves the types.                                          *)
LEMMA TypeStep == TypeOK /\ [Next]_vars => TypeOK'
  <1> SUFFICES ASSUME TypeOK, [Next]_vars PROVE TypeOK'
    OBVIOUS
  <1>1. CASE Environment
    <2>1. PICK n \in Names, act \in Action :
              /\ disk' = [disk EXCEPT ![n] = After(act)]
              /\ Change(n, act)
      BY <1>1, ChangeShape
    <2>2. queue' \in Seq(Event) /\ lost' \in BOOLEAN
      BY <2>1, NotifyQueue DEF Change
    <2>3. disk' \in [Names -> BOOLEAN]
      <3>1. After(act) \in BOOLEAN
        BY DEF After
      <3>2. QED
        BY <2>1, <3>1 DEF TypeOK
    <2>4. QED
      BY <2>1, <2>2, <2>3 DEF Change, scan, model, TypeOK
  <1>2. CASE Start
    <2>1. wd' \in Nat /\ lastWd' \in Nat
      BY <1>2 DEF Start, AddWatch, TypeOK
    <2>2. QED
      BY <1>2, <2>1 DEF Start, AddWatch, TypeOK
  <1>3. CASE StartAbsent
    BY <1>3, NoResultType DEF StartAbsent, ForgetResults, kernel, TypeOK, ResultType
  <1>4. CASE DirectoryAppears
    <2>1. wd' \in Nat /\ lastWd' \in Nat
      BY <1>4 DEF DirectoryAppears, AddWatch, TypeOK
    <2>2. QED
      BY <1>4, <2>1 DEF DirectoryAppears, AddWatch, TypeOK
  <1>5. ASSUME NEW n \in Names, ReadName(n) PROVE TypeOK'
    BY <1>5 DEF ReadName, kernel, model, TypeOK
  <1>6. ASSUME NEW n \in Names, HandleListed(n) PROVE TypeOK'
    <2>1. CASE fresh /\ n \notin Excluded
      <3>1. OnScan(results[n]) \in WatchedResult
        BY OnScanResult DEF TypeOK
      <3>2. results' \in [Names -> WatchedResult]
        BY <1>6, <2>1, <3>1 DEF HandleListed, RecordImmediate, TypeOK
      <3>3. shown' \in [Names -> ResultType]
        BY <1>6, <2>1, <3>1 DEF HandleListed, RecordImmediate, TypeOK, WatchedResult
      <3>4. hasInconsistencies' \in BOOLEAN
        BY <1>6, <2>1 DEF HandleListed, RecordImmediate, TypeOK
      <3>5. QED
        BY <1>6, <2>1, <3>2, <3>3, <3>4 DEF HandleListed, RecordImmediate, kernel, TypeOK
    <2>2. CASE fresh /\ n \in Excluded
      BY <1>6, <2>2 DEF HandleListed, RecordImmediate, kernel, TypeOK
    <2>3. CASE ~fresh
      BY <1>6, <2>3 DEF HandleListed, RememberExisting, kernel, TypeOK
    <2>4. QED
      BY <2>1, <2>2, <2>3
  <1>7. CASE EndListing
    <2>1. CASE fresh
      BY <1>7, <2>1 DEF EndListing, scan, kernel, TypeOK
    <2>2. CASE ~fresh
      BY <1>7, <2>2, NoResultType
      DEF EndListing, ForgetResults, scan, kernel, TypeOK, ResultType
    <2>3. QED
      BY <2>1, <2>2
  <1>8. CASE Dispatch
    <2> DEFINE e == Head(queue)
               n == e.name
    <2>1. e \in Event /\ queue' \in Seq(Event)
      BY <1>8 DEF Dispatch, TypeOK
    <2>2. CASE OnFileModified(n, e.act)
      <3>1. n \in Names /\ e.act \in Action
        BY <2>1 DEF Event
      <3> DEFINE known == n \in existing
                 act == Effective(results[n], e.act, known, IsRoot)
                 new == OnEvent(results[n], act, known)
      <3>0. results[n] \in WatchedResult /\ known \in BOOLEAN
        BY <3>1 DEF TypeOK
      <3> HIDE DEF known
      <3>2. act \in Action
        BY <3>1, <3>0, EffectiveAction
      <3> HIDE DEF act
      <3>3. new \in WatchedResult
        BY <3>0, <3>2, OnEventType
      <3>4. new.type \in ResultType /\ new.inconsistent \in BOOLEAN
        BY <3>3 DEF WatchedResult
      <3>5. /\ results' = [results EXCEPT ![n] = new]
            /\ existing' = existing \ {n}
            /\ hasInconsistencies' =
                  (hasInconsistencies \/ (new.inconsistent /\ ~results[n].inconsistent))
            /\ \/ shown' = [shown EXCEPT ![n] = new.type]
               \/ shown' = shown
        BY <2>2 DEF OnFileModified, act, known
      <3> HIDE DEF new
      <3>6. QED
        BY <1>8, <2>1, <3>1, <3>3, <3>4, <3>5 DEF Dispatch, scan, TypeOK
    <2>3. CASE UNCHANGED model
      BY <1>8, <2>1, <2>3 DEF Dispatch, model, scan, TypeOK
    <2>4. QED
      BY <1>8, <2>2, <2>3 DEF Dispatch
  <1>9. CASE Stop
    BY <1>9 DEF Stop, kernel, scan, model, TypeOK
  <1>10. CASE UNCHANGED vars
    BY <1>10 DEF vars, TypeOK
  <1>11. QED
    BY <1>1, <1>2, <1>3, <1>4, <1>5, <1>6, <1>7, <1>8, <1>9, <1>10 DEF Next, Listing

(* The variables keep their types.                                          *)
THEOREM TypeCorrect == Spec => []TypeOK
  BY TypeInit, TypeStep, PTL DEF Spec

-----------------------------------------------------------------------------
(* What steps do to the pending events.                                     *)

(* A change of file n makes n's event the youngest of n, and leaves the      *)
(* pending events of the other files as they are.                           *)
LEMMA PendingAfterChange ==
    ASSUME TypeOK, TypeOK', wd # 0, ~lost',
           NEW n \in Names, NEW act \in Action, Change(n, act)
    PROVE  /\ ~NothingPending(n)'
           /\ \A m \in Names \ {n} : NothingPending(m)' => NothingPending(m)
           /\ \A i \in DOMAIN queue' : IsLastPending(i, n)' => queue'[i].act = act
           /\ \A m \in Names \ {n}, i \in DOMAIN queue' : IsLastPending(i, m)' =>
                 i \in DOMAIN queue /\ IsLastPending(i, m) /\ queue'[i] = queue[i]
           /\ \A m \in Names, i \in DOMAIN queue' : IsFirstPending(i, m)' =>
                 \/ i \in DOMAIN queue /\ IsFirstPending(i, m) /\ queue'[i] = queue[i]
                 \/ m = n /\ NothingPending(n) /\ queue'[i].act = act
  <1> DEFINE e == [wd |-> wd, name |-> n, act |-> act]
  <1>1. /\ wd' = wd
        /\ queue \in Seq(Event)
        /\ e \in Event
        /\ \/ queue' = Append(queue, e)
           \/ queue' = queue /\ Len(queue) > 0 /\ queue[Len(queue)] = e
    BY NotifyQueue DEF Change, TypeOK, Event
  <1>2. e.wd = wd /\ e.name = n /\ e.act = act
    OBVIOUS
  <1> HIDE DEF e
  <1>3. CASE queue' = Append(queue, e)
    <2>0. PICK k \in Nat : k = Len(queue)
      BY <1>1
    <2>1. /\ Len(queue') = k + 1
          /\ queue'[k + 1] = e
          /\ \A i \in 1..k : queue'[i] = queue[i]
          /\ DOMAIN queue = 1..k
          /\ DOMAIN queue' = 1..(k + 1)
      BY <1>1, <1>3, <2>0
    <2>2. IsPending(k + 1, n)'
      BY <1>1, <1>2, <2>1 DEF IsPending
    <2>3. \A m \in Names, i \in 1..k : IsPending(i, m)' = IsPending(i, m)
      BY <1>1, <2>1 DEF IsPending
    <2>4. \A m \in Names \ {n} : ~IsPending(k + 1, m)'
      BY <1>1, <1>2, <2>1 DEF IsPending
    <2> HIDE DEF IsPending
    <2>5. ~NothingPending(n)'
      BY <2>1, <2>2 DEF NothingPending
    <2>6. \A m \in Names \ {n} : NothingPending(m)' => NothingPending(m)
      BY <2>1, <2>3 DEF NothingPending
    <2>7. \A i \in DOMAIN queue' : IsLastPending(i, n)' => queue'[i].act = act
      BY <1>2, <2>1, <2>2 DEF IsLastPending
    <2>8. ASSUME NEW m \in Names \ {n}, NEW i \in DOMAIN queue', IsLastPending(i, m)'
          PROVE  i \in DOMAIN queue /\ IsLastPending(i, m) /\ queue'[i] = queue[i]
      BY <2>0, <2>1, <2>3, <2>4, <2>8 DEF IsLastPending
    <2>9. ASSUME NEW m \in Names, NEW i \in DOMAIN queue', IsFirstPending(i, m)'
          PROVE  \/ i \in DOMAIN queue /\ IsFirstPending(i, m) /\ queue'[i] = queue[i]
                 \/ m = n /\ NothingPending(n) /\ queue'[i].act = act
      <3>1. CASE i \in 1..k
        BY <2>1, <2>3, <2>9, <3>1 DEF IsFirstPending
      <3>2. CASE i = k + 1
        BY <1>2, <2>1, <2>3, <2>4, <2>9, <3>2 DEF IsFirstPending, NothingPending
      <3>3. QED
        BY <2>1, <3>1, <3>2
    <2>10. QED
      BY <2>5, <2>6, <2>7, <2>8, <2>9
  <1>4. CASE queue' = queue /\ Len(queue) > 0 /\ queue[Len(queue)] = e
    <2>1. DOMAIN queue = 1..Len(queue) /\ Len(queue) \in 1..Len(queue)
      BY <1>1, <1>4
    <2>2. IsPending(Len(queue), n)
      BY <1>2, <1>4 DEF IsPending
    <2>3. \A m \in Names : /\ NothingPending(m)' = NothingPending(m)
                           /\ \A i : /\ IsLastPending(i, m)' = IsLastPending(i, m)
                                     /\ IsFirstPending(i, m)' = IsFirstPending(i, m)
      BY <1>1, <1>4 DEF NothingPending, IsLastPending, IsFirstPending, IsPending
    <2>4. ~NothingPending(n)
      BY <2>1, <2>2 DEF NothingPending
    <2>5. \A i \in DOMAIN queue : IsLastPending(i, n) => queue[i].act = act
      BY <1>2, <1>4, <2>1, <2>2 DEF IsLastPending
    <2>6. QED
      BY <1>4, <2>3, <2>4, <2>5
  <1>5. QED
    BY <1>1, <1>3, <1>4

(* Reading the oldest event moves the others one place forward.             *)
LEMMA PendingAfterDispatch ==
    ASSUME TypeOK, Dispatch
    PROVE  /\ 1 \in DOMAIN queue
           /\ \A i \in DOMAIN queue' : i + 1 \in DOMAIN queue /\ queue'[i] = queue[i + 1]
           /\ \A n \in Names : NothingPending(n)' /\ ~IsPending(1, n) => NothingPending(n)
           /\ \A n \in Names : NothingPending(n)' /\ IsPending(1, n) => IsLastPending(1, n)
           /\ \A n \in Names, i \in DOMAIN queue' :
                 /\ IsLastPending(i, n)' => IsLastPending(i + 1, n)
                 /\ IsFirstPending(i, n)' /\ ~IsPending(1, n) => IsFirstPending(i + 1, n)
  <1>1. /\ queue \in Seq(Event)
        /\ queue # <<>>
        /\ queue' = Tail(queue)
        /\ wd' = wd
    BY DEF Dispatch, TypeOK
  <1>2. /\ Len(queue) \in Nat
        /\ Len(queue) >= 1
        /\ DOMAIN queue = 1..Len(queue)
        /\ Len(queue') = Len(queue) - 1
        /\ DOMAIN queue' = 1..(Len(queue) - 1)
        /\ \A i \in 1..(Len(queue) - 1) : queue'[i] = queue[i + 1]
    BY <1>1
  <1>3. \A n \in Names, i \in 1..(Len(queue) - 1) : IsPending(i, n)' = IsPending(i + 1, n)
    BY <1>1, <1>2 DEF IsPending
  <1> HIDE DEF IsPending
  <1>4. \A i \in 2..Len(queue) : i - 1 \in 1..(Len(queue) - 1) /\ (i - 1) + 1 = i
    BY <1>2
  <1>5. \A n \in Names, i \in 2..Len(queue) : IsPending(i, n) = IsPending(i - 1, n)'
    BY <1>3, <1>4
  <1>6. ASSUME NEW n \in Names, NothingPending(n)'
        PROVE  \A i \in 2..Len(queue) : ~IsPending(i, n)
    BY <1>2, <1>4, <1>5, <1>6 DEF NothingPending
  <1>7. \A i \in 1..Len(queue) : i = 1 \/ i \in 2..Len(queue)
    BY <1>2
  <1>8. ASSUME NEW n \in Names, NEW i \in DOMAIN queue', IsLastPending(i, n)'
        PROVE  IsLastPending(i + 1, n)
    <2>1. IsPending(i + 1, n)
      BY <1>2, <1>3, <1>8 DEF IsLastPending
    <2>2. ASSUME NEW j \in ((i + 1) + 1)..Len(queue) PROVE ~IsPending(j, n)
      <3>1. j \in 2..Len(queue) /\ j - 1 \in (i + 1)..(Len(queue) - 1)
        BY <1>2
      <3>2. QED
        BY <1>2, <1>5, <1>8, <3>1 DEF IsLastPending
    <2>3. QED
      BY <2>1, <2>2 DEF IsLastPending
  <1>9. ASSUME NEW n \in Names, NEW i \in DOMAIN queue', IsFirstPending(i, n)', ~IsPending(1, n)
        PROVE  IsFirstPending(i + 1, n)
    <2>1. IsPending(i + 1, n)
      BY <1>2, <1>3, <1>9 DEF IsFirstPending
    <2>2. ASSUME NEW j \in 1..((i + 1) - 1) PROVE ~IsPending(j, n)
      <3>1. CASE j = 1
        BY <1>9, <3>1
      <3>2. CASE j # 1
        <4>1. j \in 2..Len(queue) /\ j - 1 \in 1..(i - 1)
          BY <1>2, <3>2
        <4>2. QED
          BY <1>5, <1>9, <4>1 DEF IsFirstPending
      <3>3. QED
        BY <3>1, <3>2
    <2>3. QED
      BY <2>1, <2>2 DEF IsFirstPending
  <1>10. QED
    BY <1>2, <1>6, <1>7, <1>8, <1>9 DEF NothingPending, IsLastPending

(* What handling an event of file n does to what is known of n.             *)
LEMMA Handled ==
    ASSUME TypeOK, NEW n \in Names, NEW event \in Action, OnFileModified(n, event)
    PROVE  /\ results' = [results EXCEPT ![n] = results'[n]]
           /\ existing' = existing \ {n}
           /\ results'[n] # NoResult
           /\ Exists(results'[n]) = After(event)
           /\ results[n] # NoResult =>
                 /\ ExistedAtStart(results'[n]) = ExistedAtStart(results[n])
                 /\ results[n].inconsistent => results'[n].inconsistent
           /\ results[n] = NoResult /\ IsRoot => ExistedAtStart(results'[n]) = Before(event)
           /\ results[n] = NoResult /\ n \notin existing =>
                 results'[n].inconsistent \/ ~ExistedAtStart(results'[n])
  <1> DEFINE known == n \in existing
             act == Effective(results[n], event, known, IsRoot)
             new == OnEvent(results[n], act, known)
  <1>1. /\ results' = [results EXCEPT ![n] = new]
        /\ existing' = existing \ {n}
    BY DEF OnFileModified
  <1>2. results[n] \in WatchedResult /\ known \in BOOLEAN
    BY DEF TypeOK
  <1>3. results'[n] = new
    BY <1>1 DEF TypeOK
  <1> HIDE DEF new
  <1>4. results' = [results EXCEPT ![n] = results'[n]]
    BY <1>1, <1>3
  <1>5. (n \notin existing) = ~known
    OBVIOUS
  <1> HIDE DEF known
  <1>6. act \in Action /\ After(act) = After(event) /\ (IsRoot => act = event)
    BY <1>2, EffectiveAction
  <1> HIDE DEF act
  <1>7. new # NoResult /\ Exists(new) = After(event)
    BY <1>2, <1>6, OnEventType, OnEventExists DEF new
  <1>8. results[n] # NoResult =>
          /\ ExistedAtStart(new) = ExistedAtStart(results[n])
          /\ results[n].inconsistent => new.inconsistent
    BY <1>2, <1>6, NextResultKeeps DEF new
  <1>9. results[n] = NoResult => /\ ExistedAtStart(new) = Before(act)
                                 /\ ~known => new.inconsistent = Before(act)
    BY <1>2, <1>6, FirstResultTells DEF new
  <1>10. QED
    BY <1>1, <1>3, <1>4, <1>5, <1>6, <1>7, <1>8, <1>9

(* Steps that leave the queue and the watch alone leave pending events alone. *)
LEMMA PendingUnchanged ==
    ASSUME UNCHANGED <<queue, wd>>
    PROVE  /\ \A n : NothingPending(n)' = NothingPending(n)
           /\ \A n, i : /\ IsLastPending(i, n)' = IsLastPending(i, n)
                        /\ IsFirstPending(i, n)' = IsFirstPending(i, n)
  BY DEF NothingPending, IsLastPending, IsFirstPending, IsPending

(* No queued event carries a descriptor that was never given out.            *)
LEMMA NothingPendingForNewWatch ==
    ASSUME TypeOK, DescriptorsInv, AddWatch, UNCHANGED queue
    PROVE  /\ \A n : NothingPending(n)'
           /\ \A n \in Names, i \in DOMAIN queue' : ~IsLastPending(i, n)' /\ ~IsFirstPending(i, n)'
  <1>1. \A i \in DOMAIN queue : queue[i].wd # wd'
    <2> SUFFICES ASSUME NEW i \in DOMAIN queue PROVE queue[i].wd # wd'
      OBVIOUS
    <2>1. queue[i] \in Event
      BY DEF TypeOK
    <2>2. queue[i].wd \in Nat /\ queue[i].wd <= lastWd /\ lastWd \in Nat
      BY <2>1 DEF Event, DescriptorsInv, TypeOK
    <2>3. QED
      BY <2>2 DEF AddWatch
  <1>2. QED
    BY <1>1 DEF NothingPending, IsLastPending, IsFirstPending, IsPending

-----------------------------------------------------------------------------
(* The inductive invariant.                                                 *)

(* It holds initially: there is no watch, no event and no run.              *)
LEMMA IInvInit == Init => IInv
  <1> SUFFICES ASSUME Init PROVE IInv
    OBVIOUS
  <1>1. TypeOK
    BY TypeInit
  <1>2. wd = 0 /\ phase = "stopped" /\ ~fresh /\ lastWd = 0 /\ DOMAIN queue = {}
    BY DEF Init
  <1>3. DescriptorsInv
    BY <1>2 DEF DescriptorsInv
  <1>4. QED
    BY <1>1, <1>2, <1>3 DEF IInv, LastPendingInv, KnownInv, ListingInv, FirstPendingInv, FreshInv, OriginInv

(* A change made by another process preserves it.                           *)
LEMMA IInvEnvironment ==
    ASSUME IInv, TypeOK', Environment
    PROVE  IInv'
  <1>1. TypeOK
    BY DEF IInv
  <1>2. PICK n \in Names, act \in Action :
            /\ disk[n] = Before(act)
            /\ disk' = [disk EXCEPT ![n] = After(act)]
            /\ Change(n, act)
    BY <1>1, ChangeShape
  <1>3. /\ UNCHANGED <<wd, lastWd, phase, atStart, toRead, listed, fresh, existing, results>>
        /\ ~lost' => ~lost
        /\ disk'[n] = After(act)
        /\ \A m \in Names \ {n} : disk'[m] = disk[m]
    BY <1>1, <1>2, NotifyQueue DEF Change, scan, model, TypeOK
  <1>4. wd # 0 /\ ~lost' =>
           /\ ~NothingPending(n)'
           /\ \A m \in Names \ {n} : NothingPending(m)' => NothingPending(m)
           /\ \A i \in DOMAIN queue' : IsLastPending(i, n)' => queue'[i].act = act
           /\ \A m \in Names \ {n}, i \in DOMAIN queue' : IsLastPending(i, m)' =>
                 i \in DOMAIN queue /\ IsLastPending(i, m) /\ queue'[i] = queue[i]
           /\ \A m \in Names, i \in DOMAIN queue' : IsFirstPending(i, m)' =>
                 \/ i \in DOMAIN queue /\ IsFirstPending(i, m) /\ queue'[i] = queue[i]
                 \/ m = n /\ NothingPending(n) /\ queue'[i].act = act
    BY <1>1, <1>2, PendingAfterChange
  <1>5. DescriptorsInv'
    <2> DEFINE e == [wd |-> wd, name |-> n, act |-> act]
    <2>1. queue \in Seq(Event) /\ e \in Event /\ e.wd = wd /\ wd <= lastWd
      BY <1>1 DEF TypeOK, Event, IInv, DescriptorsInv
    <2>2. queue' = queue \/ (wd # 0 /\ queue' = Append(queue, e))
      BY <1>1, <1>2, NotifyQueue DEF Change
    <2> HIDE DEF e
    <2>3. \A i \in DOMAIN queue' : \/ i \in DOMAIN queue /\ queue'[i] = queue[i]
                                   \/ wd # 0 /\ queue'[i] = e
      BY <2>1, <2>2
    <2>4. wd # 0 => e.wd \in 1..lastWd
      BY <1>1, <2>1 DEF TypeOK
    <2>5. QED
      BY <1>3, <2>3, <2>4 DEF IInv, DescriptorsInv
  <1>6. LastPendingInv'
    BY <1>3, <1>4 DEF IInv, LastPendingInv
  <1>7. KnownInv'
    <2> SUFFICES ASSUME wd # 0, ~lost', NEW m \in Names \ Excluded, NothingPending(m)'
                 PROVE  /\ m \in listed => disk'[m]
                        /\ m \notin toRead \cup listed => Believed(m)' = disk'[m]
      BY <1>3 DEF KnownInv
    <2>1. m # n /\ NothingPending(m) /\ disk'[m] = disk[m]
      BY <1>3, <1>4
    <2>2. Believed(m)' = Believed(m)
      BY <1>3 DEF Believed, Known
    <2>3. QED
      BY <1>3, <2>1, <2>2 DEF IInv, KnownInv
  <1>8. FirstPendingInv'
    BY <1>2, <1>3, <1>4 DEF IInv, FirstPendingInv
  <1>9. FreshInv'
    BY <1>3 DEF IInv, FreshInv
  <1>10. OriginInv'
    BY <1>3 DEF IInv, OriginInv
  <1>11. ListingInv'
    BY <1>3 DEF IInv, ListingInv
  <1>12. QED
    BY <1>5, <1>6, <1>7, <1>8, <1>9, <1>10, <1>11 DEF IInv

(* Starting, stopping and noticing the directory preserve it.               *)
LEMMA IInvControl ==
    ASSUME IInv, TypeOK', Start \/ StartAbsent \/ DirectoryAppears \/ Stop
    PROVE  IInv'
  <1>1. CASE Start \/ DirectoryAppears
    <2>1. AddWatch /\ UNCHANGED <<disk, queue, results>>
      BY <1>1 DEF Start, DirectoryAppears
    <2>2. /\ \A n : NothingPending(n)'
          /\ \A n \in Names, i \in DOMAIN queue' : ~IsLastPending(i, n)' /\ ~IsFirstPending(i, n)'
      BY <2>1, NothingPendingForNewWatch DEF IInv
    <2>3. DescriptorsInv'
      <3>0. \A i \in DOMAIN queue : queue[i] \in Event
        BY DEF IInv, TypeOK
      <3>1. \A i \in DOMAIN queue : queue[i].wd \in Nat
        BY <3>0 DEF Event
      <3>2. QED
        BY <2>1, <3>1 DEF IInv, TypeOK, DescriptorsInv, AddWatch
    <2>4. LastPendingInv'
      BY <2>2 DEF LastPendingInv
    <2>5. KnownInv'
      BY <2>1 DEF KnownInv, AddWatch
    <2>6. FirstPendingInv'
      BY <1>1, <2>1, <2>2 DEF FirstPendingInv, Start, DirectoryAppears, IInv, FreshInv
    <2>7. FreshInv'
      BY <1>1, <2>1 DEF FreshInv, Start, DirectoryAppears, AddWatch, IInv
    <2>8. OriginInv'
      <3>1. CASE Start
        BY <2>1, <3>1 DEF OriginInv, Start, AddWatch
      <3>2. CASE DirectoryAppears
        <4>1. fresh => \A n \in Names : results'[n] = NoResult
          BY <3>2 DEF DirectoryAppears, IInv, FreshInv
        <4>2. QED
          BY <2>1, <3>2, <4>1 DEF OriginInv, DirectoryAppears, AddWatch
      <3>3. QED
        BY <1>1, <3>1, <3>2
    <2>9. ListingInv'
      <3>1. fresh' => \A n \in Names : results'[n] = NoResult
        BY <1>1 DEF Start, DirectoryAppears, IInv, FreshInv
      <3>2. toRead' = Names /\ listed' = {} /\ existing' = {} /\ phase' = "listing"
        BY <2>1 DEF AddWatch
      <3>3. QED
        BY <3>1, <3>2 DEF ListingInv
    <2>10. QED
      BY <2>3, <2>4, <2>5, <2>6, <2>7, <2>8, <2>9 DEF IInv
  <1>2. CASE StartAbsent
    <2>1. wd = 0 /\ UNCHANGED <<wd, lastWd, queue>> /\ phase' = "absent" /\ existing' = {}
      BY <1>2 DEF StartAbsent, kernel, IInv, DescriptorsInv
    <2>2. DescriptorsInv'
      BY <2>1 DEF IInv, DescriptorsInv
    <2>3. FreshInv'
      BY <1>2, <2>1 DEF StartAbsent, ForgetResults, FreshInv
    <2>4. QED
      BY <2>1, <2>2, <2>3 DEF IInv, LastPendingInv, KnownInv, ListingInv, FirstPendingInv, OriginInv
  <1>3. CASE Stop
    <2>1. wd' = 0 /\ phase' = "stopped" /\ UNCHANGED <<lastWd, queue>>
      BY <1>3 DEF Stop, kernel
    <2>2. DescriptorsInv'
      BY <2>1 DEF IInv, DescriptorsInv, TypeOK
    <2>3. QED
      BY <2>1, <2>2
      DEF IInv, LastPendingInv, KnownInv, ListingInv, FirstPendingInv, FreshInv, OriginInv
  <1>4. QED
    BY <1>1, <1>2, <1>3

(* The steps of a listing preserve it.                                      *)
LEMMA IInvListing ==
    ASSUME IInv, TypeOK', Listing
    PROVE  IInv'
  <1>1. /\ UNCHANGED <<disk, queue, wd, lastWd, lost, fresh, atStart>>
        /\ wd # 0
        /\ phase = "listing"
        /\ phase' \in {"listing", "running"}
    BY DEF Listing, ReadName, HandleListed, EndListing, kernel, scan, IInv, DescriptorsInv
  <1>2. /\ \A n : NothingPending(n)' = NothingPending(n)
        /\ \A n, i : /\ IsLastPending(i, n)' = IsLastPending(i, n)
                     /\ IsFirstPending(i, n)' = IsFirstPending(i, n)
    BY <1>1, PendingUnchanged
  <1>3. DescriptorsInv'
    BY <1>1 DEF IInv, DescriptorsInv
  <1>4. LastPendingInv'
    BY <1>1, <1>2 DEF IInv, LastPendingInv
  <1>5. ASSUME NEW n \in Names, ReadName(n) PROVE IInv'
    <2>1. UNCHANGED <<phase, existing, results>>
      BY <1>5 DEF ReadName, model
    <2>2. \A m \in Names : Believed(m)' = Believed(m)
      BY <1>1, <2>1 DEF Believed, Known
    <2>3. KnownInv'
      <3> SUFFICES ASSUME ~lost, NEW m \in Names \ Excluded, NothingPending(m)
                   PROVE  /\ m \in listed' => disk[m]
                          /\ m \notin toRead' \cup listed' => Believed(m) = disk[m]
        BY <1>1, <1>2, <2>2 DEF KnownInv
      <3>1. /\ m \in listed => disk[m]
            /\ m \notin toRead \cup listed => Believed(m) = disk[m]
        BY <1>1 DEF IInv, KnownInv
      <3>2. CASE m = n /\ ~disk[n]
        <4>1. Believed(n) = FALSE
          BY <1>1, <1>5, <3>2 DEF Believed, Known, ReadName, IInv, ListingInv, FreshInv
        <4>2. disk[n] = FALSE
          BY <3>2 DEF IInv, TypeOK
        <4>3. QED
          BY <1>5, <3>1, <3>2, <4>1, <4>2 DEF ReadName
      <3>3. CASE ~(m = n /\ ~disk[n])
        BY <1>5, <3>1, <3>3 DEF ReadName
      <3>4. QED
        BY <3>2, <3>3
    <2>4. ListingInv'
      BY <1>1, <1>5, <2>1 DEF ReadName, IInv, ListingInv
    <2>5. QED
      BY <1>1, <1>2, <1>3, <1>4, <2>1, <2>3, <2>4 DEF IInv, FirstPendingInv, FreshInv, OriginInv
  <1>6. ASSUME NEW n \in Names, HandleListed(n) PROVE IInv'
    <2>1. /\ n \in listed /\ listed' = listed \ {n} /\ UNCHANGED <<phase, toRead>>
          /\ n \notin toRead
          /\ IF fresh THEN RecordImmediate(n) ELSE RememberExisting(n)
      BY <1>1, <1>6 DEF HandleListed, IInv, ListingInv
    <2>2. \A m \in Names \ {n} : /\ results'[m] = results[m]
                                 /\ m \in existing' <=> m \in existing
      BY <2>1 DEF RecordImmediate, RememberExisting, IInv, TypeOK
    <2>3. \A m \in Names \ {n} : Believed(m)' = Believed(m)
      BY <1>1, <2>1, <2>2 DEF Believed, Known
    <2>4. n \notin Excluded /\ ~lost /\ NothingPending(n) => Believed(n)' = disk[n]
      <3> SUFFICES ASSUME n \notin Excluded, ~lost, NothingPending(n)
                   PROVE  Believed(n)' = disk[n]
        OBVIOUS
      <3>1. disk[n]
        BY <1>1, <2>1 DEF IInv, KnownInv
      <3>2. CASE fresh
        <4>1. results'[n] = OnScan(results[n]) /\ results[n] \in WatchedResult
          BY <2>1, <3>2 DEF RecordImmediate, IInv, TypeOK
        <4>2. results'[n] # NoResult /\ Exists(results'[n])
          BY <4>1, OnScanResult
        <4>3. Believed(n)'
          BY <1>1, <3>2, <4>2 DEF Believed, Known
        <4>4. QED
          BY <3>1, <4>3 DEF IInv, TypeOK, Believed, Known, Exists
      <3>3. CASE ~fresh
        <4>1. n \in existing'
          BY <2>1, <3>1, <3>3 DEF RememberExisting
        <4>2. QED
          BY <1>1, <2>1, <3>1, <3>3, <4>1 DEF Believed, IInv, TypeOK
      <3>4. QED
        BY <3>2, <3>3
    <2>5. KnownInv'
      <3> SUFFICES ASSUME ~lost, NEW m \in Names \ Excluded, NothingPending(m)
                   PROVE  /\ m \in listed' => disk[m]
                          /\ m \notin toRead' \cup listed' => Believed(m)' = disk[m]
        BY <1>1, <1>2 DEF KnownInv
      <3>1. /\ m \in listed => disk[m]
            /\ m \notin toRead \cup listed => Believed(m) = disk[m]
        BY <1>1 DEF IInv, KnownInv
      <3>2. QED
        BY <2>1, <2>3, <2>4, <3>1
    <2>6. ListingInv'
      BY <1>1, <2>1, <2>2 DEF IInv, ListingInv, TypeOK
    <2>7. FirstPendingInv'
      BY <1>1, <1>2, <2>1 DEF IInv, FirstPendingInv
    <2>8. FreshInv'
      BY <1>1, <2>1 DEF IInv, FreshInv, RecordImmediate
    <2>9. OriginInv'
      <3> SUFFICES ASSUME fresh, NEW m \in Names \ Excluded, results'[m] # NoResult
                   PROVE  results'[m].inconsistent \/ ~ExistedAtStart(results'[m])
        BY <1>1, <2>1 DEF OriginInv
      <3>1. CASE m = n
        <4>1. results[n] = NoResult
          BY <1>1, <2>1 DEF IInv, ListingInv
        <4>2. results'[n] = OnScan(results[n])
          BY <2>1, <3>1 DEF RecordImmediate, IInv, TypeOK
        <4>3. QED
          BY <3>1, <4>1, <4>2, OnScanResult, NoResultType
      <3>2. CASE m # n
        BY <1>1, <2>2, <3>2 DEF IInv, OriginInv
      <3>3. QED
        BY <3>1, <3>2
    <2>10. QED
      BY <1>3, <1>4, <2>5, <2>6, <2>7, <2>8, <2>9 DEF IInv
  <1>7. CASE EndListing
    <2>1. /\ toRead = {} /\ listed = {} /\ phase' = "running" /\ UNCHANGED existing
          /\ UNCHANGED <<toRead, listed>>
          /\ IF fresh THEN UNCHANGED results
                       ELSE results' = [n \in Names |-> NoResult]
      BY <1>7 DEF EndListing, ForgetResults, scan
    <2>2. \A m \in Names : Believed(m)' = Believed(m)
      BY <1>1, <2>1 DEF Believed, Known
    <2>3. KnownInv'
      BY <1>1, <1>2, <2>1, <2>2 DEF IInv, KnownInv
    <2>4. FirstPendingInv'
      BY <1>1, <1>2, <2>1 DEF IInv, FirstPendingInv
    <2>5. FreshInv'
      BY <1>1, <2>1 DEF IInv, FreshInv
    <2>6. OriginInv'
      BY <1>1, <2>1 DEF IInv, OriginInv
    <2>7. ListingInv'
      BY <2>1 DEF ListingInv
    <2>8. QED
      BY <1>3, <1>4, <2>3, <2>4, <2>5, <2>6, <2>7 DEF IInv
  <1>8. QED
    BY <1>5, <1>6, <1>7 DEF Listing

(* Handling, or dropping, the oldest event preserves it.                    *)
LEMMA IInvDispatch ==
    ASSUME IInv, TypeOK', Dispatch
    PROVE  IInv'
  <1> DEFINE e == queue[1]
             n == e.name
  <1>1. TypeOK
    BY DEF IInv
  <1>2. /\ UNCHANGED <<disk, lost, wd, lastWd, phase, atStart, toRead, listed, fresh>>
        /\ phase # "listing"
        /\ IF e.wd = wd /\ n \notin Excluded THEN OnFileModified(n, e.act) ELSE UNCHANGED model
    BY <1>1 DEF Dispatch, scan, TypeOK
  <1>3. e \in Event /\ n \in Names /\ e.act \in Action
    <2>1. e \in Event
      BY <1>1 DEF Dispatch, TypeOK
    <2>2. QED
      BY <2>1 DEF Event
  <1>4. /\ 1 \in DOMAIN queue
        /\ \A i \in DOMAIN queue' : i + 1 \in DOMAIN queue /\ queue'[i] = queue[i + 1]
        /\ \A m \in Names : NothingPending(m)' /\ ~IsPending(1, m) => NothingPending(m)
        /\ \A m \in Names : NothingPending(m)' /\ IsPending(1, m) => IsLastPending(1, m)
        /\ \A m \in Names, i \in DOMAIN queue' :
              /\ IsLastPending(i, m)' => IsLastPending(i + 1, m)
              /\ IsFirstPending(i, m)' /\ ~IsPending(1, m) => IsFirstPending(i + 1, m)
    BY <1>1, PendingAfterDispatch
  <1>5. \A m \in Names : IsPending(1, m) <=> e.wd = wd /\ m = n
    BY DEF IsPending
  <1>6. \A m \in Names : IsPending(1, m) => IsFirstPending(1, m)
    BY DEF IsFirstPending
  <1>7. \A m \in Names \ Excluded : IsPending(1, m) =>
           /\ m = n
           /\ OnFileModified(n, e.act)
    BY <1>2, <1>5
  <1>8. \A m \in Names \ Excluded : ~IsPending(1, m) =>
           /\ results'[m] = results[m]
           /\ m \in existing' <=> m \in existing
    <2>1. CASE UNCHANGED model
      BY <2>1 DEF model
    <2>2. CASE e.wd = wd /\ n \notin Excluded /\ OnFileModified(n, e.act)
      <3>1. /\ results' = [results EXCEPT ![n] = results'[n]]
            /\ existing' = existing \ {n}
        BY <1>1, <1>3, <2>2, Handled
      <3>2. QED
        BY <1>1, <1>5, <2>2, <3>1 DEF TypeOK
    <2>3. QED
      BY <1>2, <2>1, <2>2
  <1>9. existing' \subseteq existing
    BY <1>2 DEF OnFileModified, model
  <1>10. OnFileModified(n, e.act) =>
           /\ results'[n] # NoResult
           /\ Exists(results'[n]) = After(e.act)
           /\ results[n] # NoResult =>
                 /\ ExistedAtStart(results'[n]) = ExistedAtStart(results[n])
                 /\ results[n].inconsistent => results'[n].inconsistent
           /\ results[n] = NoResult /\ IsRoot => ExistedAtStart(results'[n]) = Before(e.act)
           /\ results[n] = NoResult /\ n \notin existing =>
                 results'[n].inconsistent \/ ~ExistedAtStart(results'[n])
    BY <1>1, <1>3, Handled
  <1> HIDE DEF e, n
  <1>11. DescriptorsInv'
    BY <1>2, <1>4 DEF IInv, DescriptorsInv
  <1>12. LastPendingInv'
    BY <1>2, <1>4 DEF IInv, LastPendingInv
  <1>13. KnownInv'
    <2> SUFFICES ASSUME wd # 0, ~lost, NEW m \in Names \ Excluded, NothingPending(m)'
                 PROVE  /\ m \in listed => disk[m]
                        /\ m \notin toRead \cup listed => Believed(m)' = disk[m]
      BY <1>2 DEF KnownInv
    <2>1. CASE IsPending(1, m)
      <3>1. IsLastPending(1, m) /\ m = n /\ OnFileModified(n, e.act)
        BY <1>4, <1>7, <2>1
      <3>2. After(e.act) = disk[m]
        BY <1>4, <3>1 DEF IInv, LastPendingInv, e
      <3>3. Believed(m)' = disk[m]
        BY <1>2, <1>10, <3>1, <3>2 DEF Believed, Known
      <3>4. m \notin listed
        BY <1>2 DEF IInv, DescriptorsInv, ListingInv
      <3>5. QED
        BY <3>3, <3>4
    <2>2. CASE ~IsPending(1, m)
      <3>1. NothingPending(m)
        BY <1>4, <2>2
      <3>2. Believed(m)' = Believed(m)
        BY <1>2, <1>8, <2>2 DEF Believed, Known
      <3>3. QED
        BY <3>1, <3>2 DEF IInv, KnownInv
    <2>3. QED
      BY <2>1, <2>2
  <1>14. ListingInv'
    BY <1>2 DEF IInv, ListingInv
  <1>15. FirstPendingInv'
    <2> SUFFICES ASSUME wd # 0, ~lost, ~fresh, NEW m \in Names \ Excluded, results'[m] = NoResult
                 PROVE  /\ NothingPending(m)' => disk[m] = atStart[m]
                        /\ \A i \in DOMAIN queue' :
                              IsFirstPending(i, m)' => Before(queue'[i].act) = atStart[m]
      BY <1>2 DEF FirstPendingInv
    <2>1. ~IsPending(1, m)
      BY <1>7, <1>10
    <2>2. results[m] = NoResult
      BY <1>8, <2>1
    <2>3. QED
      BY <1>4, <2>1, <2>2 DEF IInv, FirstPendingInv
  <1>16. FreshInv'
    <2>1. CASE e.wd = wd
      <3>1. wd # 0
        BY <1>4, <2>1 DEF IInv, DescriptorsInv, TypeOK, e
      <3>2. QED
        BY <1>2, <1>9, <3>1 DEF IInv, DescriptorsInv, FreshInv
    <2>2. CASE e.wd # wd
      BY <1>2, <2>2 DEF IInv, FreshInv, model
    <2>3. QED
      BY <2>1, <2>2
  <1>17. OriginInv'
    <2> SUFFICES ASSUME phase = "running", NEW m \in Names \ Excluded, results'[m] # NoResult
                 PROVE  /\ IsRoot /\ ~fresh /\ ~lost => ExistedAtStart(results'[m]) = atStart[m]
                        /\ fresh => \/ results'[m].inconsistent
                                    \/ ~ExistedAtStart(results'[m])
      BY <1>2 DEF OriginInv
    <2>1. results[m] # NoResult =>
             /\ IsRoot /\ ~fresh /\ ~lost => ExistedAtStart(results[m]) = atStart[m]
             /\ fresh => results[m].inconsistent \/ ~ExistedAtStart(results[m])
      BY DEF IInv, OriginInv
    <2>2. CASE ~IsPending(1, m)
      BY <1>8, <2>1, <2>2
    <2>3. CASE IsPending(1, m)
      <3>1. m = n /\ OnFileModified(n, e.act)
        BY <1>7, <2>3
      <3>2. CASE results[m] # NoResult
        BY <1>10, <2>1, <3>1, <3>2
      <3>3. CASE results[m] = NoResult
        <4>1. fresh => n \notin existing
          BY <3>1 DEF IInv, FreshInv
        <4>2. wd # 0 /\ IsFirstPending(1, m)
          BY <1>6, <2>3 DEF IInv, DescriptorsInv
        <4>3. ~fresh /\ ~lost => Before(e.act) = atStart[m]
          BY <1>4, <3>3, <4>2 DEF IInv, FirstPendingInv, e
        <4>4. QED
          BY <1>10, <3>1, <3>3, <4>1, <4>3
      <3>4. QED
        BY <3>2, <3>3
    <2>4. QED
      BY <2>2, <2>3
  <1>18. QED
    BY <1>11, <1>12, <1>13, <1>14, <1>15, <1>16, <1>17 DEF IInv

(* The invariant is inductive.                                              *)
LEMMA IInvStep == IInv /\ [Next]_vars => IInv'
  <1> SUFFICES ASSUME IInv, [Next]_vars PROVE IInv'
    OBVIOUS
  <1>1. TypeOK'
    BY TypeStep DEF IInv
  <1>2. CASE Environment
    BY <1>1, <1>2, IInvEnvironment
  <1>3. CASE Start \/ StartAbsent \/ DirectoryAppears \/ Stop
    BY <1>1, <1>3, IInvControl
  <1>4. CASE Listing
    BY <1>1, <1>4, IInvListing
  <1>5. CASE Dispatch
    BY <1>1, <1>5, IInvDispatch
  <1>6. CASE UNCHANGED vars
    <2>1. /\ \A n : NothingPending(n)' = NothingPending(n)
          /\ \A n, i : /\ IsLastPending(i, n)' = IsLastPending(i, n)
                       /\ IsFirstPending(i, n)' = IsFirstPending(i, n)
      BY <1>6, PendingUnchanged DEF vars
    <2>2. \A n : Believed(n)' = Believed(n)
      BY <1>6 DEF vars, Believed, Known
    <2>3. DescriptorsInv' /\ ListingInv' /\ FreshInv' /\ OriginInv'
      BY <1>6 DEF vars, IInv, DescriptorsInv, ListingInv, FreshInv, OriginInv
    <2>4. LastPendingInv' /\ KnownInv' /\ FirstPendingInv'
      BY <1>6, <2>1, <2>2 DEF vars, IInv, LastPendingInv, KnownInv, FirstPendingInv
    <2>5. QED
      BY <1>1, <2>3, <2>4 DEF IInv
  <1>7. QED
    BY <1>2, <1>3, <1>4, <1>5, <1>6 DEF Next

(* The invariant holds in every reachable state.                            *)
THEOREM Invariance == Spec => []IInv
  BY IInvInit, IInvStep, PTL DEF Spec

(* Once the events of a file are handled, the model knows whether the file   *)
(* exists, however the listing, the changes and the events interleaved.     *)
THEOREM ExistenceCorrect == Spec => []ExistenceIsRight
  <1>1. IInv => ExistenceIsRight
    <2> SUFFICES ASSUME IInv, NEW n \in Names, Settled(n)
                 PROVE  Known(n) = disk[n]
      BY DEF ExistenceIsRight
    <2>1. /\ wd # 0 /\ ~lost /\ phase = "running" /\ NothingPending(n)
          /\ n \in Names \ Excluded
          /\ toRead = {} /\ listed = {}
      BY DEF Settled, IInv, DescriptorsInv, ListingInv
    <2>2. Believed(n) = Known(n)
      BY <2>1 DEF Believed
    <2>3. QED
      BY <2>1, <2>2 DEF IInv, KnownInv
  <1>2. QED
    BY <1>1, Invariance, PTL

(* For root, or in a directory made while running, a result that is not      *)
(* flagged inconsistent tells whether the file existed when the run began,   *)
(* and a file without a result is as it was then.                           *)
THEOREM TypesCorrect == Spec => []TypeIsRight
  <1>1. IInv => TypeIsRight
    <2> SUFFICES ASSUME IInv, IsRoot \/ fresh, NEW n \in Names, Settled(n)
                 PROVE  IF results[n] = NoResult
                        THEN disk[n] = atStart[n]
                        ELSE \/ results[n].inconsistent
                             \/ ExistedAtStart(results[n]) = atStart[n]
      BY DEF TypeIsRight
    <2>1. /\ wd # 0 /\ ~lost /\ phase = "running" /\ NothingPending(n)
          /\ n \in Names \ Excluded
          /\ toRead = {} /\ listed = {}
      BY DEF Settled, IInv, DescriptorsInv, ListingInv
    <2>2. disk[n] \in BOOLEAN /\ atStart[n] \in BOOLEAN
      BY <2>1 DEF IInv, TypeOK
    <2>3. fresh => atStart[n] = FALSE /\ n \notin existing
      BY <2>1, <2>2 DEF IInv, FreshInv
    <2>4. CASE results[n] = NoResult
      <3>1. CASE fresh
        <4>1. disk[n] = Known(n)
          BY <2>1 DEF IInv, KnownInv, Believed
        <4>2. Known(n) = FALSE
          BY <2>3, <2>4, <3>1 DEF Known
        <4>3. QED
          BY <2>3, <2>4, <3>1, <4>1, <4>2
      <3>2. CASE ~fresh
        BY <2>1, <2>4, <3>2 DEF IInv, FirstPendingInv
      <3>3. QED
        BY <3>1, <3>2
    <2>5. CASE results[n] # NoResult
      <3>1. ExistedAtStart(results[n]) \in BOOLEAN
        BY DEF ExistedAtStart
      <3>2. QED
        BY <2>1, <2>3, <2>5, <3>1 DEF IInv, OriginInv
    <2>6. QED
      BY <2>4, <2>5
  <1>2. QED
    BY <1>1, Invariance, PTL

-----------------------------------------------------------------------------
(* What the listener has heard, and what is flagged.                        *)

\* The results are those of the present run.
Reporting == phase \in {"absent", "running"} \/ (phase = "listing" /\ fresh)

\* A result recorded by a scan exists until an event of it is handled.
ImmediateInv == \A n \in Names : results[n].immediate => Exists(results[n])

\* The listener knows every type, and every flagged result has set the flag.
ReportedInv ==
    Reporting =>
        \A n \in Names : /\ shown[n] = results[n].type
                         /\ results[n].inconsistent => hasInconsistencies

ReportInv == ImmediateInv /\ ReportedInv

(* An event that is not emitted does not change the type.                    *)
LEMMA SilentEvent ==
    ASSUME NEW r \in WatchedResult, NEW act \in Action, NEW known \in BOOLEAN,
           r.immediate => Exists(r), ~Emits(r, act)
    PROVE  OnEvent(r, act, known).type = r.type
  BY DEF Emits, OnEvent, NextResult, PresentType, GoneType, Exists, ExistedAtStart,
         WatchedResult, ResultType, Action

(* After an event nothing is immediate.                                     *)
LEMMA EventNotImmediate ==
    ASSUME NEW r, NEW act, NEW known
    PROVE  OnEvent(r, act, known).immediate = FALSE
  BY DEF OnEvent, FirstResult, NextResult

(* Nor does a find of the scan that is not emitted.                         *)
LEMMA SilentScan ==
    ASSUME NEW r \in WatchedResult, r.immediate => Exists(r)
    PROVE  /\ ~ScanEmits(r) => OnScan(r).type = r.type
           /\ OnScan(r).immediate => Exists(OnScan(r))
           /\ OnScan(r).inconsistent => r.inconsistent \/ ScanContradicts(r)
  BY DEF ScanEmits, ScanContradicts, OnScan, PresentType, Exists, ExistedAtStart,
         WatchedResult, ResultType

(* What it says of one name while the results are those of the run.          *)
LEMMA ReportedFacts ==
    ASSUME ReportInv, Reporting, NEW n \in Names
    PROVE  /\ shown[n] = results[n].type
           /\ results[n].inconsistent => hasInconsistencies
  BY DEF ReportInv, ReportedInv

(* ... and it is so after a step only if it was before.                      *)
LEMMA ReportingKept == ASSUME UNCHANGED <<phase, fresh>>, Reporting' PROVE Reporting
  BY DEF Reporting

(* Handling an event keeps the listener informed.                           *)
LEMMA ReportInvHandled ==
    ASSUME TypeOK, ReportInv, NEW n \in Names, NEW event \in Action,
           OnFileModified(n, event), UNCHANGED <<phase, fresh>>
    PROVE  ReportInv'
  <1> DEFINE known == n \in existing
             act == Effective(results[n], event, known, IsRoot)
             new == OnEvent(results[n], act, known)
  <1>1. results[n] \in WatchedResult /\ known \in BOOLEAN
    BY DEF TypeOK
  <1>2. /\ results' = [results EXCEPT ![n] = new]
        /\ hasInconsistencies' =
              (hasInconsistencies \/ (new.inconsistent /\ ~results[n].inconsistent))
        /\ shown' = IF Emits(results[n], act) THEN [shown EXCEPT ![n] = new.type] ELSE shown
    BY DEF OnFileModified
  <1> HIDE DEF known
  <1>3. act \in Action
    BY <1>1, EffectiveAction
  <1> HIDE DEF act
  <1>4. new \in WatchedResult
    BY <1>1, <1>3, OnEventType
  <1>5. ~Emits(results[n], act) => new.type = results[n].type
    BY <1>1, <1>3, SilentEvent DEF ReportInv, ImmediateInv
  <1>6. new.immediate = FALSE
    BY EventNotImmediate
  <1> HIDE DEF new
  <1>7. /\ results'[n] = new
        /\ \A k \in Names : k # n => results'[k] = results[k]
    BY <1>2 DEF TypeOK
  <1>8. ImmediateInv'
    BY <1>6, <1>7 DEF ReportInv, ImmediateInv
  <1>9. ReportedInv'
    <2> SUFFICES ASSUME Reporting', NEW k \in Names
                 PROVE  /\ shown'[k] = results'[k].type
                        /\ results'[k].inconsistent => hasInconsistencies'
      BY DEF ReportedInv
    <2>1. /\ shown[k] = results[k].type
          /\ results[k].inconsistent => hasInconsistencies
      BY ReportingKept, ReportedFacts
    <2>2. CASE k # n
      <3>1. shown'[k] = shown[k]
        BY <1>2, <2>2 DEF TypeOK
      <3>2. QED
        BY <1>2, <1>7, <2>1, <2>2, <3>1
    <2>3. CASE k = n
      <3>1. shown'[n] = new.type
        BY <1>2, <1>5, <2>1, <2>3 DEF TypeOK
      <3>2. QED
        BY <1>2, <1>7, <2>1, <2>3, <3>1
    <2>4. QED
      BY <2>2, <2>3
  <1>10. QED
    BY <1>8, <1>9 DEF ReportInv

(* So does a find of the scan.                                              *)
LEMMA ReportInvScanned ==
    ASSUME TypeOK, ReportInv, NEW n \in Names, RecordImmediate(n),
           UNCHANGED <<phase, fresh>>
    PROVE  ReportInv'
  <1>1. CASE n \in Excluded
    BY <1>1 DEF RecordImmediate, ReportInv, ImmediateInv, ReportedInv, Reporting
  <1>2. CASE n \notin Excluded
    <2> DEFINE new == OnScan(results[n])
    <2>1. results[n] \in WatchedResult
      BY DEF TypeOK
    <2>2. /\ results' = [results EXCEPT ![n] = new]
          /\ hasInconsistencies' = (hasInconsistencies \/ ScanContradicts(results[n]))
          /\ shown' = IF ScanEmits(results[n]) THEN [shown EXCEPT ![n] = new.type] ELSE shown
      BY <1>2 DEF RecordImmediate
    <2>3. /\ ~ScanEmits(results[n]) => new.type = results[n].type
          /\ new.immediate => Exists(new)
          /\ new.inconsistent => results[n].inconsistent \/ ScanContradicts(results[n])
      BY <2>1, SilentScan DEF ReportInv, ImmediateInv
    <2> HIDE DEF new
    <2>4. /\ results'[n] = new
          /\ \A k \in Names : k # n => results'[k] = results[k]
      BY <2>2 DEF TypeOK
    <2>5. ImmediateInv'
      BY <2>3, <2>4 DEF ReportInv, ImmediateInv
    <2>6. ReportedInv'
      <3> SUFFICES ASSUME Reporting', NEW k \in Names
                   PROVE  /\ shown'[k] = results'[k].type
                          /\ results'[k].inconsistent => hasInconsistencies'
        BY DEF ReportedInv
      <3>1. /\ shown[k] = results[k].type
            /\ results[k].inconsistent => hasInconsistencies
        BY ReportingKept, ReportedFacts
      <3>2. CASE k # n
        <4>1. shown'[k] = shown[k]
          BY <2>2, <3>2 DEF TypeOK
        <4>2. QED
          BY <2>2, <2>4, <3>1, <3>2, <4>1
      <3>3. CASE k = n
        <4>1. shown'[n] = new.type
          BY <2>2, <2>3, <3>1, <3>3 DEF TypeOK
        <4>2. QED
          BY <2>2, <2>3, <2>4, <3>1, <3>3, <4>1
      <3>4. QED
        BY <3>2, <3>3
    <2>7. QED
      BY <2>5, <2>6 DEF ReportInv
  <1>3. QED
    BY <1>1, <1>2

(* Forgetting the results of the last run forgets what was said of them.     *)
LEMMA ReportInvForget == ForgetResults => ReportInv'
  BY DEF ForgetResults, ReportInv, ImmediateInv, ReportedInv, NoResult

(* Every step preserves it.                                                 *)
LEMMA ReportInvStep == TypeOK /\ ReportInv /\ [Next]_vars => ReportInv'
  <1> SUFFICES ASSUME TypeOK, ReportInv, [Next]_vars PROVE ReportInv'
    OBVIOUS
  <1> USE DEF ReportInv
  <1>1. CASE Environment \/ Stop \/ UNCHANGED vars
    <2>1. UNCHANGED <<results, shown, hasInconsistencies, fresh>> /\ phase' \in {phase, "stopped"}
      BY <1>1 DEF Environment, CreateFile, DeleteFile, TouchFile, Change, Stop, vars, model, scan
    <2>2. QED
      BY <2>1 DEF ImmediateInv, ReportedInv, Reporting
  <1>2. CASE Start
    BY <1>2 DEF Start, AddWatch, ImmediateInv, ReportedInv, Reporting
  <1>3. CASE StartAbsent
    BY <1>3, ReportInvForget DEF StartAbsent
  <1>4. CASE DirectoryAppears
    BY <1>4 DEF DirectoryAppears, AddWatch, ImmediateInv, ReportedInv, Reporting
  <1>5. ASSUME NEW n \in Names, ReadName(n) PROVE ReportInv'
    BY <1>5 DEF ReadName, model, ImmediateInv, ReportedInv, Reporting
  <1>6. ASSUME NEW n \in Names, HandleListed(n) PROVE ReportInv'
    <2>1. CASE fresh
      BY <1>6, <2>1, ReportInvScanned DEF HandleListed
    <2>2. CASE ~fresh
      BY <1>6, <2>2 DEF HandleListed, RememberExisting, ImmediateInv, ReportedInv, Reporting
    <2>3. QED
      BY <2>1, <2>2
  <1>7. CASE EndListing
    <2>1. CASE fresh
      BY <1>7, <2>1 DEF EndListing, scan, ImmediateInv, ReportedInv, Reporting
    <2>2. CASE ~fresh
      BY <1>7, <2>2, ReportInvForget DEF EndListing
    <2>3. QED
      BY <2>1, <2>2
  <1>8. CASE Dispatch
    <2> DEFINE e == Head(queue)
    <2>0. e \in Event
      BY <1>8 DEF Dispatch, TypeOK
    <2>1. e.name \in Names /\ e.act \in Action
      BY <2>0 DEF Event
    <2>2. CASE OnFileModified(e.name, e.act)
      BY <1>8, <2>1, <2>2, ReportInvHandled DEF Dispatch, scan
    <2>3. CASE UNCHANGED model
      BY <1>8, <2>3 DEF Dispatch, scan, model, ImmediateInv, ReportedInv, Reporting
    <2>4. QED
      BY <1>8, <2>2, <2>3 DEF Dispatch
  <1>9. QED
    BY <1>1, <1>2, <1>3, <1>4, <1>5, <1>6, <1>7, <1>8 DEF Next, Listing

(* It holds in every reachable state.                                       *)
LEMMA ReportInvariance == Spec => [](TypeOK /\ ReportInv)
  <1>1. Init => ReportInv
    BY DEF Init, ReportInv, ImmediateInv, ReportedInv, Reporting, NoResult
  <1>2. QED
    BY <1>1, TypeInit, TypeStep, ReportInvStep, PTL DEF Spec

(* While it runs, the listener has last heard the present type of every      *)
(* result, although not every event is emitted.                             *)
THEOREM ListenerCorrect == Spec => []ListenerUpToDate
  <1>1. TypeOK /\ ReportInv => ListenerUpToDate
    <2> SUFFICES ASSUME ReportInv, phase = "running", NEW n \in Names
                 PROVE  shown[n] = results[n].type
      BY DEF ListenerUpToDate
    <2>1. Reporting
      BY DEF Reporting
    <2>2. QED
      BY <2>1, ReportedFacts
  <1>2. QED
    BY <1>1, ReportInvariance, PTL

(* Within a run, what a result says of the beginning and its flag stay.      *)
THEOREM ResultsGrow == Spec => ResultsOnlyGrow
  <1> DEFINE P == phase # "stopped" /\ (phase = "listing" => fresh) =>
                     \A n \in Names : Grows(n)
  <1>1. TypeOK /\ ReportInv /\ (TypeOK /\ ReportInv)' /\ [Next]_vars => [P]_vars
    <2> SUFFICES ASSUME TypeOK, ReportInv, ReportInv', Next,
                        phase # "stopped", phase = "listing" => fresh,
                        NEW n \in Names
                 PROVE  Grows(n)
      BY DEF P
    <2>1. Reporting /\ results[n] \in WatchedResult
      BY DEF Reporting, TypeOK
    <2>flag. results[n].inconsistent => hasInconsistencies
      BY <2>1, ReportedFacts
    <2>2. CASE results' = results /\ hasInconsistencies' = hasInconsistencies
      BY <2>flag, <2>2 DEF Grows
    <2>3. ASSUME NEW k \in Names, NEW event \in Action, OnFileModified(k, event)
          PROVE  Grows(n)
      <3> DEFINE known == k \in existing
                 act == Effective(results[k], event, known, IsRoot)
                 new == OnEvent(results[k], act, known)
      <3>1. /\ results' = [results EXCEPT ![k] = new]
            /\ hasInconsistencies => hasInconsistencies'
        BY <2>3 DEF OnFileModified
      <3>2. known \in BOOLEAN /\ results[k] \in WatchedResult
        BY DEF TypeOK
      <3> HIDE DEF known
      <3>3. act \in Action
        BY <2>3, <3>2, EffectiveAction
      <3> HIDE DEF act
      <3>4. new # NoResult
        BY <3>2, <3>3, OnEventType
      <3>5. results[k] # NoResult => /\ ExistedAtStart(new) = ExistedAtStart(results[k])
                                     /\ results[k].inconsistent => new.inconsistent
        BY <3>2, <3>3, NextResultKeeps
      <3> HIDE DEF new
      <3>6. results[n].inconsistent => hasInconsistencies'
        BY <2>flag, <3>1
      <3>7. results'[n] = IF n = k THEN new ELSE results[n]
        BY <3>1 DEF TypeOK
      <3>8. QED
        BY <3>4, <3>5, <3>6, <3>7 DEF Grows
    <2>4. ASSUME NEW k \in Names, HandleListed(k), fresh
          PROVE  Grows(n)
      <3>1. CASE k \in Excluded
        BY <2>2, <2>4, <3>1 DEF HandleListed, RecordImmediate
      <3>2. CASE k \notin Excluded
        <4>1. /\ results' = [results EXCEPT ![k] = OnScan(results[k])]
              /\ hasInconsistencies => hasInconsistencies'
          BY <2>4, <3>2 DEF HandleListed, RecordImmediate
        <4>2. /\ OnScan(results[k]) # NoResult
              /\ ExistedAtStart(OnScan(results[k])) = ExistedAtStart(results[k])
              /\ results[k].inconsistent => OnScan(results[k]).inconsistent
          BY OnScanResult DEF TypeOK
        <4>3. results'[n] = IF n = k THEN OnScan(results[k]) ELSE results[n]
          BY <4>1 DEF TypeOK
        <4>4. results[n].inconsistent => hasInconsistencies'
          BY <2>flag, <4>1
        <4>5. QED
          BY <4>2, <4>3, <4>4 DEF Grows
      <3>3. QED
        BY <3>1, <3>2
    <2>5. CASE Environment \/ Stop \/ DirectoryAppears
      <3>1. UNCHANGED <<results, hasInconsistencies>>
        BY <2>5 DEF Environment, CreateFile, DeleteFile, TouchFile, Change, Stop,
                    DirectoryAppears, model
      <3>2. QED
        BY <2>2, <3>1
    <2>6. CASE Listing
      <3>1. ASSUME NEW k \in Names, ReadName(k) PROVE Grows(n)
        BY <2>2, <3>1 DEF ReadName, model
      <3>2. ASSUME NEW k \in Names, HandleListed(k) PROVE Grows(n)
        <4>1. fresh
          BY <3>2 DEF HandleListed
        <4>2. QED
          BY <2>4, <3>2, <4>1
      <3>3. CASE EndListing
        BY <2>2, <3>3 DEF EndListing
      <3>4. QED
        BY <2>6, <3>1, <3>2, <3>3 DEF Listing
    <2>7. CASE Dispatch
      <3>0. Head(queue) \in Event
        BY <2>7 DEF Dispatch, TypeOK
      <3>1. Head(queue).name \in Names /\ Head(queue).act \in Action
        BY <3>0 DEF Event
      <3>2. CASE OnFileModified(Head(queue).name, Head(queue).act)
        BY <2>3, <3>1, <3>2
      <3>3. CASE UNCHANGED model
        BY <2>2, <3>3 DEF model
      <3>4. QED
        BY <2>7, <3>2, <3>3 DEF Dispatch
    <2>8. QED
      BY <2>5, <2>6, <2>7 DEF Next, Start, StartAbsent
  <1>2. QED
    BY <1>1, ReportInvariance, PTL DEF Spec, ResultsOnlyGrow

=============================================================================
