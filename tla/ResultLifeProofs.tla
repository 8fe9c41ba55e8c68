---------------------------- MODULE ResultLifeProofs ----------------------------
(***************************************************************************)
(* Lemmas about the operators of ResultLife, for the proofs about the        *)
(* modules that record results.                                             *)
(***************************************************************************)
EXTENDS ResultLife, TLAPS

(* A result stays a result, whatever event it is told of.                   *)
LEMMA OnEventType ==
    ASSUME NEW r \in WatchedResult, NEW act \in Action, NEW known \in BOOLEAN
    PROVE  /\ OnEvent(r, act, known) \in WatchedResult
           /\ OnEvent(r, act, known) # NoResult
  BY DEF OnEvent, FirstResult, NextResult, FirstType, PresentType, GoneType, Exists,
         ExistedAtStart, Contradicts, WatchedResult, ResultType, Action, NoResult

(* After an event the model believes the file to be as the event left it.   *)
LEMMA OnEventPresent ==
    ASSUME NEW r \in WatchedResult, NEW act \in Action, NEW known \in BOOLEAN
    PROVE  Exists(OnEvent(r, act, known)) = (act # "delete")
  BY DEF OnEvent, FirstResult, NextResult, FirstType, PresentType, GoneType, Exists,
         ExistedAtStart, Contradicts, WatchedResult, ResultType, Action, NoResult

(* Later events do not change what a result says of the beginning of the     *)
(* run, nor clear its flag.                                                  *)
LEMMA NextResultKeeps ==
    ASSUME NEW r \in WatchedResult, NEW act \in Action, NEW known \in BOOLEAN,
           r # NoResult
    PROVE  LET new == OnEvent(r, act, known) IN
           /\ ExistedAtStart(new) = ExistedAtStart(r)
           /\ r.inconsistent => new.inconsistent
  BY DEF OnEvent, NextResult, PresentType, GoneType, Exists, ExistedAtStart,
         Contradicts, WatchedResult, ResultType, Action

(* Only something that was there before can be deleted or modified first.    *)
LEMMA FirstResultOld ==
    ASSUME NEW act \in Action, NEW known \in BOOLEAN
    PROVE  ExistedAtStart(OnEvent(NoResult, act, known)) = (act # "create")
  BY DEF OnEvent, FirstResult, FirstType, ExistedAtStart, Action, NoResult

(* The rewriting of an ATTRIB leaves everything else alone.                  *)
LEMMA EffectiveType ==
    ASSUME NEW r, NEW act \in Action, NEW known, NEW isRoot
    PROVE  /\ Effective(r, act, known, isRoot) \in Action
           /\ act = "create" => Effective(r, act, known, isRoot) = "create"
           /\ Effective(r, act, known, isRoot) = "delete" <=> act = "delete"
  BY DEF Effective, Action

(* What the scan of a new directory makes of a result.                      *)
LEMMA OnScanResult ==
    ASSUME NEW r \in WatchedResult
    PROVE  /\ OnScan(r) \in WatchedResult
           /\ OnScan(r) # NoResult
           /\ Exists(OnScan(r))
           /\ ExistedAtStart(OnScan(r)) = ExistedAtStart(r)
           /\ r.inconsistent => OnScan(r).inconsistent
  BY DEF OnScan, ScanContradicts, PresentType, Exists, ExistedAtStart, WatchedResult,
         ResultType, NoResult

(* No result is a result, that says nothing of the beginning of the run.     *)
LEMMA NoResultType ==
    /\ NoResult \in WatchedResult
    /\ ~ExistedAtStart(NoResult)
    /\ ~Exists(NoResult)
  BY DEF NoResult, WatchedResult, ResultType, ExistedAtStart, Exists

=============================================================================
