------------------------------ MODULE ResultLife ------------------------------
(***************************************************************************)
(* The life of one FofiModel::WatchedResult: what an inotify event, or the  *)
(* scan of a directory, does to the recorded state of one file or directory *)
(* name.  Pure operators, shared by the modules that model directories.     *)
(*                                                                         *)
(* A WatchedResult that has not been added yet (findResult() < 0) is        *)
(* NoResult.  Of the actions recorded in m_aActions only the m_bImmediate   *)
(* flag of the last one is ever read back, so that flag is all that is kept *)
(* of them.                                                                 *)
(***************************************************************************)

\* RESULT_TYPE, with "none" for RESULT_NONE
ResultType == {"none", "created", "deleted", "modified", "temporary"}

\* FOFI_ACTION, without the two rename actions
Action == {"create", "delete", "modify", "attrib"}

WatchedResult == [type: ResultType, inconsistent: BOOLEAN, immediate: BOOLEAN]

NoResult == [type |-> "none", inconsistent |-> FALSE, immediate |-> FALSE]

Exists(r) == r.type \in {"created", "modified"}

ExistedAtStart(r) == r.type \in {"deleted", "modified"}

\* Mutants: the beginning of the run is forgotten.
PresentTypeForgetful(r) == "created"
GoneTypeForgetful(r) == "deleted"

\* The two types a result can have while its name exists, resp. does not.
PresentType(r) == IF ExistedAtStart(r) THEN "modified" ELSE "created"
GoneType(r)    == IF ExistedAtStart(r) THEN "deleted" ELSE "temporary"

-----------------------------------------------------------------------------
(* What an event means.  "known" tells whether the name is in m_aExisting.  *)

\* A user other than root may see a name appear because of its permissions:
\* an ATTRIB about a name believed not to exist is handled as a CREATE.
Effective(r, act, known, isRoot) ==
    LET believed == IF r = NoResult THEN known ELSE Exists(r)
    IN  IF act = "attrib" /\ ~isRoot /\ ~believed THEN "create" ELSE act

FirstType(act) ==
    IF act = "create" THEN "created" ELSE IF act = "delete" THEN "deleted" ELSE "modified"

\* The first result of a name: suspicious when a CREATE names something that
\* existed, or when anything else names something that did not.
FirstResult(act, known) ==
    [type |-> FirstType(act), inconsistent |-> (act = "create") = known, immediate |-> FALSE]

\* An event that contradicts the recorded state.
Contradicts(r, act) == IF act = "create" THEN Exists(r) /\ ~r.immediate ELSE ~Exists(r)

\* Mutant: each event decides anew whether the result is inconsistent.
NextResultForgiving(r, act) ==
    [type         |-> IF act = "delete" THEN GoneType(r) ELSE PresentType(r),
     inconsistent |-> Contradicts(r, act),
     immediate    |-> FALSE]

NextResult(r, act) ==
    [type         |-> IF act = "delete" THEN GoneType(r) ELSE PresentType(r),
     inconsistent |-> r.inconsistent \/ Contradicts(r, act),
     immediate    |-> FALSE]

OnEvent(r, act, known) ==
    IF r = NoResult THEN FirstResult(act, known) ELSE NextResult(r, act)

\* Mutant: a file that comes back is not news.
EmitsFewer(r, act) == r = NoResult \/ act = "delete"

\* bEmitWatchedResult: whether the listener is told of the event
Emits(r, act) ==
    \/ r = NoResult
    \/ act = "create" /\ ~r.immediate
    \/ act = "delete"
    \/ act \in {"modify", "attrib"} /\ ~Exists(r)

-----------------------------------------------------------------------------
(* createImmediateChildren(): a scan of a new directory finds the name.     *)

ScanContradicts(r) == Exists(r) /\ ~r.immediate

OnScan(r) ==
    [type         |-> PresentType(r),
     inconsistent |-> r.inconsistent \/ ScanContradicts(r),
     immediate    |-> ~ScanContradicts(r)]

ScanEmits(r) == ~r.immediate

=============================================================================
