------------------------------- MODULE MainProofs -------------------------------
(***************************************************************************)
(* Proofs about Main, for any argument lists, files and environment.         *)
(***************************************************************************)
EXTENDS Main, TLAPS, FiniteSetTheorems, NaturalsInduction, WellFoundedInduction

(* What is left of well-formed arguments is well-formed.                    *)
LEMMA WellFormedRest ==
    ASSUME NEW ws, WellFormed(ws), NEW n \in Nat, n <= Len(ws)
    PROVE  WellFormed(SubSeq(ws, n + 1, Len(ws)))
  <1> DEFINE rest == SubSeq(ws, n + 1, Len(ws))
  <1>1. ws \in Seq(STRING) /\ Len(ws) \in Nat
    BY DEF WellFormed
  <1>2. /\ rest \in Seq(STRING)
        /\ Len(rest) = Len(ws) - n
        /\ \A i \in 1..(Len(ws) - n) : rest[i] = ws[n + i]
    BY <1>1
  <1> HIDE DEF rest
  <1>3. ASSUME NEW i \in 1..(Len(rest) - 1), Option(rest[i]) \in Outputs
        PROVE  rest[i + 1] \in Dashed \cup OutFiles
    <2>1. /\ n + i \in 1..(Len(ws) - 1)
          /\ rest[i] = ws[n + i]
          /\ rest[i + 1] = ws[(n + i) + 1]
      BY <1>1, <1>2
    <2>2. QED
      BY <1>3, <2>1 DEF WellFormed
  <1>4. WellFormed(rest)
    BY <1>2, <1>3 DEF WellFormed
  <1>5. QED
    BY <1>4 DEF rest

(* Before anything is printed, every output is whole.                       *)
LEMMA NothingIsWhole == SetupInv /\ NothingPrinted => OutputIsWhole
  BY DEF SetupInv, NothingPrinted, OutputIsWhole

(* The invariant reads only these variables.                                *)
LEMMA OutputInvUnchanged ==
    ASSUME OutputInv, UNCHANGED <<args, setup, created, content, printed>>,
           phase' \in {"arguments", "defining"} => phase' = phase
    PROVE  OutputInv'
  BY DEF OutputInv, SetupInv, ContentInv, NothingPrinted, OutputIsWhole, ToFile

(* Printing one of the outputs that were asked for.                         *)
LEMMA OutputInvShow ==
    ASSUME OutputInv, NEW o \in Outputs, Show(o), UNCHANGED arguments,
           phase \notin {"arguments", "defining"}, phase' \notin {"arguments", "defining"}
    PROVE  OutputInv'
  <1> DEFINE f == setup.file[o]
  <1>1. SetupInv /\ ContentInv /\ OutputIsWhole
    BY DEF OutputInv
  <1>2. UNCHANGED <<args, setup>>
    BY DEF arguments
  <1>3. SetupInv'
    BY <1>1, <1>2 DEF SetupInv
  <1>4. CASE UNCHANGED outputs
    BY <1>2, <1>4, OutputInvUnchanged DEF outputs
  <1>5. CASE ~UNCHANGED outputs
    <2>1. /\ o \in setup.shows /\ f # StdOut
          /\ content' = [content EXCEPT ![f] = PrintedTo(content[f], o)]
          /\ created' = created \cup {o}
          /\ printed' = printed \cup {o}
      BY <1>5 DEF Show, PrintOutput
    <2>2. f \in OutFiles /\ content[f] \in [old: BOOLEAN, lost: BOOLEAN, has: SUBSET Outputs]
      BY <1>1, <2>1 DEF SetupInv, ContentInv
    <2> DEFINE new == PrintedTo(content[f], o)
    <2>3. new \in [old: BOOLEAN, lost: BOOLEAN, has: SUBSET Outputs]
      BY <2>2 DEF PrintedTo
    <2>4. ASSUME ToFile(f) = {o}
          PROVE  new = [old |-> FALSE, lost |-> FALSE, has |-> {o}]
      <3>1. IF o \in printed
              THEN content[f] = [old |-> FALSE, lost |-> FALSE, has |-> {o}]
              ELSE content[f].has = {} /\ ~content[f].lost
        BY <1>1, <2>1, <2>4 DEF OutputIsWhole
      <3>2. created = printed
        BY <1>1 DEF ContentInv
      <3>3. CASE o \in created
        <4>1. content[f] = [old |-> FALSE, lost |-> FALSE, has |-> {o}]
          BY <3>1, <3>2, <3>3
        <4>2. QED
          <5>1. content[f].has \cup {o} = {o} /\ content[f].lost = FALSE /\ content[f].old = FALSE
            BY <4>1
          <5>2. new = [old |-> content[f].old, lost |-> content[f].lost, has |-> content[f].has \cup {o}]
            <6>1. content[f].old \in BOOLEAN /\ content[f].lost \in BOOLEAN
              BY <2>2
            <6>2. QED
              BY <3>3, <6>1 DEF PrintedTo
          <5> HIDE DEF new
          <5>3. QED
            BY <5>1, <5>2
      <3>4. CASE o \notin created
        BY <3>1, <3>2, <3>4 DEF PrintedTo
      <3>5. QED
        BY <3>3, <3>4
    <2>5. content' = [content EXCEPT ![f] = new]
      BY <2>1
    <2> HIDE DEF new
    <2>6. ContentInv'
      BY <1>1, <2>1, <2>3, <2>5 DEF ContentInv
    <2>7. ASSUME NEW p \in setup.shows, setup.file[p] # StdOut, ToFile(setup.file[p]) = {p}
          PROVE  IF p \in printed'
                   THEN content'[setup.file[p]] = [old |-> FALSE, lost |-> FALSE, has |-> {p}]
                   ELSE content'[setup.file[p]].has = {} /\ ~content'[setup.file[p]].lost
      <3>1. setup.file[p] \in OutFiles
        BY <1>1, <2>7 DEF SetupInv
      <3>2. CASE setup.file[p] = f
        <4>1. p = o
          BY <2>1, <2>7, <3>2 DEF ToFile
        <4>2. content'[f] = new
          BY <1>1, <2>2, <2>5 DEF ContentInv
        <4>3. QED
          BY <2>1, <2>4, <2>7, <4>1, <4>2
      <3>3. CASE setup.file[p] # f
        <4>1. p # o /\ content'[setup.file[p]] = content[setup.file[p]]
          BY <1>1, <2>2, <2>5, <3>1, <3>3 DEF ContentInv
        <4>2. QED
          BY <1>1, <2>1, <2>7, <4>1 DEF OutputIsWhole
      <3>4. QED
        BY <3>2, <3>3
    <2>8. OutputIsWhole'
      BY <1>2, <2>7 DEF OutputIsWhole, ToFile
    <2>9. QED
      BY <1>3, <2>6, <2>8 DEF OutputInv
  <1>6. QED
    BY <1>4, <1>5

(* Evaluating an argument: where outputs go is settled before any is printed. *)
LEMMA OutputInvEvaluate == ASSUME OutputInv, Evaluate PROVE OutputInv'
  <1>1. SetupInv /\ ContentInv /\ args # <<>> /\ phase = "arguments"
    BY DEF OutputInv, Evaluate
  <1>2. NothingPrinted /\ UNCHANGED <<created, content, printed>>
    BY <1>1 DEF ContentInv, Evaluate, outputs
  <1>3. NothingPrinted'
    BY <1>2 DEF NothingPrinted
  <1>4. ContentInv'
    BY <1>1, <1>2, <1>3 DEF ContentInv
  <1>5. PICK k \in Nat : k = Len(args) /\ k > 0
    <2>1. args \in Seq(STRING) /\ args # <<>>
      BY <1>1 DEF SetupInv, WellFormed
    <2>2. QED
      BY <2>1
  <1>10. Missing <=> k = 1
    BY <1>5 DEF Missing
  <1>6. /\ DOMAIN setup = {"flags", "shows", "file", "files", "zones", "zone"}
        /\ setup.shows \subseteq Outputs
        /\ setup.file \in [Outputs -> OutFiles \cup {StdOut}]
        /\ \A o \in Outputs \ setup.shows : setup.file[o] = StdOut
        /\ WellFormed(args)
    BY <1>1 DEF SetupInv, Nothing
  <1>7. SetupInv'
    <2>1. ASSUME NEW p, Goto(p) PROVE SetupInv'
      BY <1>1, <2>1 DEF Goto, arguments, SetupInv
    <2>2. ASSUME NEW n \in 1..2, NEW s, Evaluates(n, s), n <= k,
                 DOMAIN s = DOMAIN setup, s.shows = setup.shows, s.file = setup.file
          PROVE  SetupInv'
      <3>1. WellFormed(args')
        <4>1. args' = SubSeq(args, n + 1, Len(args))
          BY <2>2 DEF Evaluates
        <4>2. n \in Nat /\ n <= Len(args)
          BY <1>5, <2>2
        <4>3. QED
          BY <1>6, <4>1, <4>2, WellFormedRest
      <3>2. QED
        BY <1>1, <2>2, <3>1 DEF Evaluates, SetupInv
    <2>3. CASE EvalHelp
      BY <2>1, <2>3 DEF EvalHelp
    <2>4. CASE EvalUnknown
      BY <2>1, <2>4 DEF EvalUnknown
    <2>5. CASE EvalFlag
      <3> DEFINE s == [setup EXCEPT !.flags = @ \cup {Opt}]
      <3>1. DOMAIN s = DOMAIN setup /\ s.shows = setup.shows /\ s.file = setup.file
        BY <1>6
      <3>2. Evaluates(1, s)
        BY <2>5 DEF EvalFlag
      <3> HIDE DEF s
      <3>3. QED
        BY <1>5, <2>2, <3>1, <3>2
    <2>6. CASE EvalLimit
      BY <1>5, <1>10, <2>1, <2>2, <2>6 DEF EvalLimit
    <2>7. CASE EvalAddFile
      <3> DEFINE s == [setup EXCEPT !.files = Append(@, args[2])]
      <3>1. DOMAIN s = DOMAIN setup /\ s.shows = setup.shows /\ s.file = setup.file
        BY <1>6
      <3>2. IF Missing THEN Goto("failed") ELSE Evaluates(2, s)
        BY <2>7 DEF EvalAddFile
      <3> HIDE DEF s
      <3>3. QED
        BY <1>5, <1>10, <2>1, <2>2, <3>1, <3>2
    <2>8. CASE EvalAddZone
      <3> DEFINE s == [setup EXCEPT !.zones = WithLast(setup), !.zone = NewZone(args[2])]
      <3>1. DOMAIN s = DOMAIN setup /\ s.shows = setup.shows /\ s.file = setup.file
        BY <1>6
      <3>2. IF Missing THEN Goto("failed") ELSE Evaluates(2, s)
        BY <2>8 DEF EvalAddZone
      <3> HIDE DEF s
      <3>3. QED
        BY <1>5, <1>10, <2>1, <2>2, <3>1, <3>2
    <2>9. CASE EvalDepth
      <3> DEFINE s == [setup EXCEPT !.zone.depth = DepthOf(args[2])]
      <3>1. DOMAIN s = DOMAIN setup /\ s.shows = setup.shows /\ s.file = setup.file
        BY <1>6
      <3>2. IF Missing \/ NoZoneYet THEN Goto("failed") ELSE Evaluates(2, s)
        BY <2>9 DEF EvalDepth
      <3> HIDE DEF s
      <3>3. QED
        BY <1>5, <1>10, <2>1, <2>2, <3>1, <3>2
    <2>10. CASE EvalFilter
      <3> DEFINE s == [setup EXCEPT !.zone.filters = Append(@, <<Opt, args[2]>>)]
                 wrong == \/ Missing
                          \/ NoZoneYet
                          \/ Opt \in ExactNames /\ args[2] \in Slashed
      <3>1. DOMAIN s = DOMAIN setup /\ s.shows = setup.shows /\ s.file = setup.file
        BY <1>6
      <3>2. IF wrong THEN Goto("failed") ELSE Evaluates(2, s)
        BY <2>10 DEF EvalFilter
      <3> HIDE DEF s
      <3>3. QED
        BY <1>5, <1>10, <2>1, <2>2, <3>1, <3>2
    <2>11. CASE EvalExcludeAll
      <3> DEFINE s == [setup EXCEPT !.zone.filters =
                          @ \o <<<<"--exclude-file", ".*">>, <<"--exclude-dir", ".*">>>>]
      <3>1. DOMAIN s = DOMAIN setup /\ s.shows = setup.shows /\ s.file = setup.file
        BY <1>6
      <3>2. IF NoZoneYet THEN Goto("failed") ELSE Evaluates(1, s)
        BY <2>11 DEF EvalExcludeAll
      <3> HIDE DEF s
      <3>3. QED
        BY <1>5, <2>1, <2>2, <3>1, <3>2
    <2>12. CASE EvalOutput
      <3> DEFINE to(f) == [setup EXCEPT !.shows = @ \cup {Opt}, !.file[Opt] = f]
      <3>1. Opt \in Outputs /\ Opt = Option(args[1])
        BY <2>12 DEF EvalOutput, Opt
      <3>2. \/ Evaluates(1, to(StdOut))
            \/ ~Missing /\ args[2] \notin Dashed /\ Evaluates(2, to(args[2]))
        BY <2>12 DEF EvalOutput
      <3>3. ~Missing /\ args[2] \notin Dashed => args[2] \in OutFiles
        <4>1. ~Missing => 1 \in 1..(k - 1) /\ 1 + 1 = 2
          BY <1>5, <1>10
        <4>2. QED
          BY <1>5, <1>6, <3>1, <4>1 DEF WellFormed
      <3>4. PICK n \in 1..2, f \in OutFiles \cup {StdOut} : Evaluates(n, to(f)) /\ n <= k
        <4> HIDE DEF to
        <4>4. 1 \in 1..2 /\ 2 \in 1..2 /\ 1 <= k /\ (~Missing => 2 <= k)
          BY <1>5, <1>10
        <4>1. CASE Evaluates(1, to(StdOut))
          BY <4>1, <4>4, Zenon
        <4>2. CASE ~Missing /\ args[2] \in OutFiles /\ Evaluates(2, to(args[2]))
          BY <4>2, <4>4, Zenon
        <4>3. QED
          BY <3>2, <3>3, <4>1, <4>2
      <3>5. PICK s : s = to(f) /\ Evaluates(n, s) /\ n <= k
        BY <3>4
      <3>6. /\ DOMAIN s = DOMAIN setup
            /\ s.shows = setup.shows \cup {Opt}
            /\ s.file = [setup.file EXCEPT ![Opt] = f]
        BY <1>6, <3>1, <3>5
      <3>7. args' = SubSeq(args, n + 1, Len(args)) /\ setup' = s
        BY <3>5 DEF Evaluates
      <3>8. WellFormed(args')
        <4>1. n \in Nat /\ n <= Len(args)
          BY <1>5, <3>5
        <4>2. QED
          BY <1>6, <3>7, <4>1, WellFormedRest
      <3>9. setup'.file \in [Outputs -> OutFiles \cup {StdOut}] /\ setup'.shows \subseteq Outputs
        BY <1>6, <3>1, <3>5, <3>6, <3>7
      <3>10. \A o \in Outputs \ setup'.shows : setup'.file[o] = StdOut
        BY <1>6, <3>1, <3>5, <3>6, <3>7
      <3>11. QED
        BY <1>1, <3>6, <3>7, <3>8, <3>9, <3>10 DEF SetupInv
    <2>13. QED
      BY <2>3, <2>4, <2>5, <2>6, <2>7, <2>8, <2>9, <2>10, <2>11, <2>12 DEF Evaluate
  <1>8. OutputIsWhole'
    BY <1>3, <1>7 DEF SetupInv, NothingPrinted, OutputIsWhole
  <1>9. QED
    BY <1>4, <1>7, <1>8 DEF OutputInv

(* Every step preserves it.                                                 *)
LEMMA OutputInvStep == OutputInv /\ BufferInv /\ [Next]_vars => OutputInv'
  <1> SUFFICES ASSUME OutputInv, BufferInv, [Next]_vars PROVE OutputInv'
    OBVIOUS
  <1>1. CASE Evaluate
    BY <1>1, OutputInvEvaluate
  <1>2. CASE EndOfArguments \/ Define
    <2>1. SetupInv /\ ContentInv /\ NothingPrinted
      BY <1>2 DEF OutputInv, ContentInv, EndOfArguments, Define
    <2>2. UNCHANGED <<args, created, content, printed>>
      BY <1>2 DEF EndOfArguments, Define, outputs
    <2>3. /\ DOMAIN setup' = DOMAIN setup
          /\ setup'.shows = setup.shows
          /\ setup'.file = setup.file
      <3>1. \/ \E zs, z : setup' = [setup EXCEPT !.zones = zs, !.zone = z]
            \/ \E zs : setup' = [setup EXCEPT !.zones = zs]
            \/ setup' = setup
        BY <1>2 DEF EndOfArguments, Define
      <3>2. QED
        BY <2>1, <3>1 DEF SetupInv, Nothing
    <2>4. SetupInv'
      BY <2>1, <2>2, <2>3 DEF SetupInv
    <2>5. NothingPrinted' /\ ContentInv'
      BY <2>1, <2>2 DEF NothingPrinted, ContentInv
    <2>6. OutputIsWhole'
      BY <2>4, <2>5 DEF SetupInv, NothingPrinted, OutputIsWhole
    <2>7. QED
      BY <2>4, <2>5, <2>6 DEF OutputInv
  <1>4. CASE Start
    <2>0. PICK shows : shows = IF setup.shows \cap {"--live-actions", "--print-modified"} = {}
                                 THEN setup.shows \cup {"--print-modified"} ELSE setup.shows
      OBVIOUS
    <2>1. SetupInv /\ ContentInv /\ OutputIsWhole
      BY DEF OutputInv
    <2>2. /\ setup' = [setup EXCEPT !.shows = shows]
          /\ phase' \notin {"arguments", "defining"}
          /\ UNCHANGED <<args, created, content, printed>>
      BY <1>4, <2>0 DEF Start, outputs
    <2>3. /\ shows \subseteq Outputs /\ setup.shows \subseteq shows
          /\ \A o \in shows \ setup.shows : setup.file[o] = StdOut
      BY <2>0, <2>1 DEF SetupInv, Outputs
    <2>4. DOMAIN setup' = DOMAIN setup /\ setup'.shows = shows /\ setup'.file = setup.file
      BY <2>1, <2>2 DEF SetupInv, Nothing
    <2>5. SetupInv'
      BY <2>1, <2>2, <2>3, <2>4 DEF SetupInv
    <2>6. ContentInv'
      BY <2>1, <2>2 DEF ContentInv
    <2>7. OutputIsWhole'
      <3> SUFFICES ASSUME NEW o \in shows, setup.file[o] # StdOut,
                          \A p \in shows : setup.file[p] = setup.file[o] <=> p = o
                   PROVE  IF o \in printed
                            THEN content[setup.file[o]] = [old |-> FALSE, lost |-> FALSE, has |-> {o}]
                            ELSE content[setup.file[o]].has = {} /\ ~content[setup.file[o]].lost
        BY <2>2, <2>4 DEF OutputIsWhole, ToFile
      <3>1. o \in setup.shows
        BY <2>3
      <3>2. ToFile(setup.file[o]) = {o}
        BY <2>3, <3>1 DEF ToFile
      <3>3. QED
        BY <2>1, <3>1, <3>2 DEF OutputIsWhole
    <2>8. QED
      BY <2>5, <2>6, <2>7 DEF OutputInv
  <1>5. CASE Handle
    <2>1. UNCHANGED arguments /\ phase' = phase
      BY <1>5 DEF Handle
    <2>2. Show("--live-actions") \/ UNCHANGED outputs
      BY <1>5 DEF Handle
    <2>3. CASE UNCHANGED outputs
      BY <2>1, <2>3, OutputInvUnchanged DEF arguments, outputs
    <2>4. CASE Show("--live-actions")
      <3>1. phase = "running" /\ "--live-actions" \in Outputs
        BY <1>5 DEF Handle, BufferInv, Outputs
      <3>2. QED
        BY <2>1, <2>4, <3>1, OutputInvShow
    <2>5. QED
      BY <2>2, <2>3, <2>4
  <1>6. CASE Calculate \/ ShowWatched \/ Dispatch \/ OnStdin \/ Stop \/ Environment
    <2>1. CASE Calculate
      BY <2>1, OutputInvUnchanged DEF Calculate, arguments, outputs
    <2>2. CASE ShowWatched
      BY <2>2, OutputInvShow DEF ShowWatched, Step, Outputs
    <2>3. CASE Dispatch
      BY <2>3, OutputInvUnchanged DEF Dispatch, Idle, arguments, outputs
    <2>4. CASE OnStdin
      <3>1. UNCHANGED <<args, setup, created, content, printed, phase>>
        BY <2>4 DEF OnStdin, Idle, arguments, outputs
      <3>2. QED
        BY <3>1, OutputInvUnchanged
    <2>5. CASE Stop
      BY <2>5, OutputInvUnchanged DEF Stop, arguments, outputs
    <2>6. CASE Environment
      <3>1. UNCHANGED <<args, setup, created, content, printed, phase>>
        BY <2>6 DEF Environment, Change, Lock, Quieten, Type, arguments, outputs
      <3>2. QED
        BY <3>1, OutputInvUnchanged
    <2>7. QED
      BY <1>6, <2>1, <2>2, <2>3, <2>4, <2>5, <2>6
  <1>7. CASE ShowZones \/ ShowCalculated \/ ShowAfter \/ ShowModified
    BY <1>7, OutputInvShow DEF ShowZones, ShowCalculated, ShowAfter, ShowModified, Step, Outputs
  <1>8. CASE UNCHANGED vars
    BY <1>8, OutputInvUnchanged DEF vars
  <1>9. QED
    BY <1>1, <1>2, <1>4, <1>5, <1>6, <1>7, <1>8 DEF Next, Program

(* Events are handled in the main loop only.                                *)
LEMMA BufferInvStep == BufferInv /\ [Next]_vars => BufferInv'
  <1> SUFFICES ASSUME BufferInv, [Next]_vars PROVE BufferInv'
    OBVIOUS
  <1>1. CASE Evaluate
    BY <1>1 DEF Evaluate, BufferInv
  <1>2. CASE EndOfArguments \/ Define \/ Calculate \/ Start
    BY <1>2 DEF EndOfArguments, Define, Calculate, Start, BufferInv
  <1>3. CASE ShowZones \/ ShowCalculated \/ ShowWatched \/ ShowAfter \/ ShowModified
    BY <1>3 DEF ShowZones, ShowCalculated, ShowWatched, ShowAfter, ShowModified, Step, BufferInv
  <1>4. CASE Dispatch \/ OnStdin \/ Stop
    BY <1>4 DEF Dispatch, OnStdin, Stop, Idle, BufferInv
  <1>5. CASE Handle
    BY <1>5 DEF Handle, BufferInv
  <1>6. CASE Environment
    BY <1>6 DEF Environment, Change, Lock, Quieten, Type, BufferInv
  <1>7. CASE UNCHANGED vars
    BY <1>7 DEF vars, BufferInv
  <1>8. QED
    BY <1>1, <1>2, <1>3, <1>4, <1>5, <1>6, <1>7 DEF Next, Program

(* It holds initially.                                                      *)
LEMMA OutputInvInit == Init => OutputInv /\ BufferInv
  <1> SUFFICES ASSUME Init PROVE OutputInv /\ BufferInv
    OBVIOUS
  <1>1. BufferInv
    BY DEF Init, BufferInv
  <1>2. SetupInv
    BY ArgListsAssumption DEF Init, SetupInv, Nothing
  <1>3. disk \in [Others \cup OutFiles -> BOOLEAN]
    BY DEF Init
  <1>4. NothingPrinted /\ content \in [OutFiles -> [old: BOOLEAN, lost: BOOLEAN, has: SUBSET Outputs]]
    BY <1>3 DEF Init, NothingPrinted
  <1>5. ContentInv
    BY <1>4 DEF Init, ContentInv, NothingPrinted
  <1>6. QED
    BY <1>1, <1>2, <1>4, <1>5, NothingIsWhole DEF OutputInv

(* A file only one output goes to contains what was printed of it in this     *)
(* run, all of it, whenever the file could not be opened in between.         *)
THEOREM OutputCorrect == Spec => []OutputIsWhole
  <1>1. OutputInv /\ BufferInv /\ [Next]_vars => (OutputInv /\ BufferInv)'
    BY OutputInvStep, BufferInvStep
  <1>2. OutputInv => OutputIsWhole
    BY DEF OutputInv
  <1>3. QED
    BY <1>1, <1>2, OutputInvInit, PTL DEF Spec

---------------------------------------------------------------------------
(* The type invariant.                                                     *)

Acts == {"CREATE", "MODIFY", "DELETE"}
Names == Others \cup Watched

(* What the kernel or dispatch() may hold.                                  *)
Pending(q) == q \in Seq([name: Names, act: Acts]) /\ Len(q) <= MaxQueue

(* The arguments left are the last of those given.                          *)
ArgsInv ==
    /\ given \in ArgLists
    /\ \E i \in 0..Len(given) : args = SubSeq(given, i + 1, Len(given))
    /\ setup.flags \subseteq Flags
    /\ phase \in {"arguments", "defining", "zones", "calculating", "listing", "starting",
                  "watched", "running", "after", "modified", "told", "failed", "ended"}

EventsInv ==
    /\ disk \in [Others \cup OutFiles -> BOOLEAN]
    /\ Pending(queue)
    /\ Pending(buffer)
    /\ result \in [Names -> {"none", "there", "gone"}]

StdinInv ==
    /\ typed \in {0, LineLength} /\ stdio \in 0..LineLength
    /\ eof \in BOOLEAN /\ hup \in BOOLEAN
    /\ quitting \in BOOLEAN /\ fatal \in BOOLEAN
    /\ locked \subseteq OutFiles
    /\ quiet \in BOOLEAN

PrintedInv ==
    /\ created \subseteq setup.shows
    /\ printed \subseteq Outputs

TypeInv == OutputInv /\ BufferInv /\ ArgsInv /\ EventsInv /\ StdinInv /\ PrintedInv

(* The queue stays within its bound.                                        *)
LEMMA PostedPending ==
    ASSUME NEW q, Pending(q), NEW n \in Names, NEW act \in Acts
    PROVE  Pending(Posted(q, Event(n, act)))
  <1> DEFINE E == [name: Names, act: Acts]
  <1>1. Event(n, act) \in E
    BY DEF Event
  <1>2. PICK e \in E : e = Event(n, act)
    BY <1>1
  <1> HIDE DEF E
  <1>3. q \in Seq(E) /\ Len(q) <= MaxQueue /\ MaxQueue \in Nat
    BY BoundsAssumption DEF Pending, E
  <1>4. CASE Posted(q, e) = q
    BY <1>2, <1>3, <1>4 DEF Pending, E
  <1>5. CASE Posted(q, e) # q
    <2>1. Posted(q, e) = Append(q, e) /\ Len(q) # MaxQueue
      BY <1>5 DEF Posted
    <2>2. Append(q, e) \in Seq(E) /\ Len(Append(q, e)) = Len(q) + 1 /\ Len(q) \in Nat
      BY <1>2, <1>3
    <2>3. QED
      BY <1>2, <1>3, <2>1, <2>2 DEF Pending, E
  <1>6. QED
    BY <1>4, <1>5

(* What a print leaves of the files and of the queue.                       *)
LEMMA ShowTypes ==
    ASSUME TypeInv, NEW o \in Outputs, Show(o)
    PROVE  /\ disk' \in [Others \cup OutFiles -> BOOLEAN]
           /\ Pending(queue')
           /\ created' \subseteq setup.shows
           /\ printed' \subseteq Outputs
  <1>1. /\ disk \in [Others \cup OutFiles -> BOOLEAN] /\ Pending(queue)
        /\ created \subseteq setup.shows /\ printed \subseteq Outputs
        /\ setup.file \in [Outputs -> OutFiles \cup {StdOut}]
    BY DEF TypeInv, EventsInv, PrintedInv, OutputInv, SetupInv
  <1>2. CASE UNCHANGED <<kernel, outputs>>
    BY <1>1, <1>2 DEF kernel, outputs
  <1>3. CASE ~UNCHANGED <<kernel, outputs>>
    <2>1. PICK f : f = setup.file[o]
      OBVIOUS
    <2>2. /\ o \in setup.shows /\ f # StdOut /\ Written(f)
          /\ created' = created \cup {o} /\ printed' = printed \cup {o}
      BY <1>3, <2>1 DEF Show, PrintOutput
    <2>3. f \in OutFiles
      BY <1>1, <2>1, <2>2
    <2>4. disk' \in [Others \cup OutFiles -> BOOLEAN]
      BY <1>1, <2>2, <2>3 DEF Written
    <2>5. Pending(queue')
      <3>1. CASE Watching /\ f \in Watched
        <4>1. f \in Names /\ "CREATE" \in Acts /\ "MODIFY" \in Acts
          BY <3>1 DEF Names, Acts
        <4>2. PICK q : q = IF disk[f] THEN queue ELSE Posted(queue, Event(f, "CREATE"))
          OBVIOUS
        <4>3. Pending(q)
          BY <1>1, <4>1, <4>2, PostedPending
        <4>4. queue' = Posted(q, Event(f, "MODIFY"))
          BY <2>2, <3>1, <4>2 DEF Written
        <4>5. QED
          BY <4>1, <4>3, <4>4, PostedPending
      <3>2. CASE ~(Watching /\ f \in Watched)
        BY <1>1, <2>2, <3>2 DEF Written
      <3>3. QED
        BY <3>1, <3>2
    <2>6. QED
      BY <1>1, <2>2, <2>4, <2>5
  <1>4. QED
    BY <1>2, <1>3

(* What evaluating an option does to the arguments.                         *)
LEMMA EvaluateEffect ==
    ASSUME TypeInv, Evaluate
    PROVE  /\ phase' \in {"arguments", "failed", "told"}
           /\ given' = given
           /\ setup'.flags \subseteq Flags
           /\ setup.shows \subseteq setup'.shows
           /\ \/ args' = args
              \/ \E n \in 1..2 : n <= Len(args) /\ args' = SubSeq(args, n + 1, Len(args))
  <1> DEFINE Goal == /\ phase' \in {"arguments", "failed", "told"}
                     /\ given' = given
                     /\ setup'.flags \subseteq Flags
                     /\ setup.shows \subseteq setup'.shows
                     /\ \/ args' = args
                        \/ \E n \in 1..2 : n <= Len(args) /\ args' = SubSeq(args, n + 1, Len(args))
  <1> SUFFICES Goal
    BY DEF Goal
  <1>1. /\ DOMAIN setup = {"flags", "shows", "file", "files", "zones", "zone"}
        /\ setup.flags \subseteq Flags
        /\ phase = "arguments"
    BY DEF TypeInv, OutputInv, SetupInv, Nothing, ArgsInv, Evaluate
  <1>2. PICK k \in Nat : k = Len(args) /\ k > 0
    <2>1. args \in Seq(STRING) /\ args # <<>>
      BY DEF TypeInv, OutputInv, SetupInv, WellFormed, Evaluate
    <2>2. QED
      BY <2>1
  <1>3. Missing <=> k = 1
    BY <1>2 DEF Missing
  <1>4. 1 \in 1..2 /\ 2 \in 1..2 /\ 1 <= k /\ (~Missing => 2 <= k)
    BY <1>2, <1>3
  <1>5. ASSUME NEW p \in {"failed", "told"}, Goto(p) PROVE Goal
    BY <1>1, <1>5 DEF Goto, arguments
  <1>6. ASSUME NEW n \in 1..2, NEW s, Evaluates(n, s), n <= k,
               s.flags \subseteq Flags, setup.shows \subseteq s.shows
        PROVE  Goal
    BY <1>1, <1>2, <1>6 DEF Evaluates
  <1> HIDE DEF Goal
  <1>7. ASSUME NEW s, s.flags = setup.flags, s.shows = setup.shows, ~Missing, Evaluates(2, s)
        PROVE  Goal
    BY <1>1, <1>4, <1>6, <1>7
  <1>8. CASE EvalHelp
    BY <1>5, <1>8 DEF EvalHelp
  <1>9. CASE EvalFlag
    <2>1. PICK s : s = [setup EXCEPT !.flags = @ \cup {Opt}] /\ Evaluates(1, s)
      BY <1>9 DEF EvalFlag
    <2>2. s.flags \subseteq Flags /\ s.shows = setup.shows
      BY <1>1, <1>9, <2>1 DEF EvalFlag
    <2>3. QED
      BY <1>4, <1>6, <2>1, <2>2
  <1>10. CASE EvalOutput
    <2> DEFINE to(f) == [setup EXCEPT !.shows = @ \cup {Opt}, !.file[Opt] = f]
    <2>1. \/ Evaluates(1, to(StdOut))
          \/ ~Missing /\ Evaluates(2, to(args[2]))
      BY <1>10 DEF EvalOutput
    <2>2. ASSUME NEW f PROVE to(f).flags = setup.flags /\ to(f).shows = setup.shows \cup {Opt}
      BY <1>1
    <2> HIDE DEF to
    <2>3. ASSUME NEW f PROVE to(f).flags \subseteq Flags /\ setup.shows \subseteq to(f).shows
      BY <1>1, <2>2
    <2>4. QED
      BY <1>4, <1>6, <2>1, <2>3
  <1>11. CASE EvalLimit
    BY <1>5, <1>7, <1>11 DEF EvalLimit
  <1>12. CASE EvalAddFile
    <2>1. PICK s : s = [setup EXCEPT !.files = Append(@, args[2])]
      OBVIOUS
    <2>2. QED
      BY <1>1, <1>5, <1>7, <1>12, <2>1 DEF EvalAddFile
  <1>13. CASE EvalAddZone
    <2>1. PICK s : s = [setup EXCEPT !.zones = WithLast(setup), !.zone = NewZone(args[2])]
      OBVIOUS
    <2>2. QED
      BY <1>1, <1>5, <1>7, <1>13, <2>1 DEF EvalAddZone
  <1>14. CASE EvalDepth
    <2>1. PICK s : s = [setup EXCEPT !.zone.depth = DepthOf(args[2])]
      OBVIOUS
    <2>2. QED
      BY <1>1, <1>5, <1>7, <1>14, <2>1 DEF EvalDepth
  <1>15. CASE EvalFilter
    <2>1. PICK s : s = [setup EXCEPT !.zone.filters = Append(@, <<Opt, args[2]>>)]
      OBVIOUS
    <2>2. QED
      BY <1>1, <1>5, <1>7, <1>15, <2>1 DEF EvalFilter
  <1>16. CASE EvalExcludeAll
    <2>1. PICK s : s = [setup EXCEPT !.zone.filters =
                            @ \o <<<<"--exclude-file", ".*">>, <<"--exclude-dir", ".*">>>>]
      OBVIOUS
    <2>2. s.flags = setup.flags /\ s.shows = setup.shows
      BY <1>1, <2>1
    <2>3. Goto("failed") \/ Evaluates(1, s)
      BY <1>16, <2>1 DEF EvalExcludeAll
    <2>4. QED
      BY <1>1, <1>4, <1>5, <1>6, <2>2, <2>3
  <1>17. CASE EvalUnknown
    BY <1>5, <1>17 DEF EvalUnknown
  <1>18. QED
    BY <1>8, <1>9, <1>10, <1>11, <1>12, <1>13, <1>14, <1>15, <1>16, <1>17 DEF Evaluate

(* The rest of the rest of a list is one of its ends.                       *)
LEMMA RestOfRest ==
    ASSUME NEW ws \in Seq(STRING), NEW i \in 0..Len(ws), NEW rest,
           rest = SubSeq(ws, i + 1, Len(ws)), NEW n \in 0..Len(rest)
    PROVE  /\ i + n \in 0..Len(ws)
           /\ SubSeq(rest, n + 1, Len(rest)) = SubSeq(ws, (i + n) + 1, Len(ws))
  <1>1. PICK k \in Nat : k = Len(ws)
    OBVIOUS
  <1>2. /\ rest \in Seq(STRING) /\ Len(rest) = k - i
        /\ \A x \in 1..(k - i) : rest[x] = ws[i + x]
    BY <1>1
  <1>3. i + n \in 0..k /\ i \in 0..k /\ n \in 0..(k - i)
    BY <1>1, <1>2
  <1>4. SubSeq(ws, (i + n) + 1, k) = [x \in 1..(k - (i + n)) |-> ws[(i + n) + x]]
    BY <1>1, <1>3
  <1>5. SubSeq(rest, n + 1, k - i) = [x \in 1..((k - i) - n) |-> rest[n + x]]
    BY <1>2, <1>3
  <1>6. (k - i) - n = k - (i + n)
    BY <1>3
  <1>7. ASSUME NEW x \in 1..(k - (i + n)) PROVE rest[n + x] = ws[(i + n) + x]
    <2>1. n + x \in 1..(k - i) /\ i + (n + x) = (i + n) + x
      BY <1>3
    <2>2. QED
      BY <1>2, <2>1
  <1>8. [x \in 1..(k - (i + n)) |-> rest[n + x]] = [x \in 1..(k - (i + n)) |-> ws[(i + n) + x]]
    BY <1>7
  <1>9. QED
    BY <1>1, <1>2, <1>3, <1>4, <1>5, <1>6, <1>8

(* An end of a list is a suffix of it, as SequencesExt defines one.         *)
LEMMA RestIsSuffix ==
    ASSUME NEW ws \in Seq(STRING), NEW i \in 0..Len(ws)
    PROVE  IsSuffix(SubSeq(ws, i + 1, Len(ws)), ws)
  <1>1. PICK k \in Nat : k = Len(ws)
    OBVIOUS
  <1>2. PICK rest : rest = SubSeq(ws, i + 1, k)
    OBVIOUS
  <1>3. /\ rest \in Seq(STRING) /\ Len(rest) = k - i
        /\ \A x \in 1..(k - i) : rest[x] = ws[i + x]
    BY <1>1, <1>2
  <1>4. PICK r : r = Reverse(rest)
    OBVIOUS
  <1>5. PICK w : w = Reverse(ws)
    OBVIOUS
  <1>6. /\ r = [x \in 1..(k - i) |-> rest[((k - i) - x) + 1]]
        /\ w = [x \in 1..k |-> ws[(k - x) + 1]]
    BY <1>1, <1>3, <1>4, <1>5 DEF Reverse
  <1>7. k - i \in Nat /\ k - i <= k
    BY <1>1
  <1>8. r \in Seq(STRING) /\ Len(r) = k - i
    <2>1. \A x \in 1..(k - i) : rest[((k - i) - x) + 1] \in STRING
      BY <1>3, <1>7
    <2>2. QED
      BY <1>6, <1>7, <2>1
  <1>9. w \in Seq(STRING) /\ Len(w) = k
    <2>1. \A x \in 1..k : ws[(k - x) + 1] \in STRING
      BY <1>1
    <2>2. QED
      BY <1>6, <2>1
  <1>10. ASSUME NEW x \in 1..(k - i) PROVE r[x] = w[x]
    <2>1. /\ ((k - i) - x) + 1 \in 1..(k - i)
          /\ i + (((k - i) - x) + 1) = (k - x) + 1
          /\ x \in 1..k
      BY <1>1
    <2>2. rest[((k - i) - x) + 1] = ws[(k - x) + 1]
      BY <1>3, <2>1
    <2>3. QED
      BY <1>6, <2>1, <2>2
  <1>11. SubSeq(r, 1, Len(r)) = SubSeq(w, 1, Len(r))
    <2>1. SubSeq(r, 1, k - i) = [x \in 1..(k - i) |-> r[x]]
      BY <1>7, <1>8
    <2>2. SubSeq(w, 1, k - i) = [x \in 1..(k - i) |-> w[x]]
      BY <1>7, <1>9
    <2>3. QED
      BY <1>8, <1>10, <2>1, <2>2
  <1>12. IsPrefix(r, w)
    BY <1>7, <1>8, <1>9, <1>11 DEF IsPrefix
  <1>13. QED
    BY <1>1, <1>2, <1>4, <1>5, <1>12 DEF IsSuffix

(* Every step keeps the types.                                              *)
LEMMA ArgsStep == ASSUME TypeInv, [Next]_vars PROVE ArgsInv'
  <1>1. ArgsInv
    BY DEF TypeInv
  <1>2. CASE Evaluate
    <2>1. PICK i \in 0..Len(given) : args = SubSeq(given, i + 1, Len(given))
      BY <1>1 DEF ArgsInv
    <2>2. given \in Seq(STRING)
      BY <1>1, ArgListsAssumption DEF ArgsInv, WellFormed
    <2>3. \E j \in 0..Len(given) : args' = SubSeq(given, j + 1, Len(given))
      <3>1. CASE args' = args
        BY <2>1, <3>1
      <3>2. CASE args' # args
        <4>1. PICK n \in 1..2 : n <= Len(args) /\ args' = SubSeq(args, n + 1, Len(args))
          BY <1>2, <3>2, EvaluateEffect
        <4>2. n \in 0..Len(args)
          <5>1. Len(args) \in Nat
            BY DEF TypeInv, OutputInv, SetupInv, WellFormed
          <5>2. QED
            BY <4>1, <5>1
        <4>3. \A rest : rest = SubSeq(given, i + 1, Len(given)) /\ n \in 0..Len(rest) =>
                  /\ i + n \in 0..Len(given)
                  /\ SubSeq(rest, n + 1, Len(rest)) = SubSeq(given, (i + n) + 1, Len(given))
          BY <2>2, RestOfRest
        <4>4. /\ i + n \in 0..Len(given)
              /\ SubSeq(args, n + 1, Len(args)) = SubSeq(given, (i + n) + 1, Len(given))
          BY <2>1, <4>2, <4>3, Zenon
        <4>5. QED
          BY <4>1, <4>4, Zenon
      <3>3. QED
        BY <3>1, <3>2
    <2>4. /\ phase' \in {"arguments", "failed", "told"}
          /\ given' = given
          /\ setup'.flags \subseteq Flags
      BY <1>2, EvaluateEffect
    <2>5. QED
      BY <1>1, <2>3, <2>4 DEF ArgsInv
  <1>3. CASE EndOfArguments \/ Define \/ Start
    <2>1. DOMAIN setup = {"flags", "shows", "file", "files", "zones", "zone"}
      BY DEF TypeInv, OutputInv, SetupInv, Nothing
    <2>2. \/ \E zs, z : setup' = [setup EXCEPT !.zones = zs, !.zone = z]
          \/ \E zs : setup' = [setup EXCEPT !.zones = zs]
          \/ \E shows : setup' = [setup EXCEPT !.shows = shows]
          \/ setup' = setup
      BY <1>3 DEF EndOfArguments, Define, Start
    <2>3. setup'.flags = setup.flags
      BY <2>1, <2>2
    <2>4. given' = given /\ args' = args /\ phase' \in {"defining", "zones", "failed", "watched"}
      BY <1>3 DEF EndOfArguments, Define, Start
    <2>5. QED
      BY <1>1, <2>3, <2>4 DEF ArgsInv
  <1>4. CASE ShowZones \/ ShowCalculated \/ ShowWatched \/ ShowAfter \/ ShowModified
    BY <1>1, <1>4 DEF ShowZones, ShowCalculated, ShowWatched, ShowAfter, ShowModified, Step,
                      arguments, ArgsInv
  <1>5. CASE Calculate \/ Dispatch \/ Handle \/ OnStdin \/ Stop
    BY <1>1, <1>5 DEF Calculate, Dispatch, Handle, OnStdin, Stop, arguments, ArgsInv
  <1>6. CASE Environment
    BY <1>1, <1>6 DEF Environment, Change, Lock, Quieten, Type, arguments, ArgsInv
  <1>7. CASE UNCHANGED vars
    BY <1>1, <1>7 DEF vars, ArgsInv
  <1>8. QED
    BY <1>2, <1>3, <1>4, <1>5, <1>6, <1>7 DEF Next, Program

LEMMA EventsStep == ASSUME TypeInv, [Next]_vars PROVE EventsInv'
  <1>1. EventsInv /\ EventsInv!1 /\ EventsInv!2 /\ EventsInv!3 /\ EventsInv!4
    BY DEF TypeInv, EventsInv
  <1>2. ASSUME UNCHANGED <<kernel, buffer, result>> PROVE EventsInv'
    BY <1>1, <1>2 DEF EventsInv, Pending, kernel
  <1>3. ASSUME NEW o \in Outputs, Show(o), UNCHANGED <<buffer, result>> PROVE EventsInv'
    <2>1. disk' \in [Others \cup OutFiles -> BOOLEAN] /\ Pending(queue')
      BY <1>3, ShowTypes
    <2>2. QED
      BY <1>1, <1>3, <2>1 DEF EventsInv, Pending
  <1>4. CASE Evaluate \/ EndOfArguments \/ Define \/ Calculate \/ Start \/ OnStdin
    BY <1>2, <1>4 DEF Evaluate, EndOfArguments, Define, Calculate, Start, OnStdin
  <1>5. CASE ShowZones \/ ShowCalculated \/ ShowWatched \/ ShowAfter \/ ShowModified
    <2>1. PICK o \in Outputs : Show(o) /\ UNCHANGED <<buffer, result>>
      BY <1>5 DEF ShowZones, ShowCalculated, ShowWatched, ShowAfter, ShowModified, Step, Outputs
    <2>2. QED
      BY <1>3, <2>1
  <1>6. CASE Dispatch \/ Stop
    <2>1. Pending(<<>>)
      BY BoundsAssumption DEF Pending
    <2>2. /\ UNCHANGED <<disk, result>> /\ queue' = <<>>
          /\ buffer' = queue \/ buffer' = buffer
      BY <1>6 DEF Dispatch, Stop
    <2>3. QED
      BY <1>1, <2>1, <2>2 DEF EventsInv, Pending
  <1>7. CASE Handle
    <2>1. PICK e : e = Head(buffer)
      OBVIOUS
    <2>2. /\ buffer # <<>> /\ buffer' = Tail(buffer)
          /\ result' = [result EXCEPT ![e.name] = IF e.act = "DELETE" THEN "gone" ELSE "there"]
          /\ Show("--live-actions") \/ UNCHANGED <<kernel, outputs>>
      BY <1>7, <2>1 DEF Handle
    <2>3. e.name \in Names /\ Pending(buffer')
      <3> DEFINE E == [name: Names, act: Acts]
      <3>1. \A x \in E : x.name \in Names
        OBVIOUS
      <3>2. buffer \in Seq(E) /\ Len(buffer) <= MaxQueue /\ MaxQueue \in Nat
        BY <1>1, BoundsAssumption DEF Pending
      <3> HIDE DEF E
      <3>3. Head(buffer) \in E /\ Tail(buffer) \in Seq(E) /\ Len(Tail(buffer)) = Len(buffer) - 1
            /\ Len(buffer) \in Nat
        BY <2>2, <3>2
      <3>4. Len(buffer') <= MaxQueue /\ buffer' \in Seq(E)
        BY <2>2, <3>2, <3>3
      <3>5. QED
        BY <2>1, <3>1, <3>3, <3>4 DEF Pending, E
    <2>4. disk' \in [Others \cup OutFiles -> BOOLEAN] /\ Pending(queue')
      <3>1. CASE Show("--live-actions")
        BY <3>1, ShowTypes DEF Outputs
      <3>2. CASE UNCHANGED <<kernel, outputs>>
        BY <1>1, <3>2 DEF kernel
      <3>3. QED
        BY <2>2, <3>1, <3>2
    <2>5. result' \in [Names -> {"none", "there", "gone"}]
      BY <1>1, <2>2, <2>3
    <2>6. QED
      BY <2>3, <2>4, <2>5 DEF EventsInv, Pending
  <1>8. CASE \E n \in Others : Change(n)
    <2>1. PICK n \in Others : Change(n)
      BY <1>8
    <2>2. /\ UNCHANGED <<buffer, result>>
          /\ disk' = [disk EXCEPT ![n] = ~disk[n]] \/ disk' = disk
      BY <2>1 DEF Change
    <2>3. PICK act \in Acts : queue' = Posted(queue, Event(n, act))
      BY <2>1 DEF Change, Acts
    <2>4. disk' \in [Others \cup OutFiles -> BOOLEAN]
      BY <1>1, <2>2
    <2>5. Pending(queue')
      BY <1>1, <2>3, PostedPending DEF Names
    <2>6. QED
      BY <1>1, <2>2, <2>4, <2>5 DEF EventsInv, Pending
  <1>9. CASE (\E f \in OutFiles : Lock(f)) \/ Quieten \/ Type
    BY <1>2, <1>9 DEF Lock, Quieten, Type
  <1>10. CASE UNCHANGED vars
    BY <1>2, <1>10 DEF vars, kernel
  <1>11. QED
    BY <1>4, <1>5, <1>6, <1>7, <1>8, <1>9, <1>10 DEF Next, Program, Environment

LEMMA StdinStep == ASSUME TypeInv, [Next]_vars PROVE StdinInv'
  <1>1. StdinInv /\ LineLength \in Nat
    BY BoundsAssumption DEF TypeInv
  <1>2. ASSUME UNCHANGED <<stdin, others>>, quitting' \in BOOLEAN, fatal' \in BOOLEAN PROVE StdinInv'
    BY <1>1, <1>2 DEF StdinInv, stdin, others
  <1>3. quitting \in BOOLEAN /\ fatal \in BOOLEAN
    BY <1>1 DEF StdinInv
  <1>4. CASE Evaluate \/ EndOfArguments \/ Define \/ Calculate \/ Start \/ Dispatch \/ Stop
    BY <1>2, <1>3, <1>4 DEF Evaluate, EndOfArguments, Define, Calculate, Start, Dispatch, Stop
  <1>5. CASE ShowZones \/ ShowCalculated \/ ShowWatched \/ ShowAfter \/ ShowModified
    BY <1>2, <1>3, <1>5 DEF ShowZones, ShowCalculated, ShowWatched, ShowAfter, ShowModified, Step
  <1>6. CASE Handle
    BY <1>2, <1>3, <1>6 DEF Handle
  <1>7. CASE OnStdin
    <2>1. UNCHANGED <<others, eof, hup, fatal>> /\ quitting' \in BOOLEAN
      BY <1>3, <1>7 DEF OnStdin, stdin
    <2>2. \/ UNCHANGED <<typed, stdio>>
          \/ stdio > 0 /\ stdio' = stdio - 1 /\ typed' = typed
          \/ typed > 0 /\ stdio' = typed - 1 /\ typed' = 0
      BY <1>7 DEF OnStdin, stdin
    <2>3. typed' \in {0, LineLength} /\ stdio' \in 0..LineLength
      BY <1>1, <2>2 DEF StdinInv
    <2>4. QED
      BY <1>1, <2>1, <2>3 DEF StdinInv, others
  <1>8. CASE Environment
    <2>1. CASE \E n \in Others : Change(n)
      BY <1>2, <1>3, <2>1 DEF Change
    <2>2. CASE (\E f \in OutFiles : Lock(f)) \/ Quieten
      BY <1>1, <2>2 DEF Lock, Quieten, StdinInv, stdin
    <2>3. CASE Type
      BY <1>1, <2>3 DEF Type, StdinInv, others
    <2>4. QED
      BY <1>8, <2>1, <2>2, <2>3 DEF Environment
  <1>9. CASE UNCHANGED vars
    BY <1>2, <1>3, <1>9 DEF vars, stdin, others
  <1>10. QED
    BY <1>4, <1>5, <1>6, <1>7, <1>8, <1>9 DEF Next, Program

LEMMA PrintedStep == ASSUME TypeInv, [Next]_vars PROVE PrintedInv'
  <1>1. PrintedInv
    BY DEF TypeInv
  <1>2. ASSUME UNCHANGED outputs, setup.shows \subseteq setup'.shows PROVE PrintedInv'
    BY <1>1, <1>2 DEF PrintedInv, outputs
  <1>3. ASSUME NEW o \in Outputs, Show(o), UNCHANGED arguments PROVE PrintedInv'
    BY <1>3, ShowTypes DEF PrintedInv, arguments
  <1>4. CASE Evaluate
    BY <1>2, <1>4, EvaluateEffect DEF Evaluate
  <1>5. CASE EndOfArguments \/ Define \/ Start
    <2>1. DOMAIN setup = {"flags", "shows", "file", "files", "zones", "zone"}
      BY DEF TypeInv, OutputInv, SetupInv, Nothing
    <2>2. UNCHANGED outputs
      BY <1>5 DEF EndOfArguments, Define, Start
    <2>3. \/ \E zs, z : setup' = [setup EXCEPT !.zones = zs, !.zone = z]
          \/ \E zs : setup' = [setup EXCEPT !.zones = zs]
          \/ \E shows : setup' = [setup EXCEPT !.shows = shows] /\ setup.shows \subseteq shows
          \/ setup' = setup
      <3>1. CASE EndOfArguments \/ Define
        BY <3>1 DEF EndOfArguments, Define
      <3>2. CASE Start
        <4>1. PICK shows : shows = IF setup.shows \cap {"--live-actions", "--print-modified"} = {}
                                     THEN setup.shows \cup {"--print-modified"} ELSE setup.shows
          OBVIOUS
        <4>2. setup' = [setup EXCEPT !.shows = shows]
          BY <3>2, <4>1 DEF Start
        <4>3. setup.shows \subseteq shows
          BY <4>1
        <4>4. QED
          BY <4>2, <4>3
      <3>3. QED
        BY <1>5, <3>1, <3>2
    <2>4. setup.shows \subseteq setup'.shows
      BY <2>1, <2>3
    <2>5. QED
      BY <1>2, <2>2, <2>4
  <1>6. CASE ShowZones \/ ShowCalculated \/ ShowWatched \/ ShowAfter \/ ShowModified
    <2>1. PICK o \in Outputs : Show(o) /\ UNCHANGED arguments
      BY <1>6 DEF ShowZones, ShowCalculated, ShowWatched, ShowAfter, ShowModified, Step, Outputs
    <2>2. QED
      BY <1>3, <2>1
  <1>7. CASE Handle
    <2>1. UNCHANGED arguments /\ (Show("--live-actions") \/ UNCHANGED outputs)
      BY <1>7 DEF Handle
    <2>2. QED
      BY <1>2, <1>3, <2>1 DEF Outputs, arguments
  <1>8. CASE Calculate \/ Dispatch \/ OnStdin \/ Stop
    BY <1>2, <1>8 DEF Calculate, Dispatch, OnStdin, Stop, arguments
  <1>9. CASE Environment
    BY <1>2, <1>9 DEF Environment, Change, Lock, Quieten, Type, arguments
  <1>10. CASE UNCHANGED vars
    BY <1>2, <1>10 DEF vars, outputs
  <1>11. QED
    BY <1>4, <1>5, <1>6, <1>7, <1>8, <1>9, <1>10 DEF Next, Program

LEMMA TypeInit == Init => TypeInv
  <1> SUFFICES ASSUME Init PROVE TypeInv
    OBVIOUS
  <1>1. OutputInv /\ BufferInv
    BY OutputInvInit
  <1>2. given \in Seq(STRING)
    BY ArgListsAssumption DEF Init, WellFormed
  <1>3. ArgsInv
    <2>1. 0 \in 0..Len(given) /\ SubSeq(given, 0 + 1, Len(given)) = given
      BY <1>2
    <2>2. args = SubSeq(given, 0 + 1, Len(given))
      BY <2>1 DEF Init
    <2>3. QED
      BY <2>1, <2>2 DEF Init, ArgsInv, Nothing
  <1>4. EventsInv
    <2>1. Pending(<<>>)
      BY BoundsAssumption DEF Pending
    <2>2. queue = <<>> /\ buffer = <<>> /\ disk \in [Others \cup OutFiles -> BOOLEAN]
      BY DEF Init
    <2>3. Pending(queue) /\ Pending(buffer)
      BY <2>1, <2>2, Zenon
    <2>4. result \in [Names -> {"none", "there", "gone"}]
      BY DEF Init, Names
    <2>5. QED
      BY <2>2, <2>3, <2>4 DEF EventsInv
  <1>5. StdinInv /\ PrintedInv
    <2>1. /\ typed = 0 /\ stdio = 0 /\ eof = FALSE /\ hup = FALSE
          /\ quitting = FALSE /\ fatal = FALSE /\ locked = {} /\ quiet = FALSE
          /\ created = {} /\ printed = {}
      BY DEF Init
    <2>2. 0 \in 0..LineLength
      BY BoundsAssumption
    <2>3. QED
      BY <2>1, <2>2 DEF StdinInv, PrintedInv
  <1>6. QED
    BY <1>1, <1>3, <1>4, <1>5 DEF TypeInv

LEMMA TypeOfInv == TypeInv => TypeOK
  <1> SUFFICES ASSUME TypeInv PROVE TypeOK
    OBVIOUS
  <1>1. given \in ArgLists /\ IsSuffix(args, given)
    <2>1. given \in Seq(STRING)
      BY ArgListsAssumption DEF TypeInv, ArgsInv, WellFormed
    <2>2. PICK i \in 0..Len(given) : args = SubSeq(given, i + 1, Len(given))
      BY DEF TypeInv, ArgsInv
    <2>3. IsSuffix(SubSeq(given, i + 1, Len(given)), given)
      BY <2>1, RestIsSuffix, Zenon
    <2>4. IsSuffix(args, given)
      BY <2>2, <2>3, Zenon
    <2>5. QED
      BY <2>4 DEF TypeInv, ArgsInv
  <1>2. /\ Len(queue) <= MaxQueue /\ Len(buffer) <= MaxQueue
        /\ \A i \in DOMAIN queue : queue[i].name \in Others \cup Watched
    <2> DEFINE E == [name: Names, act: Acts]
    <2>1. \A x \in E : x.name \in Others \cup Watched
      BY DEF Names
    <2>2. /\ queue \in Seq(E) /\ Len(queue) <= MaxQueue
          /\ Len(buffer) <= MaxQueue
      BY DEF TypeInv, EventsInv, Pending
    <2> HIDE DEF E
    <2>3. QED
      BY <2>1, <2>2
  <1>3. /\ setup.flags \subseteq Flags
        /\ setup.shows \subseteq Outputs
        /\ setup.file \in [Outputs -> OutFiles \cup {StdOut}]
        /\ content \in [OutFiles -> [old: BOOLEAN, lost: BOOLEAN, has: SUBSET Outputs]]
    BY DEF TypeInv, ArgsInv, OutputInv, SetupInv, ContentInv
  <1>4. QED
    BY <1>1, <1>2, <1>3 DEF TypeOK, TypeInv, ArgsInv, EventsInv, StdinInv, PrintedInv, Names

(* The program's variables stay within their types: the arguments left are   *)
(* the last of those given, the queue within its bound, and only outputs     *)
(* that were asked for are created (main.cc:116-583).                       *)
THEOREM TypeCorrect == Spec => []TypeOK
  <1>1. TypeInv /\ [Next]_vars => TypeInv'
    <2> SUFFICES ASSUME TypeInv, [Next]_vars PROVE TypeInv'
      OBVIOUS
    <2>1. OutputInv' /\ BufferInv'
      BY OutputInvStep, BufferInvStep DEF TypeInv
    <2>2. ArgsInv' /\ EventsInv' /\ StdinInv' /\ PrintedInv'
      BY ArgsStep, EventsStep, StdinStep, PrintedStep
    <2>3. QED
      BY <2>1, <2>2 DEF TypeInv
  <1>2. QED
    BY <1>1, TypeInit, TypeOfInv, PTL DEF Spec

---------------------------------------------------------------------------
(* The zones are as written.  The evaluation is compared, option by option,  *)
(* with the declarative reading of the arguments: after the first i words,    *)
(* the zones so far are those that start there, each with what belongs to it *)
(* among those words.                                                      *)

(* The zones that the first i words start.                                  *)
ZonesOf(ws, i) == {k \in ZoneStarts(ws) : k <= i}

(* What a DirectoryZone may hold.                                            *)
Patterns == STRING \cup {".*"}
Zones == [path: STRING \cup {""}, depth: Int, filters: Seq(Filters \X Patterns)]

(* The zones zs are those that the first i words describe.                  *)
SoFar(zs, ws, i) ==
    /\ zs \in Seq(Zones)
    /\ Len(zs) = Cardinality(ZonesOf(ws, i))
    /\ \A n \in 1..Len(zs) : \E k \in ZonesOf(ws, i) :
          /\ Cardinality({j \in ZonesOf(ws, i) : j <= k}) = n
          /\ AsWritten(zs[n], ws, k, Own(ws, i, k))

(* i words have been evaluated, up to an option.                            *)
Evaluated(i) ==
    /\ i \in 0..Len(given)
    /\ args = SubSeq(given, i + 1, Len(given))
    /\ i < Len(given) => i + 1 \in Starts(given)
    /\ SoFar(WithLast(setup), given, i)
    /\ setup.zone \in Zones /\ setup.zones \in Seq(Zones)

ParseInv ==
    /\ phase = "arguments" => \E i \in 0..Len(given) : Evaluated(i)
    /\ phase = "defining" => SoFar(setup.zones, given, Len(given))
    /\ ZonesAsWritten

(* Every set of numbers that is not empty has a least one.                  *)
LEMMA LeastNumber ==
    ASSUME NEW S \in SUBSET Nat, S # {}
    PROVE  \E m \in S : \A n \in S : m <= n
  <1> DEFINE Less == {ss \in Nat \X Nat : ss[1] < ss[2]}
  <1>0. IsWellFoundedOn(Less, Nat)
    BY NatLessThanWellFounded DEF OpToRel
  <1> HIDE DEF Less
  <1>1. PICK x \in S : \A y \in S : ~ (<<y, x>> \in Less)
    BY <1>0, WFMin
  <1>2. \A y \in S : ~(y < x)
    BY <1>1 DEF Less
  <1>3. QED
    BY <1>2

(* The positions of the options are determined: the definition of Starts     *)
(* chooses a set that exists.                                              *)
LEMMA StartsAre ==
    ASSUME NEW ws \in Seq(STRING)
    PROVE  /\ Starts(ws) \in SUBSET DOMAIN ws
           /\ \A i \in DOMAIN ws :
                 (i \in Starts(ws)) <=> (i = 1 \/ ~(i - 1 \in Starts(ws) /\ TakesTwo(ws, i - 1)))
  <1> DEFINE Two == {i \in Int : TakesTwo(ws, i)}
             Right(S, n) == \A i \in 1..n : (i \in S) <=> (i = 1 \/ ~(i - 1 \in S /\ i - 1 \in Two))
             Done == {n \in Nat : \E S \in SUBSET (1..n) : Right(S, n)}
  <1>1. PICK k \in Nat : k = Len(ws) /\ DOMAIN ws = 1..k
    OBVIOUS
  <1> HIDE DEF Two
  <1>2. 0 \in Done
    OBVIOUS
  <1>3. ASSUME NEW n \in Nat, n \in Done PROVE n + 1 \in Done
    <2>1. PICK S \in SUBSET (1..n) : Right(S, n)
      BY <1>3
    <2>2. PICK T : T = IF n + 1 = 1 \/ ~(n \in S /\ n \in Two) THEN S \cup {n + 1} ELSE S
      OBVIOUS
    <2>3. T \in SUBSET (1..(n + 1)) /\ n + 1 \notin S
      BY <2>2
    <2>4. \A i \in 1..n : (i \in T <=> i \in S) /\ (i - 1 \in T <=> i - 1 \in S)
      BY <2>2
    <2>5. (n + 1) - 1 = n /\ (n \in T <=> n \in S)
      BY <2>2
    <2>6. n + 1 \in T <=> (n + 1 = 1 \/ ~((n + 1) - 1 \in T /\ (n + 1) - 1 \in Two))
      BY <2>2, <2>3, <2>5
    <2>7. ASSUME NEW i \in 1..(n + 1)
          PROVE  (i \in T) <=> (i = 1 \/ ~(i - 1 \in T /\ i - 1 \in Two))
      <3>1. CASE i = n + 1
        BY <2>6, <3>1
      <3>2. CASE i \in 1..n
        BY <2>1, <2>4, <3>2
      <3>3. QED
        BY <3>1, <3>2
    <2>8. QED
      BY <2>3, <2>7
  <1>4. k \in Done
    <2> HIDE DEF Done
    <2>1. SUFFICES ASSUME Nat \ Done # {} PROVE FALSE
      OBVIOUS
    <2>2. PICK m \in Nat \ Done : \A n \in Nat \ Done : m <= n
      BY <2>1, LeastNumber
    <2>3. m # 0 /\ m - 1 \in Nat /\ ~(m <= m - 1) /\ (m - 1) + 1 = m
      BY <1>2, <2>2
    <2>4. m - 1 \in Done
      BY <2>2, <2>3
    <2>5. QED
      BY <1>3, <2>2, <2>3, <2>4
  <1>5. PICK S \in SUBSET DOMAIN ws :
            \A i \in DOMAIN ws : (i \in S) <=> (i = 1 \/ ~(i - 1 \in S /\ TakesTwo(ws, i - 1)))
    <2>1. PICK S \in SUBSET (1..k) : Right(S, k)
      BY <1>4
    <2>2. \A i \in 1..k : i - 1 \in Two <=> TakesTwo(ws, i - 1)
      BY DEF Two
    <2>3. QED
      BY <1>1, <2>1, <2>2
  <1>6. QED
    BY <1>5 DEF Starts

(* The option that begins after i words, with its argument or without.        *)
LEMMA NextOption ==
    ASSUME NEW ws \in Seq(STRING), NEW i \in Nat, NEW n \in 1..2, i + n <= Len(ws),
           i + 1 \in Starts(ws), n = 2 <=> TakesTwo(ws, i + 1)
    PROVE  /\ i + n < Len(ws) => (i + n) + 1 \in Starts(ws)
           /\ \A j \in Starts(ws) : j <= i + n <=> j <= i \/ j = i + 1
  <1>1. PICK k \in Nat : k = Len(ws) /\ DOMAIN ws = 1..k
    OBVIOUS
  <1>2. PICK S : S = Starts(ws)
    OBVIOUS
  <1>3. /\ S \in SUBSET (1..k)
        /\ \A j \in 1..k : (j \in S) <=> (j = 1 \/ ~(j - 1 \in S /\ TakesTwo(ws, j - 1)))
    BY <1>1, <1>2, StartsAre
  <1>4. i + 1 \in S
    BY <1>2
  <1>5. CASE n = 1
    <2>1. ~TakesTwo(ws, i + 1) /\ i + n = i + 1 /\ ((i + 1) + 1) - 1 = i + 1
      BY <1>5
    <2>2. i + n < k => (i + 1) + 1 \in 1..k
      BY <1>5
    <2>3. i + n < k => (i + 1) + 1 \in S
      BY <1>3, <2>1, <2>2
    <2>4. \A j \in S : j <= i + 1 <=> j <= i \/ j = i + 1
      BY <1>3
    <2>5. QED
      BY <1>1, <1>2, <2>1, <2>3, <2>4
  <1>6. CASE n = 2
    <2>1. TakesTwo(ws, i + 1) /\ ((i + 1) + 1) - 1 = i + 1 /\ (i + 1) + 1 # 1
      BY <1>6
    <2>2. i + 2 <= k /\ i + 2 = (i + 1) + 1 /\ i + n = i + 2 /\ i + 2 \in 1..k
      BY <1>1, <1>6
    <2>3. i + 2 \notin S
      BY <1>3, <1>4, <2>1, <2>2
    <2>4. i + n < k => (i + 2) + 1 \in 1..k /\ ((i + 2) + 1) - 1 = i + 2
      BY <2>2
    <2>5. i + n < k => (i + 2) + 1 \in S
      BY <1>3, <2>3, <2>4
    <2>6. \A j \in S : j # i + 2
      BY <2>3
    <2>7. \A j \in S : j <= i + 2 <=> j <= i \/ j = i + 1
      BY <1>3, <2>6
    <2>8. QED
      BY <1>1, <1>2, <2>2, <2>5, <2>7
  <1>7. QED
    BY <1>5, <1>6

(* What becomes of the zones and of what belongs to them with that option.     *)
LEMMA OwnStep ==
    ASSUME NEW ws \in Seq(STRING), NEW i \in Nat, NEW n \in 1..2, i + n <= Len(ws),
           i + 1 \in Starts(ws), n = 2 <=> TakesTwo(ws, i + 1)
    PROVE  /\ Option(ws[i + 1]) # "--add-zone" =>
                /\ ZonesOf(ws, i + n) = ZonesOf(ws, i)
                /\ \A k \in ZonesOf(ws, i) :
                      Own(ws, i + n, k) = IF \A z \in ZonesOf(ws, i) : z <= k
                                            THEN Own(ws, i, k) \cup {i + 1} ELSE Own(ws, i, k)
           /\ Option(ws[i + 1]) = "--add-zone" =>
                /\ ZonesOf(ws, i + n) = ZonesOf(ws, i) \cup {i + 1}
                /\ \A k \in ZonesOf(ws, i) : Own(ws, i + n, k) = Own(ws, i, k)
                /\ Own(ws, i + n, i + 1) = {}
  <1>1. PICK S : S = Starts(ws)
    OBVIOUS
  <1>2. PICK Z : Z = ZoneStarts(ws)
    OBVIOUS
  <1>3. /\ S \subseteq Nat /\ S \subseteq DOMAIN ws
        /\ \A j \in S : j <= i + n <=> j <= i \/ j = i + 1
    BY <1>1, StartsAre, NextOption
  <1>4. Z \subseteq S /\ Z \subseteq Nat /\ \A j \in S : j \in Z <=> Option(ws[j]) = "--add-zone"
    BY <1>1, <1>2, <1>3 DEF ZoneStarts
  <1>5. \A m : ZonesOf(ws, m) = {k \in Z : k <= m}
    BY <1>2 DEF ZonesOf
  <1>6. \A m, k : Own(ws, m, k) = {j \in S : /\ j <= m /\ k \in Z /\ k < j
                                              /\ \A z \in Z : z <= k \/ j < z}
    BY <1>1, <1>2, <1>3 DEF Own, Belongs
  <1>7. PICK p \in S : p = i + 1 /\ p \in Nat
    BY <1>1
  <1>8. \A j \in S : j <= i + n <=> j <= i \/ j = p
    BY <1>3, <1>7
  <1>9. CASE Option(ws[i + 1]) # "--add-zone"
    <2>1. p \notin Z
      BY <1>4, <1>7, <1>9
    <2>2. ZonesOf(ws, i + n) = ZonesOf(ws, i)
      BY <1>4, <1>5, <1>8, <2>1
    <2>3. ASSUME NEW k \in ZonesOf(ws, i)
          PROVE  Own(ws, i + n, k) = IF \A z \in ZonesOf(ws, i) : z <= k
                                       THEN Own(ws, i, k) \cup {p} ELSE Own(ws, i, k)
      <3>0. k \in Z /\ k <= i
        BY <1>5, <2>3
      <3>1. k \in Z /\ k <= i /\ k < p /\ k \in Nat
        BY <1>4, <1>7, <3>0
      <3>2. \A z \in Z : p < z <=> ~(z <= i)
        BY <1>4, <1>7, <2>1
      <3>3. (\A z \in Z : z <= k \/ p < z) <=> \A z \in ZonesOf(ws, i) : z <= k
        BY <1>5, <3>2
      <3>4. Own(ws, i + n, k) = {j \in S : /\ j <= i \/ j = p
                                           /\ k < j /\ \A z \in Z : z <= k \/ j < z}
        BY <1>6, <1>8, <3>1
      <3>5. Own(ws, i, k) = {j \in S : j <= i /\ k < j /\ \A z \in Z : z <= k \/ j < z}
        BY <1>6, <3>1
      <3>6. QED
        BY <3>1, <3>3, <3>4, <3>5
    <2>4. QED
      BY <1>7, <1>9, <2>2, <2>3
  <1>10. CASE Option(ws[i + 1]) = "--add-zone"
    <2>1. p \in Z
      BY <1>4, <1>7, <1>10
    <2>2. ZonesOf(ws, i + n) = ZonesOf(ws, i) \cup {p}
      BY <1>4, <1>5, <1>8, <2>1
    <2>3. ASSUME NEW k \in ZonesOf(ws, i) PROVE Own(ws, i + n, k) = Own(ws, i, k)
      <3>0. k \in Z /\ k <= i
        BY <1>5, <2>3
      <3>1. k \in Nat /\ ~(p <= k) /\ ~(p < p)
        BY <1>4, <1>7, <3>0
      <3>2. Own(ws, i + n, k) = {j \in S : /\ j <= i + n /\ k < j
                                             /\ \A z \in Z : z <= k \/ j < z}
        BY <1>6, <3>0
      <3>3. Own(ws, i, k) = {j \in S : /\ j <= i /\ k < j /\ \A z \in Z : z <= k \/ j < z}
        BY <1>6, <3>0
      <3>4. \A j \in S : j <= i + n /\ (\A z \in Z : z <= k \/ j < z)
                          <=> j <= i /\ (\A z \in Z : z <= k \/ j < z)
        BY <1>8, <2>1, <3>1
      <3>5. QED
        BY <3>2, <3>3, <3>4
    <2>4. Own(ws, i + n, p) = {}
      <3>1. \A j \in S : p < j => ~(j <= i + n)
        BY <1>3, <1>7, <1>8
      <3>2. QED
        BY <1>6, <3>1
    <2>5. QED
      BY <1>7, <1>10, <2>2, <2>3, <2>4
  <1>11. QED
    BY <1>9, <1>10

(* What is in a sequence of filters when one is added.                      *)
LEMMA ToSetAppend ==
    ASSUME NEW S, NEW s \in Seq(S), NEW e \in S
    PROVE  Append(s, e) \in Seq(S) /\ ToSet(Append(s, e)) = ToSet(s) \cup {e}
  <1>1. PICK k \in Nat : k = Len(s)
    OBVIOUS
  <1>2. PICK t : t = Append(s, e)
    OBVIOUS
  <1>3. t \in Seq(S) /\ Len(t) = k + 1 /\ t[k + 1] = e /\ \A i \in 1..k : t[i] = s[i]
    BY <1>1, <1>2
  <1>4. DOMAIN s = 1..k /\ DOMAIN t = 1..k \cup {k + 1}
    BY <1>1, <1>3
  <1>5. {t[i] : i \in DOMAIN t} = {s[i] : i \in DOMAIN s} \cup {e}
    BY <1>3, <1>4
  <1>6. QED
    BY <1>2, <1>3, <1>5 DEF ToSet

(* The zones so far are finitely many; the last one is the one that started   *)
(* last.                                                                    *)
LEMMA ZonesFinite ==
    ASSUME NEW ws \in Seq(STRING), NEW i \in Nat
    PROVE  /\ IsFiniteSet(ZonesOf(ws, i)) /\ Cardinality(ZonesOf(ws, i)) \in Nat
           /\ ZonesOf(ws, i) \subseteq Nat
           /\ \A k \in ZonesOf(ws, i) : k <= i /\ k \in ZoneStarts(ws)
  <1>1. ZonesOf(ws, i) \in SUBSET Nat /\ \A k \in ZonesOf(ws, i) : k <= i /\ k \in ZoneStarts(ws)
    BY StartsAre DEF ZonesOf, ZoneStarts
  <1>2. QED
    BY <1>1, FS_BoundedSetOfNaturals, FS_CardinalityType

(* Only the last zone is changed by an option that does not begin one.        *)
LEMMA SoFarOption ==
    ASSUME NEW ws \in Seq(STRING), NEW i \in Nat, NEW n \in 1..2, i + n <= Len(ws),
           i + 1 \in Starts(ws), n = 2 <=> TakesTwo(ws, i + 1),
           Option(ws[i + 1]) # "--add-zone",
           NEW zs, SoFar(zs, ws, i),
           NEW new \in Seq(Zones), Len(new) = Len(zs),
           \A m \in 1..Len(zs) : m # Len(zs) => new[m] = zs[m],
           \A k \in Nat : AsWritten(zs[Len(zs)], ws, k, Own(ws, i, k)) =>
               AsWritten(new[Len(zs)], ws, k, Own(ws, i, k) \cup {i + 1})
    PROVE  SoFar(new, ws, i + n)
  <1>1. PICK Z : Z = ZonesOf(ws, i)
    OBVIOUS
  <1>2. /\ IsFiniteSet(Z) /\ Z \subseteq Nat
        /\ \A z \in Z : z <= i
    BY <1>1, ZonesFinite
  <1>3. /\ ZonesOf(ws, i + n) = Z
        /\ \A k \in Z : Own(ws, i + n, k) = IF \A z \in Z : z <= k
                                            THEN Own(ws, i, k) \cup {i + 1} ELSE Own(ws, i, k)
    BY <1>1, OwnStep
  <1>4. PICK l \in Nat : l = Len(zs)
    BY DEF SoFar
  <1>5. /\ l = Cardinality(Z)
        /\ \A m \in 1..l : \E k \in Z :
              Cardinality({j \in Z : j <= k}) = m /\ AsWritten(zs[m], ws, k, Own(ws, i, k))
    BY <1>1, <1>4 DEF SoFar
  <1>6. ASSUME NEW m \in 1..l
        PROVE  \E k \in Z :
              Cardinality({j \in Z : j <= k}) = m /\ AsWritten(new[m], ws, k, Own(ws, i + n, k))
    <2>1. PICK k \in Z : Cardinality({j \in Z : j <= k}) = m /\ AsWritten(zs[m], ws, k, Own(ws, i, k))
      BY <1>5
    <2>2. m = l <=> \A z \in Z : z <= k
      <3>1. {j \in Z : j <= k} \in SUBSET Z
        OBVIOUS
      <3>2. m = l => {j \in Z : j <= k} = Z
        BY <1>2, <1>5, <2>1, <3>1, FS_Subset
      <3>3. (\A z \in Z : z <= k) => {j \in Z : j <= k} = Z
        OBVIOUS
      <3>4. QED
        BY <1>5, <2>1, <3>2, <3>3
    <2>3. CASE m = l
      <3>1. Own(ws, i + n, k) = Own(ws, i, k) \cup {i + 1}
        BY <1>3, <2>2, <2>3
      <3>2. AsWritten(new[m], ws, k, Own(ws, i, k) \cup {i + 1})
        BY <1>2, <1>4, <2>1, <2>3
      <3>3. QED
        BY <2>1, <3>1, <3>2
    <2>4. CASE m # l
      <3>1. Own(ws, i + n, k) = Own(ws, i, k) /\ new[m] = zs[m]
        BY <1>3, <1>4, <2>2, <2>4
      <3>2. QED
        BY <2>1, <3>1
    <2>5. QED
      BY <2>3, <2>4
  <1>7. QED
    BY <1>3, <1>4, <1>5, <1>6 DEF SoFar

(* An option that begins a zone adds one with nothing of its own.            *)
LEMMA SoFarZone ==
    ASSUME NEW ws \in Seq(STRING), NEW i \in Nat, i + 2 <= Len(ws),
           i + 1 \in Starts(ws), TakesTwo(ws, i + 1), Option(ws[i + 1]) = "--add-zone",
           NEW zs, SoFar(zs, ws, i)
    PROVE  SoFar(Append(zs, NewZone(ws[i + 2])), ws, i + 2)
  <1>1. PICK Z : Z = ZonesOf(ws, i)
    OBVIOUS
  <1>2. /\ IsFiniteSet(Z) /\ Z \subseteq Nat
        /\ \A z \in Z : z <= i
    BY <1>1, ZonesFinite
  <1>3. PICK p \in Nat : p = i + 1
    OBVIOUS
  <1>4. /\ ZonesOf(ws, i + 2) = Z \cup {p}
        /\ \A k \in Z : Own(ws, i + 2, k) = Own(ws, i, k)
        /\ Own(ws, i + 2, p) = {}
    BY <1>1, <1>3, OwnStep
  <1>5. PICK l \in Nat : l = Len(zs)
    BY DEF SoFar
  <1>6. /\ zs \in Seq(Zones) /\ l = Cardinality(Z)
        /\ \A m \in 1..l : \E k \in Z :
              Cardinality({j \in Z : j <= k}) = m /\ AsWritten(zs[m], ws, k, Own(ws, i, k))
    BY <1>1, <1>5 DEF SoFar
  <1>7. PICK z : z = NewZone(ws[i + 2])
    OBVIOUS
  <1>8. ws[i + 2] \in STRING /\ ws[i + 2] = ws[p + 1]
    BY <1>3
  <1>9. z \in Zones /\ AsWritten(z, ws, p, {})
    <2>1. z = [path |-> ws[p + 1], depth |-> 0, filters |-> <<>>]
      BY <1>7, <1>8 DEF NewZone
    <2>2. DepthFrom(ws, {}) = 0 /\ FiltersFrom(ws, {}) = {} /\ ToSet(<<>>) = {}
      BY DEF DepthFrom, LastDepth, FiltersFrom, ToSet
    <2>3. <<>> \in Seq(Filters \X Patterns) /\ 0 \in Int
      OBVIOUS
    <2>4. z.path = ws[p + 1] /\ z.depth = 0 /\ z.filters = <<>>
      BY <2>1
    <2>5. z \in Zones
      BY <1>8, <2>1, <2>3 DEF Zones
    <2>6. QED
      BY <2>2, <2>4, <2>5 DEF AsWritten
  <1>10. PICK new : new = Append(zs, z)
    OBVIOUS
  <1>11. new \in Seq(Zones) /\ Len(new) = l + 1 /\ new[l + 1] = z /\ \A m \in 1..l : new[m] = zs[m]
    <2>1. zs \in Seq(Zones) /\ z \in Zones /\ Len(zs) = l
      BY <1>5, <1>6, <1>9
    <2>2. QED
      BY <1>10, <2>1
  <1>12. p \notin Z /\ \A k \in Z : ~(p <= k) /\ k <= p
    BY <1>2, <1>3
  <1>13. Cardinality(Z \cup {p}) = l + 1
    BY <1>2, <1>6, <1>12, FS_AddElement
  <1>14. ASSUME NEW m \in 1..(l + 1)
         PROVE  \E k \in Z \cup {p} : /\ Cardinality({j \in Z \cup {p} : j <= k}) = m
                                      /\ AsWritten(new[m], ws, k, Own(ws, i + 2, k))
    <2>1. CASE m = l + 1
      <3>1. {j \in Z \cup {p} : j <= p} = Z \cup {p}
        BY <1>3, <1>12
      <3>2. QED
        BY <1>4, <1>9, <1>11, <1>13, <2>1, <3>1
    <2>2. CASE m \in 1..l
      <3>1. PICK k \in Z : Cardinality({j \in Z : j <= k}) = m /\ AsWritten(zs[m], ws, k, Own(ws, i, k))
        BY <1>6, <2>2
      <3>2. {j \in Z \cup {p} : j <= k} = {j \in Z : j <= k}
        BY <1>12
      <3>3. QED
        BY <1>4, <1>11, <2>2, <3>1, <3>2
    <2>3. m = l + 1 \/ m \in 1..l
      OBVIOUS
    <2>4. QED
      BY <2>1, <2>2, <2>3, Zenon
  <1>15. QED
    BY <1>4, <1>7, <1>10, <1>11, <1>13, <1>14 DEF SoFar

(* The options that say nothing about a zone leave it as it is written.       *)
LEMMA WrittenOther ==
    ASSUME NEW ws, NEW z, NEW k, NEW O, NEW p,
           Option(ws[p]) \notin {"--max-depth", "--exclude-all"} \cup Filters,
           AsWritten(z, ws, k, O)
    PROVE  AsWritten(z, ws, k, O \cup {p})
  <1>1. {j \in O \cup {p} : Option(ws[j]) = "--max-depth"} = {j \in O : Option(ws[j]) = "--max-depth"}
    OBVIOUS
  <1>2. {j \in O \cup {p} : Option(ws[j]) \in Filters} = {j \in O : Option(ws[j]) \in Filters}
    OBVIOUS
  <1>3. (\E j \in O \cup {p} : Option(ws[j]) = "--exclude-all")
            <=> \E j \in O : Option(ws[j]) = "--exclude-all"
    OBVIOUS
  <1>4. DepthFrom(ws, O \cup {p}) = DepthFrom(ws, O)
    BY <1>1 DEF DepthFrom
  <1>5. FiltersFrom(ws, O \cup {p}) = FiltersFrom(ws, O)
    BY <1>2 DEF FiltersFrom
  <1>6. ExcludesAll(ws, O \cup {p}) <=> ExcludesAll(ws, O)
    BY <1>3 DEF ExcludesAll
  <1>7. QED
    BY <1>4, <1>5, <1>6 DEF AsWritten

(* The last of the depths is the one that counts.                           *)
LEMMA WrittenDepth ==
    ASSUME NEW ws, NEW z \in Zones, NEW k, NEW O \in SUBSET Nat, NEW p \in Nat, \A j \in O : j < p,
           Option(ws[p]) = "--max-depth",
           AsWritten(z, ws, k, O)
    PROVE  AsWritten([z EXCEPT !.depth = DepthOf(ws[1 + p])], ws, k, O \cup {p})
  <1>1. PICK D : D = {j \in O \cup {p} : Option(ws[j]) = "--max-depth"}
    OBVIOUS
  <1>2. p \in D /\ D \subseteq Nat /\ \A j \in D : j <= p
    <2>1. p \in D /\ \A j \in D : j \in O \/ j = p
      BY <1>1
    <2>2. \A j \in O : j \in Nat /\ j <= p
      OBVIOUS
    <2>3. QED
      BY <2>1, <2>2
  <1>3. (CHOOSE i \in D : \A j \in D : j <= i) = p
    <2>1. \A i \in D : (\A j \in D : j <= i) => i = p
      BY <1>2
    <2>2. QED
      BY <1>2, <2>1
  <1>4. DepthFrom(ws, O \cup {p}) = DepthOf(ws[1 + p])
    BY <1>1, <1>2, <1>3 DEF DepthFrom, LastDepth
  <1>5. "--max-depth" \notin Filters /\ "--max-depth" # "--exclude-all"
    BY DEF Filters, Regexes, ExactNames
  <1>6. {j \in O \cup {p} : Option(ws[j]) \in Filters} = {j \in O : Option(ws[j]) \in Filters}
    BY <1>5
  <1>7. ExcludesAll(ws, O \cup {p}) <=> ExcludesAll(ws, O)
    BY <1>5 DEF ExcludesAll
  <1>8. FiltersFrom(ws, O \cup {p}) = FiltersFrom(ws, O)
    BY <1>6 DEF FiltersFrom
  <1>9. PICK d : d = DepthOf(ws[1 + p])
    OBVIOUS
  <1>10. PICK y : y = [z EXCEPT !.depth = d]
    OBVIOUS
  <1>11. y.path = z.path /\ y.depth = d /\ y.filters = z.filters
    BY <1>10 DEF Zones
  <1>12. QED
    BY <1>4, <1>7, <1>8, <1>9, <1>10, <1>11 DEF AsWritten

(* A filter is added to those of the zone.                                  *)
LEMMA WrittenFilter ==
    ASSUME NEW ws, NEW z \in Zones, NEW k, NEW O, NEW p,
           Option(ws[p]) \in Filters,
           NEW fs, ToSet(fs) = ToSet(z.filters) \cup {<<Option(ws[p]), ws[p + 1]>>},
           AsWritten(z, ws, k, O)
    PROVE  AsWritten([z EXCEPT !.filters = fs], ws, k, O \cup {p})
  <1>1. "--max-depth" \notin Filters /\ "--exclude-all" \notin Filters
    BY DEF Filters, Regexes, ExactNames
  <1>2. {j \in O \cup {p} : Option(ws[j]) = "--max-depth"} = {j \in O : Option(ws[j]) = "--max-depth"}
    BY <1>1
  <1>3. {j \in O \cup {p} : Option(ws[j]) \in Filters} = {j \in O : Option(ws[j]) \in Filters} \cup {p}
    OBVIOUS
  <1>4. ExcludesAll(ws, O \cup {p}) <=> ExcludesAll(ws, O)
    BY <1>1 DEF ExcludesAll
  <1>5. DepthFrom(ws, O \cup {p}) = DepthFrom(ws, O)
    BY <1>2 DEF DepthFrom
  <1>6. FiltersFrom(ws, O \cup {p}) = FiltersFrom(ws, O) \cup {<<Option(ws[p]), ws[p + 1]>>}
    <2>1. PICK F : F = {j \in O : Option(ws[j]) \in Filters}
      OBVIOUS
    <2>2. {<<Option(ws[i]), ws[i + 1]>> : i \in F \cup {p}} =
             {<<Option(ws[i]), ws[i + 1]>> : i \in F} \cup {<<Option(ws[p]), ws[p + 1]>>}
      OBVIOUS
    <2>3. QED
      BY <1>3, <2>1, <2>2 DEF FiltersFrom
  <1>7. PICK y : y = [z EXCEPT !.filters = fs]
    OBVIOUS
  <1>8. y.path = z.path /\ y.depth = z.depth /\ y.filters = fs
    BY <1>7 DEF Zones
  <1>9. QED
    BY <1>4, <1>5, <1>6, <1>7, <1>8 DEF AsWritten

(* So are the two of --exclude-all, whichever they are.                      *)
LEMMA WrittenExcludeAll ==
    ASSUME NEW ws, NEW z \in Zones, NEW k, NEW O, NEW p,
           Option(ws[p]) = "--exclude-all",
           NEW fs, ToSet(z.filters) \subseteq ToSet(fs),
           AsWritten(z, ws, k, O)
    PROVE  AsWritten([z EXCEPT !.filters = fs], ws, k, O \cup {p})
  <1>1. "--exclude-all" # "--max-depth" /\ "--exclude-all" \notin Filters
    BY DEF Filters, Regexes, ExactNames
  <1>2. {j \in O \cup {p} : Option(ws[j]) = "--max-depth"} = {j \in O : Option(ws[j]) = "--max-depth"}
    BY <1>1
  <1>3. {j \in O \cup {p} : Option(ws[j]) \in Filters} = {j \in O : Option(ws[j]) \in Filters}
    BY <1>1
  <1>4. DepthFrom(ws, O \cup {p}) = DepthFrom(ws, O)
    BY <1>2 DEF DepthFrom
  <1>5. FiltersFrom(ws, O \cup {p}) = FiltersFrom(ws, O) /\ ExcludesAll(ws, O \cup {p})
    BY <1>3 DEF FiltersFrom, ExcludesAll
  <1>6. PICK y : y = [z EXCEPT !.filters = fs]
    OBVIOUS
  <1>7. y.path = z.path /\ y.depth = z.depth /\ y.filters = fs
    BY <1>6 DEF Zones
  <1>8. QED
    BY <1>4, <1>5, <1>6, <1>7 DEF AsWritten

(* Evaluating an option: the zones so far are those up to the next one.      *)
LEMMA ParseEvaluate ==
    ASSUME TypeInv, ParseInv, PathsAreNamed, Evaluate
    PROVE  ParseInv'
  <1>1. CASE phase' # "arguments"
    <2>1. phase' \in {"failed", "told"}
      BY <1>1, EvaluateEffect
    <2>2. QED
      BY <2>1 DEF ParseInv, ZonesAsWritten
  <1>2. CASE phase' = "arguments"
    <2>1. PICK ws \in Seq(STRING) : ws = given /\ ws \in ArgLists
      BY ArgListsAssumption DEF TypeInv, ArgsInv, WellFormed
    <2>2. PICK k \in Nat : k = Len(ws)
      OBVIOUS
    <2>3. PICK i \in 0..k : Evaluated(i)
      BY <2>1, <2>2 DEF ParseInv, Evaluate
    <2>4. /\ args = SubSeq(ws, i + 1, k) /\ (i < k => i + 1 \in Starts(ws))
          /\ SoFar(WithLast(setup), ws, i)
          /\ setup.zone \in Zones /\ setup.zones \in Seq(Zones)
      BY <2>1, <2>2, <2>3 DEF Evaluated
    <2>5. /\ Len(args) = k - i /\ args \in Seq(STRING)
          /\ \A x \in 1..(k - i) : args[x] = ws[i + x]
      BY <2>2, <2>4
    <2>6. i < k
      BY <2>5 DEF Evaluate
    <2>7. PICK p \in Nat : p = i + 1 /\ p \in 1..k
      BY <2>6
    <2>8. /\ Opt = Option(ws[p])
          /\ Missing <=> p = k
          /\ ~Missing => p + 1 <= k /\ p + 1 \in 1..k /\ args[2] = ws[p + 1] /\ ws[p + 1] \in STRING
      <3>1. 1 \in 1..(k - i) /\ args[1] = ws[p]
        BY <2>5, <2>6, <2>7
      <3>2. p # k => 2 \in 1..(k - i) /\ i + 2 = p + 1 /\ p + 1 <= k /\ p + 1 \in 1..k
        BY <2>7
      <3>3. Missing <=> p = k
        BY <2>5, <2>7 DEF Missing
      <3>4. p # k => args[2] = ws[p + 1] /\ ws[p + 1] \in STRING
        BY <2>2, <2>5, <3>2
      <3>5. QED
        BY <3>1, <3>2, <3>3, <3>4 DEF Opt
    <2>9. ASSUME NEW n \in 1..2, NEW s, Evaluates(n, s), i + n <= k, n = 2 <=> TakesTwo(ws, p),
                 SoFar(WithLast(s), ws, i + n), s.zone \in Zones, s.zones \in Seq(Zones)
          PROVE  ParseInv'
      <3>1. /\ args' = SubSeq(args, n + 1, Len(args)) /\ setup' = s
            /\ given' = ws /\ phase' = phase
        BY <2>1, <2>9 DEF Evaluates
      <3>2. n \in 0..Len(args) /\ i \in 0..Len(ws)
        BY <2>2, <2>5, <2>9
      <3>3. /\ i + n \in 0..Len(ws)
            /\ SubSeq(args, n + 1, Len(args)) = SubSeq(ws, (i + n) + 1, Len(ws))
        BY <2>2, <2>4, <3>2, RestOfRest
      <3>4. i + n < k => (i + n) + 1 \in Starts(ws)
        BY <2>2, <2>4, <2>6, <2>7, <2>9, NextOption
      <3>5. Evaluated(i + n)'
        BY <2>2, <2>9, <3>1, <3>3, <3>4 DEF Evaluated
      <3>6. \E m \in 0..Len(given') : Evaluated(m)'
        BY <3>1, <3>3, <3>5
      <3>7. phase' = "arguments"
        BY <3>1 DEF Evaluate
      <3>8. QED
        BY <3>6, <3>7 DEF ParseInv, ZonesAsWritten
    <2>10. ASSUME NEW n \in 1..2, NEW s, Evaluates(n, s), i + n <= k, n = 2 <=> TakesTwo(ws, p),
                  Opt \notin {"--add-zone", "--max-depth", "--exclude-all"} \cup Filters,
                  s.zone = setup.zone, s.zones = setup.zones
           PROVE  ParseInv'
      <3>1. PICK zs : zs = WithLast(setup)
        OBVIOUS
      <3>2. WithLast(s) = zs
        BY <2>10, <3>1 DEF WithLast
      <3>3. SoFar(zs, ws, i) /\ zs \in Seq(Zones)
        BY <2>4, <3>1 DEF SoFar
      <3>4. \A m \in Nat : AsWritten(zs[Len(zs)], ws, m, Own(ws, i, m)) =>
                AsWritten(zs[Len(zs)], ws, m, Own(ws, i, m) \cup {i + 1})
        BY <2>7, <2>8, <2>10, WrittenOther
      <3>5. SoFar(zs, ws, i + n)
        <4>1. i + n <= Len(ws) /\ i \in Nat
          BY <2>2, <2>10
        <4>2. /\ i + 1 \in Starts(ws) /\ (n = 2 <=> TakesTwo(ws, i + 1))
              /\ Option(ws[i + 1]) # "--add-zone"
          BY <2>4, <2>6, <2>7, <2>8, <2>10
        <4>3. QED
          BY <3>3, <3>4, <4>1, <4>2, SoFarOption
      <3>6. QED
        BY <2>4, <2>9, <2>10, <3>2, <3>5
    <2>11. ASSUME NEW n \in 1..2, NEW s, Evaluates(n, s), i + n <= k, n = 2 <=> TakesTwo(ws, p),
                  Opt # "--add-zone", ~NoZoneYet,
                  NEW z \in Zones, z.path = setup.zone.path, s.zone = z, s.zones = setup.zones,
                  \A m \in Nat : AsWritten(setup.zone, ws, m, Own(ws, i, m)) =>
                      AsWritten(z, ws, m, Own(ws, i, m) \cup {p})
           PROVE  ParseInv'
      <3>1. PICK zs : zs = WithLast(setup)
        OBVIOUS
      <3>2. PICK old : old = setup.zones
        OBVIOUS
      <3>3. PICK l \in Nat : l = Len(old) /\ old \in Seq(Zones)
        BY <2>4, <3>2
      <3>4. PICK new : new = Append(old, z)
        OBVIOUS
      <3>5. zs = Append(old, setup.zone) /\ WithLast(s) = new
        BY <2>11, <3>1, <3>2, <3>4 DEF WithLast, NoZoneYet
      <3>6. /\ zs \in Seq(Zones) /\ Len(zs) = l + 1 /\ zs[l + 1] = setup.zone
            /\ \A m \in 1..l : zs[m] = old[m]
        BY <2>4, <3>3, <3>5
      <3>7. /\ new \in Seq(Zones) /\ Len(new) = l + 1 /\ new[l + 1] = z
            /\ \A m \in 1..l : new[m] = old[m]
        BY <3>3, <3>4
      <3>8. \A m \in 1..Len(zs) : m # Len(zs) => new[m] = zs[m]
        BY <3>6, <3>7
      <3>9. SoFar(new, ws, i + n)
        <4>1. \A m \in Nat : AsWritten(zs[Len(zs)], ws, m, Own(ws, i, m)) =>
                  AsWritten(new[Len(zs)], ws, m, Own(ws, i, m) \cup {i + 1})
          BY <2>7, <2>11, <3>6, <3>7
        <4>2. SoFar(zs, ws, i) /\ i + n <= Len(ws) /\ i \in Nat
          BY <2>2, <2>4, <2>11, <3>1
        <4>3. /\ i + 1 \in Starts(ws) /\ (n = 2 <=> TakesTwo(ws, i + 1))
              /\ Option(ws[i + 1]) # "--add-zone"
          BY <2>4, <2>6, <2>7, <2>8, <2>11
        <4>4. Len(new) = Len(zs)
          BY <3>6, <3>7
        <4>5. QED
          BY <3>7, <3>8, <4>1, <4>2, <4>3, <4>4, SoFarOption
      <3>10. QED
        BY <2>4, <2>9, <2>11, <3>5, <3>9
    <2>12. p + 1 <= k => i + 2 <= k /\ i + 1 <= k
      BY <2>7
    <2>13. i + 1 <= k /\ 1 \in 1..2 /\ 2 \in 1..2
      BY <2>6
    <2>14. DOMAIN setup = {"flags", "shows", "file", "files", "zones", "zone"}
      BY DEF TypeInv, OutputInv, SetupInv, Nothing
    <2>15. Opt \in Limits \cup Filters \cup {"--add-file", "--add-zone", "--max-depth"}
              => TakesTwo(ws, p)
      BY <2>8 DEF TakesTwo
    <2>16. Opt \notin Limits \cup Filters \cup {"--add-file", "--add-zone", "--max-depth"} \cup Outputs
              => ~TakesTwo(ws, p)
      BY <2>8 DEF TakesTwo
    <2>17. \A x : phase' # "arguments" \/ ~Goto(x) \/ x = "arguments"
      BY DEF Goto
    <2>18. \A x \in {"failed", "told"} : ~Goto(x)
      BY <1>2 DEF Goto
    <2>20. CASE EvalHelp \/ EvalUnknown
      BY <2>18, <2>20 DEF EvalHelp, EvalUnknown
    <2>21. CASE EvalFlag
      <3>1. PICK s : s = [setup EXCEPT !.flags = @ \cup {Opt}] /\ Evaluates(1, s)
        BY <2>21 DEF EvalFlag
      <3>2. s.zone = setup.zone /\ s.zones = setup.zones
        BY <2>14, <3>1
      <3>3. Opt \notin {"--add-zone", "--max-depth", "--exclude-all", "--add-file"} \cup Filters \cup Limits \cup Outputs
        BY <2>21 DEF EvalFlag, Flags, Filters, Regexes, ExactNames, Limits, Outputs
      <3>4. ~TakesTwo(ws, p) /\ (1 = 2 <=> FALSE)
        BY <2>16, <3>3
      <3>5. QED
        BY <2>10, <2>13, <3>1, <3>2, <3>3, <3>4
    <2>22. CASE EvalOutput
      <3> DEFINE to(f) == [setup EXCEPT !.shows = @ \cup {Opt}, !.file[Opt] = f]
      <3>1. ASSUME NEW f PROVE to(f).zone = setup.zone /\ to(f).zones = setup.zones
        BY <2>14
      <3>2. \/ (Missing \/ args[2] \in Dashed) /\ Evaluates(1, to(StdOut))
            \/ ~Missing /\ args[2] \notin Dashed /\ Evaluates(2, to(args[2]))
        BY <2>22 DEF EvalOutput
      <3> HIDE DEF to
      <3>3. Opt \in Outputs
        BY <2>22 DEF EvalOutput
      <3>4. Opt \notin {"--add-zone", "--max-depth", "--exclude-all", "--add-file"} \cup Filters \cup Limits
        BY <3>3 DEF Filters, Regexes, ExactNames, Limits, Outputs
      <3>5. TakesTwo(ws, p) <=> p < k /\ ws[p + 1] \notin Dashed
        BY <2>2, <2>8, <3>3, <3>4 DEF TakesTwo
      <3>6. CASE (Missing \/ args[2] \in Dashed) /\ Evaluates(1, to(StdOut))
        <4>1. ~TakesTwo(ws, p)
          BY <2>7, <2>8, <3>5, <3>6
        <4>2. QED
          BY <2>10, <2>13, <3>1, <3>4, <3>6, <4>1
      <3>7. CASE ~Missing /\ args[2] \notin Dashed /\ Evaluates(2, to(args[2]))
        <4>1. TakesTwo(ws, p) /\ i + 2 <= k
          BY <2>7, <2>8, <3>5, <3>7
        <4>2. QED
          BY <2>10, <2>13, <3>1, <3>4, <3>7, <4>1
      <3>8. QED
        BY <3>2, <3>6, <3>7
    <2>23. CASE EvalLimit \/ EvalAddFile
      <3>1. PICK s : /\ s = setup \/ s = [setup EXCEPT !.files = Append(@, args[2])]
                     /\ ~Missing /\ Evaluates(2, s)
        BY <2>18, <2>23 DEF EvalLimit, EvalAddFile
      <3>2. s.zone = setup.zone /\ s.zones = setup.zones
        BY <2>14, <3>1
      <3>3. Opt \in Limits \cup {"--add-file"}
        BY <2>23 DEF EvalLimit, EvalAddFile
      <3>4. Opt \notin {"--add-zone", "--max-depth", "--exclude-all"} \cup Filters
        BY <3>3 DEF Limits, Filters, Regexes, ExactNames
      <3>5. TakesTwo(ws, p) /\ i + 2 <= k
        BY <2>8, <2>12, <2>15, <3>1, <3>3
      <3>6. QED
        BY <2>10, <2>13, <3>1, <3>2, <3>4, <3>5
    <2>24. CASE EvalAddZone
      <3>1. PICK s : /\ s = [setup EXCEPT !.zones = WithLast(setup), !.zone = NewZone(args[2])]
                     /\ ~Missing /\ Evaluates(2, s)
        BY <2>18, <2>24 DEF EvalAddZone
      <3>2. s.zones = WithLast(setup) /\ s.zone = NewZone(ws[p + 1])
        BY <2>8, <2>14, <3>1
      <3>3. Opt = "--add-zone" /\ TakesTwo(ws, p) /\ i + 2 <= k /\ p + 1 = i + 2
        BY <2>7, <2>8, <2>12, <2>15, <2>24, <3>1 DEF EvalAddZone
      <3>4. ws[p + 1] # "" /\ ws[p + 1] \in STRING
        <4>1. p \in 1..(Len(ws) - 1) /\ Option(ws[p]) = "--add-zone"
          BY <2>2, <2>7, <2>8, <3>1, <3>3
        <4>2. QED
          BY <2>1, <2>8, <3>1, <4>1 DEF PathsAreNamed
      <3>5. s.zone.path = ws[p + 1] /\ s.zone \in Zones
        <4>1. s.zone = [path |-> ws[p + 1], depth |-> 0, filters |-> <<>>]
          BY <3>2 DEF NewZone
        <4>2. <<>> \in Seq(Filters \X Patterns) /\ 0 \in Int
          OBVIOUS
        <4>3. PICK w \in STRING : w = ws[p + 1]
          BY <3>4
        <4>4. PICK z : z = s.zone
          OBVIOUS
        <4>5. z = [path |-> w, depth |-> 0, filters |-> <<>>]
          BY <4>1, <4>3, <4>4
        <4>6. z \in Zones
          BY <4>2, <4>5 DEF Zones
        <4>7. z.path = w
          BY <4>5
        <4>8. QED
          BY <4>3, <4>4, <4>6, <4>7
      <3>6. WithLast(s) = Append(WithLast(setup), NewZone(ws[i + 2]))
        BY <3>2, <3>3, <3>4, <3>5 DEF WithLast
      <3>7. SoFar(WithLast(s), ws, i + 2)
        <4>1. /\ i \in Nat /\ i + 2 <= Len(ws) /\ i + 1 \in Starts(ws)
              /\ TakesTwo(ws, i + 1) /\ Option(ws[i + 1]) = "--add-zone"
          BY <2>2, <2>4, <2>6, <2>7, <2>8, <3>3
        <4>2. PICK zs : zs = WithLast(setup)
          OBVIOUS
        <4>3. SoFar(zs, ws, i)
          BY <2>4, <4>2
        <4>4. QED
          BY <3>6, <4>1, <4>2, <4>3, SoFarZone
      <3>8. s.zones \in Seq(Zones)
        BY <2>4, <3>2 DEF SoFar
      <3>9. QED
        BY <2>9, <2>13, <3>1, <3>3, <3>5, <3>7, <3>8
    <2>25. CASE EvalDepth
      <3>1. PICK d : d = DepthOf(args[2])
        OBVIOUS
      <3>2. PICK s : /\ s = [setup EXCEPT !.zone.depth = d]
                     /\ ~Missing /\ ~NoZoneYet /\ Evaluates(2, s)
        BY <2>18, <2>25, <3>1 DEF EvalDepth
      <3>3. Opt = "--max-depth" /\ TakesTwo(ws, p) /\ i + 2 <= k
        BY <2>8, <2>12, <2>15, <2>25, <3>2 DEF EvalDepth
      <3>4. PICK z : z = [setup.zone EXCEPT !.depth = d]
        OBVIOUS
      <3>5. s.zone = z /\ s.zones = setup.zones
        BY <2>14, <3>2, <3>4
      <3>6. d \in Int /\ d = DepthOf(ws[1 + p])
        <4>1. d = DepthOf(ws[1 + p])
          BY <2>8, <3>1, <3>2
        <4>2. DepthOf(ws[1 + p]) \in Int
          BY NumbersAssumption DEF DepthOf, Unlimited
        <4>3. QED
          BY <4>1, <4>2
      <3>7. z \in Zones /\ z.path = setup.zone.path
        BY <2>4, <3>4, <3>6 DEF Zones
      <3>8. ASSUME NEW m \in Nat, AsWritten(setup.zone, ws, m, Own(ws, i, m))
            PROVE  AsWritten(z, ws, m, Own(ws, i, m) \cup {p})
        <4>1. PICK O : O = Own(ws, i, m)
          OBVIOUS
        <4>2. O \in SUBSET Nat /\ \A j \in O : j < p
          BY <2>7, <4>1 DEF Own
        <4>3. QED
          BY <2>4, <2>8, <3>3, <3>4, <3>6, <3>8, <4>1, <4>2, WrittenDepth
      <3>9. QED
        BY <2>11, <2>13, <3>2, <3>3, <3>5, <3>7, <3>8
    <2>26. CASE EvalFilter
      <3>1. PICK e : e = <<Opt, args[2]>>
        OBVIOUS
      <3>2. PICK fs : fs = Append(setup.zone.filters, e)
        OBVIOUS
      <3>3. PICK s : /\ s = [setup EXCEPT !.zone.filters = fs]
                     /\ ~Missing /\ ~NoZoneYet /\ Evaluates(2, s)
        BY <2>18, <2>26, <3>1, <3>2 DEF EvalFilter
      <3>4. Opt \in Filters /\ TakesTwo(ws, p) /\ i + 2 <= k
        BY <2>8, <2>12, <2>15, <2>26, <3>3 DEF EvalFilter
      <3>5. Opt # "--add-zone"
        BY <3>4 DEF Filters, Regexes, ExactNames
      <3>6. PICK z : z = [setup.zone EXCEPT !.filters = fs]
        OBVIOUS
      <3>7. s.zone = z /\ s.zones = setup.zones
        BY <2>14, <3>3, <3>6
      <3>8. e \in Filters \X Patterns /\ e = <<Option(ws[p]), ws[p + 1]>>
        BY <2>8, <3>1, <3>3, <3>4 DEF Patterns
      <3>9. fs \in Seq(Filters \X Patterns) /\ ToSet(fs) = ToSet(setup.zone.filters) \cup {e}
        <4> DEFINE E == Filters \X Patterns
        <4>1. setup.zone.filters \in Seq(E) /\ e \in E
          BY <2>4, <3>8 DEF Zones
        <4> HIDE DEF E
        <4>2. fs \in Seq(E) /\ ToSet(fs) = ToSet(setup.zone.filters) \cup {e}
          BY <3>2, <4>1, ToSetAppend
        <4>3. QED
          BY <4>2 DEF E
      <3>10. z \in Zones /\ z.path = setup.zone.path
        BY <2>4, <3>6, <3>9 DEF Zones
      <3>11. ASSUME NEW m \in Nat, AsWritten(setup.zone, ws, m, Own(ws, i, m))
             PROVE  AsWritten(z, ws, m, Own(ws, i, m) \cup {p})
        BY <2>4, <2>8, <3>4, <3>6, <3>8, <3>9, <3>11, WrittenFilter
      <3>12. QED
        BY <2>11, <2>13, <3>3, <3>4, <3>5, <3>7, <3>10, <3>11
    <2>27. CASE EvalExcludeAll
      <3>1. PICK fs : fs = setup.zone.filters
                              \o <<<<"--exclude-file", ".*">>, <<"--exclude-dir", ".*">>>>
        OBVIOUS
      <3>2. PICK s : s = [setup EXCEPT !.zone.filters = fs] /\ ~NoZoneYet /\ Evaluates(1, s)
        BY <2>18, <2>27, <3>1 DEF EvalExcludeAll
      <3>3. Opt = "--exclude-all" /\ ~TakesTwo(ws, p) /\ Opt # "--add-zone"
        <4>1. Opt = "--exclude-all"
          BY <2>27 DEF EvalExcludeAll
        <4>2. "--exclude-all" \notin Limits \cup Filters \cup {"--add-file", "--add-zone", "--max-depth"} \cup Outputs
          BY DEF Limits, Filters, Regexes, ExactNames, Outputs
        <4>3. QED
          BY <2>16, <4>1, <4>2
      <3>4. PICK z : z = [setup.zone EXCEPT !.filters = fs]
        OBVIOUS
      <3>5. s.zone = z /\ s.zones = setup.zones
        BY <2>14, <3>2, <3>4
      <3>6. /\ fs \in Seq(Filters \X Patterns)
            /\ ToSet(fs) = ToSet(setup.zone.filters)
                  \cup {<<"--exclude-file", ".*">>, <<"--exclude-dir", ".*">>}
        <4> DEFINE E == Filters \X Patterns
        <4>1. PICK a \in E : a = <<"--exclude-file", ".*">>
          BY DEF Filters, ExactNames, Patterns
        <4>2. PICK b \in E : b = <<"--exclude-dir", ".*">>
          BY DEF Filters, ExactNames, Patterns
        <4>3. PICK old \in Seq(E) : old = setup.zone.filters
          BY <2>4 DEF Zones
        <4> HIDE DEF E
        <4>4. fs = Append(Append(old, a), b)
          <5>1. fs = old \o <<a, b>>
            BY <3>1, <4>1, <4>2, <4>3
          <5>2. old \o <<a, b>> = Append(Append(old, a), b)
            OBVIOUS
          <5>3. QED
            BY <5>1, <5>2
        <4>5. PICK one : one = Append(old, a)
          OBVIOUS
        <4>6. one \in Seq(E) /\ ToSet(one) = ToSet(old) \cup {a}
          BY <4>5, ToSetAppend
        <4>7. fs \in Seq(E) /\ ToSet(fs) = ToSet(one) \cup {b}
          <5>1. fs = Append(one, b)
            BY <4>4, <4>5
          <5>2. Append(one, b) \in Seq(E) /\ ToSet(Append(one, b)) = ToSet(one) \cup {b}
            BY <4>6, ToSetAppend
          <5>3. QED
            BY <5>1, <5>2
        <4>8. QED
          BY <4>1, <4>2, <4>3, <4>6, <4>7 DEF E
      <3>7. z \in Zones /\ z.path = setup.zone.path
        BY <2>4, <3>4, <3>6 DEF Zones
      <3>8. ASSUME NEW m \in Nat, AsWritten(setup.zone, ws, m, Own(ws, i, m))
            PROVE  AsWritten(z, ws, m, Own(ws, i, m) \cup {p})
        BY <2>4, <2>8, <3>3, <3>4, <3>6, <3>8, WrittenExcludeAll
      <3>9. 1 = 2 <=> TakesTwo(ws, p)
        BY <3>3
      <3>10. \A m \in Nat : AsWritten(setup.zone, ws, m, Own(ws, i, m)) =>
                 AsWritten(z, ws, m, Own(ws, i, m) \cup {p})
        BY <3>8
      <3>11. QED
        BY <2>11, <2>13, <3>2, <3>3, <3>5, <3>7, <3>9, <3>10
    <2>28. QED
      BY <2>20, <2>21, <2>22, <2>23, <2>24, <2>25, <2>26, <2>27 DEF Evaluate
  <1>3. QED
    BY <1>1, <1>2

(* All the words have been evaluated: oDZ is the last zone, and the default is *)
(* taken for none.                                                         *)
LEMMA AllWritten ==
    ASSUME NEW ws \in Seq(STRING), NEW zs, SoFar(zs, ws, Len(ws)),
           ws = given', NEW fs, fs = setup'.files,
           setup'.zones = IF fs = <<>> /\ zs = <<>> THEN <<NewZone("getcwd()")>> ELSE zs
    PROVE  ZonesAsWritten'
  <1>1. PICK k \in Nat : k = Len(ws) /\ DOMAIN ws = 1..k
    OBVIOUS
  <1>2. PICK Z : Z = ZoneStarts(ws)
    OBVIOUS
  <1>3. Z \subseteq 1..k
    BY <1>1, <1>2, StartsAre DEF ZoneStarts
  <1>4. ZonesOf(ws, k) = Z
    BY <1>2, <1>3 DEF ZonesOf
  <1>5. PICK l \in Nat : l = Len(zs) /\ zs \in Seq(Zones)
    BY DEF SoFar
  <1>6. /\ l = Cardinality(Z) /\ DOMAIN zs = 1..l
        /\ \A n \in 1..l : \E z \in Z : Cardinality({j \in Z : j <= z}) = n
                                        /\ AsWritten(zs[n], ws, z, Own(ws, k, z))
    <2>1. DOMAIN zs = 1..l
      BY <1>5
    <2>2. QED
      BY <1>1, <1>4, <1>5, <2>1 DEF SoFar
  <1>7. IsFiniteSet(Z)
    BY <1>1, <1>4, ZonesFinite
  <1>8. Z = {} <=> zs = <<>>
    <2>1. Z = {} <=> l = 0
      BY <1>6, <1>7, FS_EmptySet
    <2>2. l = 0 <=> zs = <<>>
      BY <1>5
    <2>3. QED
      BY <2>1, <2>2
  <1>9. CASE Z = {} /\ fs = <<>>
    BY <1>2, <1>8, <1>9 DEF ZonesAsWritten
  <1>10. CASE ~(Z = {} /\ fs = <<>>)
    <2>1. setup'.zones = zs /\ ~(ZoneStarts(given') = {} /\ setup'.files = <<>>)
      BY <1>2, <1>8, <1>10
    <2>2. Len(zs) = Cardinality(Z)
      BY <1>5, <1>6
    <2>3. \A n \in DOMAIN zs : \E z \in Z : /\ Cardinality({j \in Z : j <= z}) = n
                                            /\ AsWritten(zs[n], ws, z, Own(ws, Len(ws), z))
      BY <1>1, <1>6
    <2>4. QED
      BY <1>2, <2>1, <2>2, <2>3 DEF ZonesAsWritten
  <1>11. QED
    BY <1>9, <1>10

(* Every step keeps the zones as written.                                   *)
LEMMA ParseStep == ASSUME TypeInv, ParseInv, PathsAreNamed, [Next]_vars PROVE ParseInv'
  <1>1. PICK ws \in Seq(STRING) : ws = given
    BY ArgListsAssumption DEF TypeInv, ArgsInv, WellFormed
  <1>2. DOMAIN setup = {"flags", "shows", "file", "files", "zones", "zone"}
    BY DEF TypeInv, OutputInv, SetupInv, Nothing
  <1>3. CASE Evaluate
    BY <1>3, ParseEvaluate
  <1>4. CASE EndOfArguments
    <2>1. PICK i \in 0..Len(ws) : Evaluated(i)
      BY <1>1, <1>4 DEF ParseInv, EndOfArguments
    <2>2. SoFar(WithLast(setup), ws, i) /\ args = SubSeq(ws, i + 1, Len(ws)) /\ args = <<>>
      BY <1>1, <1>4, <2>1 DEF Evaluated, EndOfArguments
    <2>3. i = Len(ws)
      <3>1. Len(SubSeq(ws, i + 1, Len(ws))) = Len(ws) - i
        OBVIOUS
      <3>2. Len(SubSeq(ws, i + 1, Len(ws))) = 0
        <4>1. SubSeq(ws, i + 1, Len(ws)) = <<>>
          BY <2>2, Zenon
        <4>2. Len(<<>>) = 0
          OBVIOUS
        <4>3. QED
          BY <4>1, <4>2, Zenon
      <3>3. QED
        BY <3>1, <3>2
    <2>4. phase' = "defining" /\ given' = given /\ setup'.zones = WithLast(setup)
      BY <1>2, <1>4 DEF EndOfArguments
    <2>5. QED
      BY <1>1, <2>2, <2>3, <2>4 DEF ParseInv, ZonesAsWritten
  <1>5. CASE Define
    <2>1. SoFar(setup.zones, ws, Len(ws))
      BY <1>1, <1>5 DEF ParseInv, Define
    <2>2. CASE phase' = "failed"
      BY <2>2 DEF ParseInv, ZonesAsWritten
    <2>3. CASE phase' # "failed"
      <3>1. PICK zones : zones = IF setup.files = <<>> /\ setup.zones = <<>>
                                   THEN <<NewZone("getcwd()")>> ELSE setup.zones
        OBVIOUS
      <3>2. phase' = "zones" /\ setup' = [setup EXCEPT !.zones = zones] /\ given' = given
        BY <1>5, <2>3, <3>1 DEF Define
      <3>3. setup'.zones = zones /\ setup'.files = setup.files
        BY <1>2, <3>2
      <3>4. ZonesAsWritten'
        <4>1. PICK zs : zs = setup.zones
          OBVIOUS
        <4>2. PICK fs : fs = setup.files
          OBVIOUS
        <4>3. SoFar(zs, ws, Len(ws)) /\ ws = given' /\ fs = setup'.files
          BY <1>1, <2>1, <3>2, <3>3, <4>1, <4>2
        <4>4. setup'.zones = IF fs = <<>> /\ zs = <<>> THEN <<NewZone("getcwd()")>> ELSE zs
          BY <3>1, <3>3, <4>1, <4>2
        <4>5. QED
          BY <4>3, <4>4, AllWritten
      <3>5. QED
        BY <3>2, <3>4 DEF ParseInv
    <2>4. QED
      BY <2>2, <2>3
  <1>6. CASE Start
    <2>1. phase' \in {"watched", "failed"}
      BY <1>6 DEF Start
    <2>2. QED
      BY <2>1 DEF ParseInv, ZonesAsWritten
  <1>7. ASSUME UNCHANGED arguments,
               \/ phase' = phase
               \/ phase' \notin {"arguments", "defining", "zones", "calculating", "listing", "starting"}
               \/ /\ phase \in {"zones", "calculating", "listing"}
                  /\ phase' \notin {"arguments", "defining"}
        PROVE  ParseInv'
    <2>1. UNCHANGED <<given, args, setup>>
      BY <1>7 DEF arguments
    <2>2. CASE phase' = phase
      BY <2>1, <2>2 DEF ParseInv, ZonesAsWritten, Evaluated, WithLast
    <2>3. CASE phase' \notin {"arguments", "defining", "zones", "calculating", "listing", "starting"}
      BY <2>3 DEF ParseInv, ZonesAsWritten
    <2>4. CASE /\ phase \in {"zones", "calculating", "listing"}
               /\ phase' \notin {"arguments", "defining"}
      BY <2>1, <2>4 DEF ParseInv, ZonesAsWritten
    <2>5. QED
      BY <1>7, <2>2, <2>3, <2>4
  <1>8. CASE ShowZones \/ ShowCalculated \/ ShowWatched \/ ShowAfter \/ ShowModified \/ Calculate
    BY <1>7, <1>8 DEF ShowZones, ShowCalculated, ShowWatched, ShowAfter, ShowModified, Step, Calculate
  <1>9. CASE Dispatch \/ Handle \/ OnStdin \/ Stop
    BY <1>7, <1>9 DEF Dispatch, Handle, OnStdin, Stop
  <1>10. CASE Environment
    BY <1>7, <1>10 DEF Environment, Change, Lock, Quieten, Type
  <1>11. CASE UNCHANGED vars
    BY <1>7, <1>11 DEF vars, arguments
  <1>12. QED
    BY <1>3, <1>4, <1>5, <1>6, <1>8, <1>9, <1>10, <1>11 DEF Next, Program

LEMMA ParseInit == Init => ParseInv
  <1> SUFFICES ASSUME Init PROVE ParseInv
    OBVIOUS
  <1>1. PICK ws \in Seq(STRING) : ws = given
    BY ArgListsAssumption DEF Init, WellFormed
  <1>2. phase = "arguments" /\ args = ws /\ setup = Nothing
    BY <1>1 DEF Init
  <1>3. setup.zone = NewZone("") /\ setup.zones = <<>> /\ WithLast(setup) = <<>>
    BY <1>2 DEF Nothing, WithLast, NewZone
  <1>4. <<>> \in Seq(Zones) /\ setup.zone \in Zones
    <2>1. <<>> \in Seq(Filters \X Patterns) /\ 0 \in Int
      OBVIOUS
    <2>2. PICK z : z = NewZone("")
      OBVIOUS
    <2>3. z = [path |-> "", depth |-> 0, filters |-> <<>>]
      BY <2>2 DEF NewZone
    <2>4. z \in Zones
      BY <2>1, <2>3 DEF Zones
    <2>5. <<>> \in Seq(Zones)
      OBVIOUS
    <2>6. setup.zone \in Zones
      BY <1>3, <2>2, <2>4, Zenon
    <2>7. QED
      BY <2>5, <2>6
  <1>5. 0 < Len(ws) => 0 + 1 \in Starts(ws)
    <2>1. 0 < Len(ws) => 1 \in DOMAIN ws
      OBVIOUS
    <2>2. 0 < Len(ws) => 1 \in Starts(ws)
      BY <2>1, StartsAre
    <2>3. QED
      BY <2>2
  <1>6. ZonesOf(ws, 0) = {}
    BY StartsAre DEF ZonesOf, ZoneStarts
  <1>7. SoFar(<<>>, ws, 0)
    <2>1. Len(<<>>) = 0 /\ 1..0 = {}
      OBVIOUS
    <2>2. Cardinality(ZonesOf(ws, 0)) = 0
      BY <1>6, FS_EmptySet
    <2>3. QED
      BY <1>4, <2>1, <2>2 DEF SoFar
  <1>8. SubSeq(ws, 0 + 1, Len(ws)) = ws /\ 0 \in 0..Len(ws)
    OBVIOUS
  <1>9. Evaluated(0)
    BY <1>1, <1>2, <1>3, <1>4, <1>5, <1>7, <1>8 DEF Evaluated
  <1>10. QED
    BY <1>1, <1>2, <1>8, <1>9 DEF ParseInv, ZonesAsWritten

(* Every zone that is added to the model is as its own options say, and no    *)
(* other one is, whatever the arguments are, unless a zone is given an empty  *)
(* path (aDZs and oDZ of fofimonMain(), main.cc:262-405).                    *)
THEOREM ZonesCorrect == ASSUME PathsAreNamed PROVE Spec => []ZonesAsWritten
  <1>1. TypeInv /\ ParseInv /\ [Next]_vars => (TypeInv /\ ParseInv)'
    <2> SUFFICES ASSUME TypeInv, ParseInv, [Next]_vars PROVE (TypeInv /\ ParseInv)'
      OBVIOUS
    <2>1. OutputInv' /\ BufferInv'
      BY OutputInvStep, BufferInvStep DEF TypeInv
    <2>2. ArgsInv' /\ EventsInv' /\ StdinInv' /\ PrintedInv'
      BY ArgsStep, EventsStep, StdinStep, PrintedStep
    <2>3. ParseInv'
      BY PathsAreNamed, ParseStep
    <2>4. QED
      BY <2>1, <2>2, <2>3 DEF TypeInv
  <1>2. Init => TypeInv /\ ParseInv
    BY TypeInit, ParseInit
  <1>3. ParseInv => ZonesAsWritten
    BY DEF ParseInv
  <1>4. QED
    BY <1>1, <1>2, <1>3, PTL DEF Spec

=============================================================================
