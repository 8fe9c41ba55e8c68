---------------------------------- MODULE Main ----------------------------------
(***************************************************************************)
(* The program around FofiModel: fofimonMain().  It evaluates its           *)
(* arguments, defines what to watch, starts the model, runs the main loop    *)
(* of GLib until standard input ends or the model asks to abort, and prints. *)
(*                                                                         *)
(* The loop has two sources of different priority: INotifierSource, and the  *)
(* callback of standard input, which only runs in a round that found no      *)
(* inotify event.  What the program prints into a watched directory is       *)
(* itself an inotify event.  Other processes change the watched files, and   *)
(* may make an output file impossible to open and possible again.            *)
(*                                                                         *)
(* FofiModel is reduced to what main can tell: whether start() fails, which   *)
(* events reach m_oWatchedResultActionSignal, and when it aborts.  All       *)
(* watched files are in one directory.                                     *)
(***************************************************************************)
EXTENDS Integers, Sequences, SequencesExt, FiniteSets

CONSTANTS ArgLists,    \* the argument lists the program may be given
          Others,      \* watched files that other processes change
          OutFiles,    \* the files an output option may name
          Watched,     \* those of them that lie in the watched directory
          Dashed,      \* the words that begin with '-'
          Slashed,     \* the words with a '/' in them
          Refused,     \* the paths and expressions addDirectoryZone() refuses
          Numbers,     \* what strtod() makes of the words that are numbers, rounded up
          MaxQueue,    \* max_queued_events
          LineLength   \* bound: of the lines that are typed, one at a time

\* Where an output goes that names no file: standard output.
StdOut == ""

ASSUME WatchedAssumption ==
    /\ Watched \subseteq OutFiles
    /\ Others \cap OutFiles = {}
    /\ StdOut \notin OutFiles

ASSUME BoundsAssumption == MaxQueue \in Nat /\ LineLength \in Nat
ASSUME NumbersAssumption == \A w \in DOMAIN Numbers : Numbers[w] \in Int

VARIABLES
    given,      \* the arguments of the program
    args,       \* those not evaluated yet
    setup,      \* what they said: see Nothing
    phase,      \* where fofimonMain() is: see TypeOK
    disk,       \* disk[n]: whether the file exists
    queue,      \* the inotify queue
    buffer,     \* the events dispatch() has read and not handled yet
    result,     \* result[n]: what FofiModel says of n, see TypeOK
    typed,      \* how many characters typed the program has not read
    stdio,      \* how many of those it has read getchar() has not returned
    eof,        \* Control-D was pressed
    hup,        \* the other end of standard input is gone
    quitting,   \* quit() was called
    fatal,      \* sFatalError is set
    created,    \* the outputs whose m_bCreated is set
    content,    \* content[f]: what output file f contains, see TypeOK
    locked,     \* the output files that cannot be opened now
    printed,    \* ghost: the outputs that have been printed into their file
    quiet       \* others will not change anything any more

arguments == <<given, args, setup>>
kernel    == <<disk, queue>>
stdin     == <<typed, stdio, eof, hup>>
outputs   == <<created, content, printed>>
others    == <<locked, quiet>>
vars      == <<given, args, setup, phase, disk, queue, buffer, result, typed, stdio,
               eof, hup, quitting, fatal, created, content, locked, printed, quiet>>

---------------------------------------------------------------------------
(* The options.                                                            *)

Outputs == {"--print-zones", "--print-watched", "--print-watched-after",
            "--live-actions", "--print-modified"}
Flags   == {"--dont-watch", "--skip-temporary", "--show-detail"}
Limits  == {"--max-watched-dirs", "--max-results"}
Regexes == {"--include-files", "--include-dirs", "--exclude-files", "--exclude-dirs"}
ExactNames == {"--pinned-file", "--pinned-dir", "--exclude-file", "--exclude-dir"}
Filters == Regexes \cup ExactNames

Short == [h |-> "-h", v |-> "-v", l |-> "-l", o |-> "-o", f |-> "-f", z |-> "-z", m |-> "-m"]

\* The option a word stands for, whichever of its two forms is used.
Option(w) ==
    CASE w = Short.h -> "--help"
      [] w = Short.v -> "--version"
      [] w = Short.l -> "--live-actions"
      [] w = Short.o -> "--print-modified"
      [] w = Short.f -> "--add-file"
      [] w = Short.z -> "--add-zone"
      [] w = Short.m -> "--max-depth"
      [] OTHER       -> w

\* What follows an output option is the next option or the name of a file.
WellFormed(ws) ==
    /\ ws \in Seq(STRING)
    /\ \A i \in 1..(Len(ws) - 1) :
          Option(ws[i]) \in Outputs => ws[i + 1] \in Dashed \cup OutFiles

ASSUME ArgListsAssumption == \A ws \in ArgLists : WellFormed(ws)

Unlimited == 9999     \* std::max(9999, PATH_MAX), only compared with depths

\* A DirectoryZone: its base path, depth, and its filters and pinned names.
NewZone(path) == [path |-> path, depth |-> 0, filters |-> <<>>]

Nothing == [flags  |-> {},
            shows  |-> {},                          \* the outputs asked for
            file   |-> [o \in Outputs |-> StdOut],
            files  |-> <<>>, zones |-> <<>>,
            zone   |-> NewZone("")]              \* oDZ: none begun

\* Those of the outputs o that go to file f.
ToFile(f) == {o \in setup.shows : setup.file[o] = f}

TypeOK ==
    /\ given \in ArgLists
    /\ IsSuffix(args, given)
    /\ setup.flags \subseteq Flags
    /\ setup.shows \subseteq Outputs
    /\ setup.file \in [Outputs -> OutFiles \cup {StdOut}]
    \* where fofimonMain() is; it has returned in the last three
    /\ phase \in {"arguments", "defining", "zones", "calculating", "listing", "starting",
                  "watched", "running", "after", "modified", "told", "failed", "ended"}
    /\ disk \in [Others \cup OutFiles -> BOOLEAN]
    /\ Len(queue) <= MaxQueue
    /\ Len(buffer) <= MaxQueue
    /\ \A i \in DOMAIN queue : queue[i].name \in Others \cup Watched
    \* "none": there is no WatchedResult; else whether its file exists
    /\ result \in [Others \cup Watched -> {"none", "there", "gone"}]
    /\ typed \in {0, LineLength} /\ stdio \in 0..LineLength
    /\ eof \in BOOLEAN /\ hup \in BOOLEAN
    /\ quitting \in BOOLEAN
    /\ fatal \in BOOLEAN
    /\ created \subseteq setup.shows
    \* old: what was in it before the program ran is still there;
    \* lost: something printed in this run was overwritten
    /\ content \in [OutFiles -> [old: BOOLEAN, lost: BOOLEAN, has: SUBSET Outputs]]
    /\ locked \subseteq OutFiles
    /\ printed \subseteq Outputs
    /\ quiet \in BOOLEAN

Init ==
    /\ given \in ArgLists
    /\ args = given
    /\ setup = Nothing
    /\ phase = "arguments"
    /\ disk \in [Others \cup OutFiles -> BOOLEAN]
    /\ \A n \in Others : ~disk[n]
    /\ queue = <<>> /\ buffer = <<>>
    /\ result = [n \in Others \cup Watched |-> "none"]
    /\ typed = 0 /\ stdio = 0 /\ eof = FALSE /\ hup = FALSE
    /\ quitting = FALSE /\ fatal = FALSE
    /\ created = {}
    /\ content = [f \in OutFiles |-> [old |-> disk[f], lost |-> FALSE, has |-> {}]]
    /\ locked = {}
    /\ printed = {}
    /\ quiet = FALSE

---------------------------------------------------------------------------
(* Evaluating the arguments.                                               *)

Opt == Option(args[1])

\* An option without its argument ends the program, as every wrong one does.
Missing == Len(args) = 1

\* A zone option needs a zone to belong to.
NoZoneYet == setup.zone.path = ""

Goto(p) == phase' = p /\ UNCHANGED arguments
Evaluates(n, s) ==
    /\ args' = SubSeq(args, n + 1, Len(args))
    /\ setup' = s
    /\ UNCHANGED <<given, phase>>

\* Mutant: the program goes on after --help.
EvalHelpGoesOn == Opt \in {"--help", "--version"} /\ Evaluates(1, [setup EXCEPT !.flags = @ \cup {Opt}])
EvalHelp == Opt \in {"--help", "--version"} /\ Goto("told")

EvalFlag == Opt \in Flags /\ Evaluates(1, [setup EXCEPT !.flags = @ \cup {Opt}])

\* The file of an output is optional: a word with a dash is the next option.
EvalOutput ==
    /\ Opt \in Outputs
    /\ LET to(f) == [setup EXCEPT !.shows = @ \cup {Opt}, !.file[Opt] = f]
       IN  IF Missing \/ args[2] \in Dashed
             THEN Evaluates(1, to(StdOut))
             ELSE Evaluates(2, to(args[2]))

EvalLimit ==
    /\ Opt \in Limits
    /\ IF Missing THEN Goto("failed") ELSE Evaluates(2, setup)

EvalAddFile ==
    /\ Opt = "--add-file"
    /\ IF Missing THEN Goto("failed")
                  ELSE Evaluates(2, [setup EXCEPT !.files = Append(@, args[2])])

\* The zones with the one that is being described.
WithLast(s) == IF s.zone.path = "" THEN s.zones ELSE Append(s.zones, s.zone)

\* Mutant: oDZ is not set to its defaults for the next zone.
EvalAddZoneKept ==
    /\ Opt = "--add-zone"
    /\ IF Missing THEN Goto("failed")
                  ELSE Evaluates(2, [setup EXCEPT !.zones = WithLast(setup),
                                                  !.zone.path = args[2]])
EvalAddZone ==
    /\ Opt = "--add-zone"
    /\ IF Missing THEN Goto("failed")
                  ELSE Evaluates(2, [setup EXCEPT !.zones = WithLast(setup),
                                                  !.zone  = NewZone(args[2])])

DepthOf(w) ==
    LET n == IF w \in DOMAIN Numbers THEN Numbers[w] ELSE 0
    IN  IF n < 0 THEN Unlimited ELSE n

EvalDepth ==
    /\ Opt = "--max-depth"
    /\ IF Missing \/ NoZoneYet
         THEN Goto("failed")
         ELSE Evaluates(2, [setup EXCEPT !.zone.depth = DepthOf(args[2])])

EvalFilter ==
    /\ Opt \in Filters
    /\ IF \/ Missing
          \/ NoZoneYet
          \/ Opt \in ExactNames /\ args[2] \in Slashed
         THEN Goto("failed")
         ELSE Evaluates(2, [setup EXCEPT !.zone.filters = Append(@, <<Opt, args[2]>>)])

\* Meant to exclude everything, it excludes what is called ".*".
EvalExcludeAll ==
    /\ Opt = "--exclude-all"
    /\ IF NoZoneYet
         THEN Goto("failed")
         ELSE Evaluates(1, [setup EXCEPT !.zone.filters =
                  @ \o <<<<"--exclude-file", ".*">>, <<"--exclude-dir", ".*">>>>])

Known == {"--help", "--version", "--add-file", "--add-zone", "--max-depth", "--exclude-all"}
             \cup Flags \cup Outputs \cup Limits \cup Filters
EvalUnknown == Opt \notin Known /\ Goto("failed")

Evaluate ==
    /\ phase = "arguments"
    /\ args # <<>>
    /\ \/ EvalHelp  \/ EvalFlag    \/ EvalOutput  \/ EvalLimit  \/ EvalAddFile
       \/ EvalAddZone \/ EvalDepth \/ EvalFilter  \/ EvalExcludeAll \/ EvalUnknown
    /\ UNCHANGED <<kernel, stdin, outputs, others, buffer, result, quitting, fatal>>

EndOfArguments ==
    /\ phase = "arguments"
    /\ args = <<>>
    /\ phase' = "defining"
    /\ setup' = [setup EXCEPT !.zones = WithLast(setup), !.zone = NewZone("")]
    /\ UNCHANGED <<given, args, kernel, stdin, outputs, others, buffer, result, quitting, fatal>>

---------------------------------------------------------------------------
(* Defining what to watch.                                                 *)

RefusedZone(z) ==
    \/ z.path \in Refused
    \/ \E i \in DOMAIN z.filters : z.filters[i][1] \in Regexes /\ z.filters[i][2] \in Refused

Paths(zones) == [i \in DOMAIN zones |-> zones[i].path]

\* What is asked for twice is refused.
Define ==
    /\ phase = "defining"
    /\ LET zones == IF setup.files = <<>> /\ setup.zones = <<>>
                      THEN <<NewZone("getcwd()")>>
                      ELSE setup.zones
       IN  IF /\ IsInjective(setup.files)
              /\ IsInjective(Paths(zones))
              /\ \A i \in DOMAIN zones : ~RefusedZone(zones[i])
             THEN /\ phase' = "zones"
                  /\ setup' = [setup EXCEPT !.zones = zones]
             ELSE /\ phase' = "failed"
                  /\ UNCHANGED setup
    /\ UNCHANGED <<given, args, kernel, stdin, outputs, others, buffer, result, quitting, fatal>>

---------------------------------------------------------------------------
(* Printing.                                                               *)

\* What happens in the watched directory is queued from start() to stop().
Watching == phase \in {"watched", "running"}

Event(n, act) == [name |-> n, act |-> act]
Posted(q, e) ==
    IF Len(q) = MaxQueue \/ (q # <<>> /\ Last(q) = e) THEN q ELSE Append(q, e)

\* Opening a file to write makes it when it is missing; closing it is a change.
Written(f) ==
    LET q == IF disk[f] THEN queue ELSE Posted(queue, Event(f, "CREATE"))
    IN  /\ disk' = [disk EXCEPT ![f] = TRUE]
        /\ queue' = IF Watching /\ f \in Watched THEN Posted(q, Event(f, "MODIFY")) ELSE queue

\* What is in the file after o: the first time it is truncated.
PrintedTo(c, o) ==
    LET again == o \in created
    IN  [old  |-> again /\ c.old,
         lost |-> c.lost \/ (~again /\ c.has # {}),
         has  |-> IF again THEN c.has \cup {o} ELSE {o}]

\* Mutant: m_bCreated is set before the file is opened.
PrintOutputEarly(o) ==
    LET f == setup.file[o]
    IN  /\ created' = created \cup {o}
        /\ IF f = StdOut \/ f \in locked
             THEN UNCHANGED <<kernel, content, printed>>
             ELSE /\ content' = [content EXCEPT ![f] = PrintedTo(@, o)]
                  /\ printed' = printed \cup {o}
                  /\ Written(f)

\* printOutput(): truncates the first time, then appends.
PrintOutput(o) ==
    LET f == setup.file[o]
    IN  IF f = StdOut \/ f \in locked
          THEN UNCHANGED <<kernel, outputs>>
          ELSE /\ content' = [content EXCEPT ![f] = PrintedTo(@, o)]
               /\ created' = created \cup {o}
               /\ printed' = printed \cup {o}
               /\ Written(f)

\* One of the prints of fofimonMain(), if it was asked for.
Show(o) == IF o \in setup.shows THEN PrintOutput(o) ELSE UNCHANGED <<kernel, outputs>>

Step(from, o, to) ==
    /\ phase = from
    /\ Show(o)
    /\ phase' = to
    /\ UNCHANGED <<arguments, stdin, others, buffer, result, quitting, fatal>>

DontWatch == "--dont-watch" \in setup.flags

ShowZones == Step("zones", "--print-zones", IF DontWatch THEN "calculating" ELSE "starting")

\* --dont-watch: what would be watched is calculated and printed, unless only
\* the zones were asked for.
Calculate ==
    /\ phase = "calculating"
    /\ IF "--print-watched" \notin setup.shows /\ "--print-zones" \in setup.shows
         THEN phase' = "ended"
         ELSE phase' \in {"listing", "failed"}
    /\ UNCHANGED <<arguments, kernel, stdin, outputs, others, buffer, result, quitting, fatal>>

ShowCalculated == Step("listing", "--print-watched", "ended")

---------------------------------------------------------------------------
(* Watching.                                                               *)

\* start(), which may reach a limit.
Start ==
    /\ phase = "starting"
    /\ phase' \in {"watched", "failed"}
    /\ setup' = [setup EXCEPT !.shows =
           IF @ \cap {"--live-actions", "--print-modified"} = {}
             THEN @ \cup {"--print-modified"} ELSE @]
    /\ UNCHANGED <<given, args, kernel, stdin, outputs, others, buffer, result, quitting, fatal>>

ShowWatched == Step("watched", "--print-watched", "running")

Idle == phase = "running" /\ buffer = <<>>

\* A round of the loop that finds events: dispatch() reads them.
Dispatch ==
    /\ Idle
    /\ ~quitting
    /\ queue # <<>>
    /\ buffer' = queue
    /\ queue' = <<>>
    /\ UNCHANGED <<arguments, phase, disk, stdin, outputs, others, result, quitting, fatal>>

\* Mutant: every event of a result is sent.
EmitsAll(e) == TRUE
\* What onFileModified() sends to m_oWatchedResultActionSignal: not the changes
\* of a file that has a result and exists.
Emits(e) == e.act # "MODIFY" \/ result[e.name] # "there"

\* The next event of the buffer.  It may make FofiModel abort, before or after
\* the result is sent; the rest of the buffer is handled all the same.
Handle ==
    /\ buffer # <<>>
    /\ LET e == Head(buffer)
       IN  \E aborts \in IF e.act = "CREATE" /\ e.name \in Others THEN BOOLEAN ELSE {FALSE} :
             /\ fatal' = (fatal \/ aborts)
             /\ quitting' = (quitting \/ aborts)
             /\ result' = [result EXCEPT ![e.name] = IF e.act = "DELETE" THEN "gone" ELSE "there"]
             /\ \/ Emits(e) /\ Show("--live-actions")
                \/ (~Emits(e) \/ aborts) /\ UNCHANGED <<kernel, outputs>>
    /\ buffer' = Tail(buffer)
    /\ UNCHANGED <<arguments, phase, stdin, others>>

\* The callback of standard input, of lower priority than INotifierSource.
\* getchar() reads all there is when it has nothing left to return.
OnStdin ==
    /\ Idle
    /\ ~quitting
    /\ queue = <<>>
    /\ hup \/ eof \/ typed > 0
    /\ \/ /\ hup
          /\ quitting' = TRUE
          /\ UNCHANGED stdin
       \/ /\ ~hup
          /\ \/ /\ stdio > 0
                /\ stdio' = stdio - 1
                /\ UNCHANGED <<typed, quitting>>
             \/ /\ stdio = 0 /\ typed > 0
                /\ stdio' = typed - 1
                /\ typed' = 0
                /\ UNCHANGED quitting
             \/ /\ stdio = 0 /\ typed = 0     \* EOF
                /\ quitting' = TRUE
                /\ UNCHANGED <<typed, stdio>>
          /\ UNCHANGED <<eof, hup>>
    /\ UNCHANGED <<arguments, phase, kernel, outputs, others, buffer, result, fatal>>

\* run() returns at the end of the round in which quit() was called; stop().
Stop ==
    /\ Idle
    /\ quitting
    /\ phase' = "after"
    /\ queue' = <<>>
    /\ UNCHANGED <<arguments, disk, stdin, outputs, others, buffer, result, quitting, fatal>>

ShowAfter    == Step("after", "--print-watched-after", "modified")
ShowModified == Step("modified", "--print-modified", "ended")

---------------------------------------------------------------------------
(* The others: processes that change files, and the user.                  *)

Change(n) ==
    /\ Watching /\ ~quiet
    /\ \/ /\ disk' = [disk EXCEPT ![n] = ~@]
          /\ queue' = Posted(queue, Event(n, IF disk[n] THEN "DELETE" ELSE "CREATE"))
       \/ /\ disk[n]
          /\ queue' = Posted(queue, Event(n, "MODIFY"))
          /\ UNCHANGED disk
    /\ UNCHANGED <<arguments, phase, stdin, outputs, others, buffer, result, quitting, fatal>>

\* A file the program prints to can no longer be opened, or can again.
Lock(f) ==
    /\ Watching /\ ~quiet
    /\ ToFile(f) # {}
    /\ locked' = IF f \in locked THEN locked \ {f} ELSE locked \cup {f}
    /\ UNCHANGED <<arguments, phase, kernel, stdin, outputs, buffer, result, quitting, fatal, quiet>>

Quieten ==
    /\ Watching /\ ~quiet
    /\ quiet' = TRUE
    /\ UNCHANGED <<arguments, phase, kernel, stdin, outputs, buffer, result, quitting, fatal, locked>>

\* A line is typed, Control-D is pressed or the other end goes away.
Type ==
    /\ phase = "running"
    /\ ~eof /\ ~hup /\ ~quitting
    /\ \/ /\ typed = 0
          /\ typed' = LineLength
          /\ UNCHANGED <<eof, hup>>
       \/ /\ eof' = TRUE
          /\ UNCHANGED <<typed, hup>>
       \/ /\ hup' = TRUE
          /\ UNCHANGED <<typed, eof>>
    /\ UNCHANGED <<stdio, arguments, phase, kernel, outputs, others, buffer, result, quitting, fatal>>

---------------------------------------------------------------------------
Program == \/ Evaluate \/ EndOfArguments \/ Define
           \/ ShowZones \/ Calculate \/ ShowCalculated \/ Start \/ ShowWatched
           \/ Dispatch \/ Handle \/ OnStdin \/ Stop \/ ShowAfter \/ ShowModified

Environment == \/ \E n \in Others : Change(n)
               \/ \E f \in OutFiles : Lock(f)
               \/ Quieten
               \/ Type

Next == Program \/ Environment

Spec == Init /\ [][Next]_vars

\* The program runs on; nobody else has to do anything.
FairSpec == Spec /\ WF_vars(Program)

---------------------------------------------------------------------------
(* Properties.                                                             *)

\* Where the options of an argument list begin: a declarative reading of it, by
\* positions, to compare the evaluation with.  A word that is the argument of
\* an option is not an option, whatever it looks like.
TakesTwo(ws, i) ==
    LET o == Option(ws[i])
    IN  \/ o \in Limits \cup Filters \cup {"--add-file", "--add-zone", "--max-depth"}
        \/ o \in Outputs /\ i < Len(ws) /\ ws[i + 1] \notin Dashed
Starts(ws) ==
    CHOOSE S \in SUBSET DOMAIN ws : \A i \in DOMAIN ws :
        (i \in S) <=> (i = 1 \/ ~(i - 1 \in S /\ TakesTwo(ws, i - 1)))

\* The options and arguments of the k-th zone: those up to the next zone.
ZoneStarts(ws) == {i \in Starts(ws) : Option(ws[i]) = "--add-zone"}
Belongs(ws, i, k) ==
    /\ i \in Starts(ws) /\ k \in ZoneStarts(ws) /\ k < i
    /\ \A j \in ZoneStarts(ws) : j <= k \/ i < j

\* What belongs to the k-th zone among the first n words.
Own(ws, n, k) == {i \in DOMAIN ws : i <= n /\ Belongs(ws, i, k)}

\* The depth and the filters that the options at the positions O name.
LastDepth(ws, D) ==
    IF D = {} THEN 0 ELSE DepthOf(ws[1 + CHOOSE i \in D : \A j \in D : j <= i])
DepthFrom(ws, O) == LastDepth(ws, {i \in O : Option(ws[i]) = "--max-depth"})
FiltersFrom(ws, O) ==
    {<<Option(ws[i]), ws[i + 1]>> : i \in {j \in O : Option(ws[j]) \in Filters}}
ExcludesAll(ws, O) == \E i \in O : Option(ws[i]) = "--exclude-all"

\* Zone z is the one that starts at k, with the options at the positions O.
\* What --exclude-all adds is not said here: the usage text (main.cc:89-90) and the
\* code (:377-387) disagree about it.
AsWritten(z, ws, k, O) ==
    /\ z.path = ws[k + 1]
    /\ z.depth = DepthFrom(ws, O)
    /\ FiltersFrom(ws, O) \subseteq ToSet(z.filters)
    /\ ToSet(z.filters) \subseteq FiltersFrom(ws, O) \/ ExcludesAll(ws, O)

\* Every zone that is added to the model is as its own options say, and no
\* other one is: nothing of a zone before or after it, nothing of what the
\* defaults were then (aDZs and oDZ of fofimonMain(), main.cc:262-405).  Which
\* filters --exclude-all stands for is left open: a zone with that option has
\* at least the filters it names itself, every other one has exactly those.
ZonesAsWritten ==
    phase \in {"zones", "calculating", "listing", "starting"} =>
      LET ks == ZoneStarts(given)
      IN  IF ks = {} /\ setup.files = <<>>
            THEN setup.zones = <<NewZone("getcwd()")>>
            ELSE /\ Len(setup.zones) = Cardinality(ks)
                 /\ \A n \in DOMAIN setup.zones : \E k \in ks :
                       /\ Cardinality({j \in ks : j <= k}) = n
                       /\ AsWritten(setup.zones[n], given, k, Own(given, Len(given), k))

\* A file that one output alone goes to contains each kind of print that could
\* be made to it, whichever of the attempts to open it failed in between, and
\* nothing else; unless nothing was printed, when it is as it was (printOutput()
\* with m_bCreated, main.cc:116-133).  Nobody else writes to the file, and what
\* is printed is a set: the order of the prints is not represented.
OutputIsWhole ==
    \A o \in setup.shows :
        LET f == setup.file[o]
        IN  f # StdOut /\ ToFile(f) = {o} =>
              IF o \in printed
                THEN content[f] = [old |-> FALSE, lost |-> FALSE, has |-> {o}]
                ELSE content[f].has = {} /\ ~content[f].lost

\* When standard input ends, or the model aborts, the program does, although
\* events go before standard input and printing live actions into a watched
\* directory makes events: once the others leave the files alone, the program
\* does not keep itself busy (main.cc:529-583, inotifiersource.cc:104).
ControlDEnds ==
    <>quiet => ((eof \/ hup \/ fatal) ~> phase = "ended")

---------------------------------------------------------------------------
(* An inductive invariant for OutputIsWhole.  m_bCreated of an output is set   *)
(* exactly when something has been printed to its file, and until the         *)
(* arguments are evaluated, which may still change where an output goes,      *)
(* nothing is.                                                              *)

SetupInv ==
    /\ DOMAIN setup = DOMAIN Nothing
    /\ setup.shows \subseteq Outputs
    /\ setup.file \in [Outputs -> OutFiles \cup {StdOut}]
    /\ \A o \in Outputs \ setup.shows : setup.file[o] = StdOut
    /\ WellFormed(args)

NothingPrinted ==
    /\ printed = {}
    /\ \A f \in OutFiles : content[f].has = {} /\ ~content[f].lost

ContentInv ==
    /\ content \in [OutFiles -> [old: BOOLEAN, lost: BOOLEAN, has: SUBSET Outputs]]
    /\ created = printed
    /\ phase \in {"arguments", "defining"} => NothingPrinted

OutputInv == SetupInv /\ ContentInv /\ OutputIsWhole

\* Events are handled in the main loop only.
BufferInv == phase # "running" => buffer = <<>>

\* The path of a zone is asserted not to be an empty word (main.cc:248), which
\* would make it the zone none has begun: ZonesAsWritten supposes the same.
PathsAreNamed ==
    \A ws \in ArgLists : \A i \in 1..(Len(ws) - 1) :
        Option(ws[i]) = "--add-zone" => ws[i + 1] # ""
=============================================================================
