--------------------------------- MODULE MCMain ---------------------------------
(* A small instance of Main for TLC: every list of up to three of the options   *)
(* of a zone and up to two of any, with --dont-watch, and a few sets of outputs  *)
(* with which the loop is run.                                                  *)
EXTENDS Main

MCNumbers == "1" :> 1 @@ "-1" :> -1

ZoneChunks == {<<"-z", "a">>, <<"--add-zone", "b">>, <<"-m", "1">>, <<"--max-depth", "-1">>,
               <<"--exclude-dir", "x">>, <<"--exclude-all">>, <<"-l">>}
Chunks == ZoneChunks \cup
          {<<"-z">>, <<"-z", "x">>, <<"-f", "a">>, <<"--exclude-dir", "a/b">>, <<"--include-files", "x">>,
           <<"--print-watched", "in">>, <<"--max-results", "-z">>, <<"-h">>, <<"--live-events">>}
ZoneLists == {<<"--dont-watch">> \o FlattenSeq(s) : s \in SeqOf(ZoneChunks, 3) \cup SeqOf(Chunks, 2)}

OutputLists == {<<"-z", "a">>, <<"-l", "in", "--print-watched-after", "out">>}

MCArgLists == ZoneLists \cup OutputLists
MCDashed == {"-z", "--add-zone", "-f", "-m", "--max-depth", "-1", "--exclude-dir", "-l", "-o", "-h",
             "--include-files", "--exclude-all", "--print-watched", "--print-watched-after",
             "--print-zones", "--max-results", "--live-events", "--dont-watch"}

ASSUME PathsAreNamed
=============================================================================
