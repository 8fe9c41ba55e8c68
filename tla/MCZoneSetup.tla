------------------------------ MODULE MCZoneSetup ------------------------------
(* ZoneSetup for TLC: a few small trees, zones and files.                   *)
EXTENDS ZoneSetup

CONSTANTS a, b, c, d

\* "/c" is a fake file system.
Fake == {<<c>>}

\* Names of two characters, but that of d begins with that of c
Sizes  == [n \in Names |-> IF n = d THEN 3 ELSE 2]
LikeC == {<<c, d>>} \cap (Names \X Names)

Exactly(n)  == [exact |-> TRUE, names |-> {n}]
Matching(n) == [exact |-> FALSE, names |-> {n}]

Zone(path, maxDepth, includes, excludes) ==
    [path |-> path, maxDepth |-> maxDepth, dirIncludes |-> includes, dirExcludes |-> excludes,
     fileIncludes |-> includes, fileExcludes |-> excludes]

File(dir, name) == [dir |-> dir, name |-> name]

\* A zone at "/", one in it that excludes the way to another one, in which a third
\* may lie; a file below the leaf directories and one in the fake file system, as
\* the code takes <<d>> to be, too.
Tree1  == {<<>>, <<a>>, <<a, b>>, <<a, b, c>>, <<a, c>>, <<c>>, <<d>>}
Zones1 == {Zone(<<>>, 1, {}, {Exactly(b)}), Zone(<<a>>, 2, {}, {Exactly(b)}),
           Zone(<<a, b>>, 0, {}, {}), Zone(<<a, b>>, 1, {Exactly(c)}, {})}
Files1 == {File(<<a, b, c>>, b), File(<<c>>, b)}

Secret1 == {<<a>>, <<a, c>>}

\* A zone with regular expressions
Tree3  == {<<>>, <<a>>, <<b>>, <<a, b>>, <<a, c>>}
Zones3 == {Zone(<<a>>, 1, {}, {}), Zone(<<a>>, 1, {}, {Matching(b)}), Zone(<<a>>, 1, {Matching(b)}, {})}

\* The instances are ones the theorems are about.
ASSUME NamesAreApart
ASSUME \A z \in Zones1 : \A f \in z.dirIncludes \cup z.dirExcludes : f.exact
=============================================================================
