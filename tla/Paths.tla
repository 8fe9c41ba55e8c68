--------------------------------- MODULE Paths ---------------------------------
(***************************************************************************)
(* Paths of directories, and what Util::getPathDepth() computes of their    *)
(* strings.  A path is the sequence of its names, <<>> is "/".  Of a name   *)
(* only its length and whether it begins with another name matter.         *)
(***************************************************************************)
EXTENDS Integers, Sequences, SequencesExt, FiniteSetsExt

CONSTANTS Names,      \* the names of files and directories
          Size,       \* Size[n]: how many characters n has
          Begins      \* the pairs <<m, n>> of names where n is longer and begins with m

ASSUME SizeAssumption   == Size \in [Names -> Nat \ {0}]
ASSUME BeginsAssumption ==
    Begins \subseteq Names \X Names /\ \A p \in Begins : Size[p[1]] < Size[p[2]]

NameOf(p)   == Last(p)
ParentOf(p) == Front(p)

\* p and the directories above it
Upwards(p) == {SubSeq(p, 1, k) : k \in 0..Len(p)}

\* The characters of p's string before the slash of its k-th name: <<j, i>> is the i-th
\* of the j-th name, 0 its slash
CharsBefore(p, k) == UNION {{j} \X (0..Size[p[j]]) : j \in 1..(k - 1)}

\* The position in p's string of the slash before p's k-th name
SlashAt(p, k) == Cardinality(CharsBefore(p, k))

StringSize(p) == IF p = <<>> THEN 1 ELSE SlashAt(p, Len(p) + 1)

\* The string of p begins with the string of q, in the middle of a name perhaps.
StringBeginsWith(p, q) ==
    \/ q = <<>>
    \/ /\ Len(q) <= Len(p)
       /\ LET k == Len(q) IN
          /\ SubSeq(p, 1, k - 1) = Front(q)
          /\ p[k] = q[k] \/ <<q[k], p[k]>> \in Begins

\* Mutant: the maximal depth itself is outside.
PathDepthBelow(child, base, maxDepth) ==
    LET left(k) == IF k = Len(child) THEN StringSize(child) ELSE SlashAt(child, k + 1) - 1
        depth   == Cardinality({k \in DOMAIN child : left(k) > StringSize(base)})
    IN  IF StringBeginsWith(child, base) /\ depth < maxDepth THEN depth ELSE -1

\* getPathDepth(): -1 if child is not in base's subtree or too deep.  Names are
\* taken from the end of child; what is left, nSize, is one less than its size.
PathDepth(child, base, maxDepth) ==
    LET left(k) == IF k = Len(child) THEN StringSize(child) ELSE SlashAt(child, k + 1) - 1
        depth   == Cardinality({k \in DOMAIN child : left(k) > StringSize(base)})
    IN  IF StringBeginsWith(child, base) /\ depth <= maxDepth THEN depth ELSE -1

=============================================================================
