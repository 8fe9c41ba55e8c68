------------------------------ MODULE MCTreeMoves ------------------------------
(* TreeMoves for TLC.                                                       *)
EXTENDS TreeMoves

CONSTANTS z, y, p, r, q, x, f

SmallBases == {<<z>>, <<y>>}
SmallDirs  == {<<z, p>>, <<z, p, q>>, <<z, r>>, <<z, r, q>>, <<z, q>>, <<y, x>>, <<y, x, q>>}
SmallFiles == {<<z, p, q, f>>, <<z, r, q, f>>, <<z, q, f>>, <<y, x, q, f>>}

SmallStarts == {{<<z, q>>, <<z, q, f>>},
                {<<z, p>>, <<z, p, q>>, <<z, p, q, f>>, <<z, q>>},
                {<<z, p>>, <<z, r>>, <<y, x>>, <<y, x, q>>, <<y, x, q, f>>},
                {<<z, p>>, <<z, p, q>>, <<z, r>>, <<z, r, q>>, <<z, r, q, f>>}}

Named(n, nodes) == {m \in nodes : Last(m) = n}
InY == {m \in SmallDirs \cup SmallFiles : Head(m) = y}

OnlyZ(excluded) == [maxDepth |-> <<z>> :> 2, excluded |-> excluded]
Both(depth, excluded) ==
    [maxDepth |-> <<z>> :> depth @@ <<y>> :> 2, excluded |-> excluded]

OneZone  == {OnlyZ({}), OnlyZ(Named(q, SmallDirs)), OnlyZ(Named(f, SmallFiles))}
TwoZones == {Both(2, {}), Both(1, {}), Both(2, Named(q, InY)), Both(2, Named(f, InY))}

SmallZones == OneZone \cup TwoZones
=============================================================================
