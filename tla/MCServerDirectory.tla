------------------------- MODULE MCServerDirectory -------------------------
\* Two servers with two links each; the process of a is followed.
EXTENDS ServerDirectory, TLC

CONSTANTS a, b, a1, a2, b1, b2

MCServers == {a, b}
MCWatched == {a}
MCLinks == {a1, a2, b1, b2}
MCOwner == a1 :> a @@ a2 :> a @@ b1 :> b @@ b2 :> b

\* The links of a server are interchangeable.
MCSymmetry == {[l \in MCLinks |-> IF l \in {a1, a2} THEN p[l] ELSE q[l]] :
                 p \in Permutations({a1, a2}), q \in Permutations({b1, b2})}

=============================================================================
