----------------------------- MODULE MCQuality ------------------------------
(* Quality for TLC. *)
EXTENDS Quality

Tetrahedron(a, b, c, d) == {{a, b, c}, {a, b, d}, {a, c, d}, {b, c, d}}

\* A sphere two of whose vertices are the same point: one shell by its edges,
\* every edge between two faces, and yet pinched at p = 0.
Pinched ==
    LET cap(a, b, c) == {{0, a, b}, {0, b, c}, {0, c, a}}
    IN  cap(1, 2, 3) \union cap(4, 5, 6) \union
        {{1, 2, 4}, {2, 4, 5}, {2, 3, 5}, {3, 5, 6}, {3, 1, 6}, {1, 6, 4}}

Solids == {Tetrahedron(1, 2, 3, 4)}
Broken == {Tetrahedron(1, 2, 3, 4) \ {{1, 2, 3}},                      \* a hole
           Tetrahedron(1, 2, 3, 4) \union Tetrahedron(5, 6, 7, 8),     \* two parts
           Tetrahedron(1, 2, 3, 4) \union Tetrahedron(4, 5, 6, 7),     \* a common vertex
           Tetrahedron(1, 2, 3, 4) \union Tetrahedron(3, 4, 5, 6),     \* a common edge
           Pinched}

Good == [faces : Solids, flat : {0}, finite : {TRUE}, volume : {1}, agrees : {TRUE}]
Candidates ==
    Good \union [faces : Broken, flat : {0}, finite : {TRUE}, volume : {1}, agrees : {TRUE}]
         \union [faces : Solids, flat : {1}, finite : {TRUE}, volume : {1}, agrees : {TRUE}]
         \union [faces : Solids, flat : {0}, finite : {FALSE}, volume : {1}, agrees : {TRUE}]
         \union [faces : Solids, flat : {0}, finite : {TRUE}, volume : {-1}, agrees : {TRUE}]
         \union [faces : Solids, flat : {0}, finite : {TRUE}, volume : {1}, agrees : {FALSE}]

Ray(hit, chord, closes) == [hit |-> hit, chord |-> chord, closes |-> closes]
RayOutcomes == {Ray("nothing", 0, FALSE), Ray("other", 0, FALSE),
                Ray("opposing", 15, TRUE), Ray("opposing", 16, FALSE),
                Ray("opposing", 16, TRUE), Ray("opposing", 30, TRUE)}
UpToTwoRays == {S \in SUBSET RayOutcomes : Cardinality(S) <= 2}

Part(swept, rings, widths) ==
    [swept |-> swept, rings |-> rings, sides |-> {0, 24}, widths |-> widths]
Parts == {Part(FALSE, {0}, {24, 25}), Part(TRUE, {0}, {25}), Part(TRUE, {23}, {30}),
          Part(TRUE, {30, 31}, {23, 26}), Part(TRUE, {30}, {30, None})}
UpToTwoParts == {S \in SUBSET Parts : Cardinality(S) <= 2}

\* The tolerance of 100 mm is 0.5 mm.
Near == {1000 + d : d \in {-6, -5, -1, 0, 1, 5, 6}}

Shaped(shells, rays, parts) ==
    [asked : {1000}, size : {1000}, display : {1000}, objects : {200},
     shell : shells, rays : rays, parts : parts]
GoodRays == {{Ray("opposing", 16, TRUE)}}
GoodParts == {{Part(FALSE, {0}, {24, 25})}}
Sized == [asked : {1000}, size : Near, display : Near \union {1010}, objects : {200},
          shell : Good, rays : GoodRays, parts : GoodParts]
Crowded == [asked : {1000}, size : {1000}, display : {1000}, objects : {249, 250, 257},
            shell : Good, rays : GoodRays, parts : GoodParts]

\* Every height and number of objects, every shell, and every wall and feature,
\* with the rest as it should be.
AllScenes == Sized \union Crowded \union Shaped(Candidates, GoodRays, GoodParts)
                   \union Shaped(Good, UpToTwoRays, UpToTwoParts)

\* Within the tolerance, at it and beyond, and more than it between two readings
\* that are each within.
Differences == {-3, 0, 5, 6}

-------------------------------------------------------------------------------
\* What gets into a published tree is as far off as the tolerances let it be, or
\* farther.

\* A report whose measurements are given, and that says it passed.
SaysPassed(asked, size, glb, stl) ==
    [status   |-> "passed",
     measured |-> [asked |-> asked, size |-> size, glb |-> glb, stl |-> stl,
                   objects |-> 207, edges |-> 0, flat |-> 0, shells |-> 1,
                   wall |-> 12, feature |-> 20],
     checks   |-> [manifold |-> TRUE, finite |-> TRUE, outward |-> TRUE,
                   positive |-> TRUE, height |-> TRUE]]

OneShell == Good \union {s \in Candidates : s.faces = Pinched}

Strangers ==
    [blend |-> [size : {1005}, display : {1020}, objects : {207}, shell : OneShell, flaws : {{}}],
     glb   |-> [size : {1020}, flaws : {{}, {"objects"}}],
     stl   |-> [raw : {1020}, size : {1020}, shell : OneShell, framed : {TRUE}, flaws : {{}}]
                  \union [raw : {1035}, size : {1035}, shell : Good, framed : {TRUE},
                          flaws : {{}}],
     qa    |-> {SaysPassed(1010, 1010, 1015, 1015), SaysPassed(1010, 1010, 1015, 1035)},
     asked |-> {1000, 900}]
=============================================================================
