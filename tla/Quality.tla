------------------------------- MODULE Quality -------------------------------
(***************************************************************************)
(* The geometric evidence of one build, from the generated scene to the    *)
(* status of the build: blender/runner.py, blender/verifier.py,            *)
(* blender/qa/geometry.py and shared/quality_report.py decide whether the  *)
(* build publishes, builder_cli and worker.py make a build status of its   *)
(* exit code, and blender/published_verifier.py judges the published tree  *)
(* a second time, with checks of its own, whatever happened to it since.   *)
(*                                                                         *)
(* A shell is a set of triangles; Blender's numeric answers (whether a     *)
(* coordinate is finite, a ray hits, a volume is positive) are attributes  *)
(* of it.  Of the three axes of a bounding box only the height is kept:    *)
(* it is the only one that is also compared with the request.  Lengths     *)
(* are in tenths of a millimetre.  What else may be wrong with the content *)
(* of a file is a flaw, named for the check that looks for it.             *)
(***************************************************************************)
EXTENDS Integers, FiniteSetsExt

CONSTANTS
    Shells,     \* what the voxel union may yield: [faces, flat, finite, volume, agrees]
    Scenes,     \* the scenes the generator may build:
                \*   [asked, size, display, objects, shell, rays, parts]
    Drifts,     \* what writing and reading an exported format adds to a length
    Foreign,    \* what may get into a published tree later: [blend, glb, stl, qa, asked]
    MaxEdits,   \* how often that may happen
    Voxel,      \* voxel_size_mm
    None        \* a measurement that could not be taken, a file that is not there

\* What may be wrong with a file: what the verifier of the build looks for, ...
BuildSees ==
    [blend |-> {"library",      \* a linked library or an external image
                "meshes",       \* mesh data that are not those of the live scene
                "placement"},   \* other collections, mesh names, roles
     glb   |-> {"shell",        \* no mesh, or the PrintableShell among them
                "image"},
     stl   |-> {"meshes"}]      \* not exactly one mesh

\* ... and what the verifier of a published tree looks for.
VerifySees ==
    [blend |-> {"library", "placement",
                "stage",        \* cameras, lights, SET, nested collections, a visible shell
                "setting",      \* name of the scene, render path, units
                "content",      \* a text, an image, a cache, a sound, a driver
                "display"},     \* an empty or infinite display mesh, one without material
     glb   |-> {"shell", "image", "content", "display",
                "objects"},     \* an object that is no mesh
     stl   |-> {"meshes", "content", "objects"}]

Models == {"blend", "glb", "stl"}
Flaws == [n \in Models |-> BuildSees[n] \union VerifySees[n]]

\* Meshes, ray sets and parts are finite and lengths are numbers.  Nothing is
\* said of how the triangles of a shell meet, of what the rays find, or of how
\* far an exported format may be off.
ASSUME QualityAssumption ==
    /\ Voxel \in Nat /\ MaxEdits \in Nat /\ None \notin Int
    /\ Drifts \subseteq Int
    /\ \A s \in Shells :
          /\ IsFiniteSet(s.faces) /\ \A f \in s.faces : IsFiniteSet(f)
          /\ s.flat \in Nat /\ s.volume \in Int
          /\ s.finite \in BOOLEAN /\ s.agrees \in BOOLEAN
    /\ \A x \in Scenes :
          /\ x.asked \in Nat /\ x.size \in Nat /\ x.display \in Nat /\ x.objects \in Nat
          /\ x.shell \in Shells
          /\ IsFiniteSet(x.rays) /\ \A r \in x.rays : r.chord \in Nat
          /\ IsFiniteSet(x.parts)
          /\ \A p \in x.parts :
                /\ IsFiniteSet(p.rings) /\ p.rings \subseteq Nat
                /\ IsFiniteSet(p.sides) /\ p.sides \subseteq Nat
                /\ IsFiniteSet(p.widths) /\ p.widths \subseteq Nat \union {None}
                /\ p.widths # {}
    /\ \A f \in Foreign.blend : f.size \in Int /\ f.display \in Int /\ f.shell \in Shells
    /\ \A f \in Foreign.glb : f.size \in Int
    /\ \A f \in Foreign.stl : f.size \in Int /\ f.raw \in Int /\ f.shell \in Shells
    /\ \A q \in Foreign.qa : \A m \in {"asked", "size", "glb", "stl"} : q.measured[m] \in Int

WallLimit == 12                 \* 1.2 mm
FeatureLimit == 20              \* 2.0 mm
ObjectLimit == 256
Rig == 7                        \* the cameras and lights of setup_render_scene

VARIABLES
    pc,         \* what the build does next
    scene,      \* the live scene: [asked, size, display, objects, shell, rays, parts]
    file,       \* what a fresh process reads in model.blend, model.glb and model.stl
    report,     \* qa.json
    output,     \* manifest.json of the published tree
    edits,      \* how often somebody changed the published tree
    exit,       \* exit code of the CLI
    status,     \* status of the build after its last attempt
    verdict     \* exit code of a later `verify' of the published tree

vars == <<pc, scene, file, report, output, edits, exit, status, verdict>>

-------------------------------------------------------------------------------
(* Topology of a shell (analyze_mesh_object). *)

Edges(faces) == UNION {{e \in SUBSET f : Cardinality(e) = 2} : f \in faces}
Around(faces, e) == {f \in faces : e \subseteq f}

\* The classes of faces that a chain of the edges E links.
Linked(faces, E) ==
    FoldSet(LAMBDA e, parts :
                LET joined == {P \in parts : \E f \in P : e \subseteq f}
                IN  (parts \ joined) \union {UNION joined},
            {{f} : f \in faces}, E)

\* _face_connected_components: shells by shared edges, not by touching vertices.
ConnectedShells(faces) == Cardinality(Linked(faces, Edges(faces)))

NonManifoldEdges(faces) == {e \in Edges(faces) : Cardinality(Around(faces, e)) # 2}

\* Vertices whose faces are more than one fan.
NonManifoldVertices(faces) ==
    {v \in UNION faces :
        LET fan == {f \in faces : v \in f}
        IN  Cardinality(Linked(fan, {e \in Edges(fan) : v \in e})) # 1}

Topology == [s \in Shells |->
    [shells   |-> ConnectedShells(s.faces),
     edges    |-> Cardinality(NonManifoldEdges(s.faces)),
     vertices |-> Cardinality(NonManifoldVertices(s.faces)),
     flat     |-> s.flat,
     finite   |-> s.finite,
     positive |-> s.volume > 0,
     outward  |-> s.agrees /\ s.volume > 0]]

\* The demands both verifiers make on a shell they load.
Watertight(s) ==
    LET t == Topology[s]
    IN  /\ t.shells = 1 /\ t.edges = 0 /\ t.vertices = 0
        /\ t.flat = 0 /\ t.finite /\ t.outward /\ t.positive

-------------------------------------------------------------------------------
(* Walls and features (qa/geometry.py). *)

NotNegative(n) == IF n < 0 THEN 0 ELSE n

\* Rays that hit an opposing face; one closes if the ray back finds its origin.
Strict(rays) == {r \in rays : r.hit = "opposing"}

Measurable_WithMisses(rays) ==
    /\ \E r \in Strict(rays) : r.closes
    /\ \A r \in Strict(rays) : r.chord >= WallLimit + 2 * Voxel

\* No ray missed, some closed, and no chord is short enough to be ambiguous.
Measurable(rays) ==
    /\ \A r \in rays : r.hit # "nothing"
    /\ \E r \in Strict(rays) : r.closes
    /\ \A r \in Strict(rays) : r.chord >= WallLimit + 2 * Voxel

\* _wall_evidence: the shortest chord less the voxels at its ends.
MinimumWall(rays) ==
    IF Measurable(rays)
    THEN NotNegative(Min({r.chord : r \in Strict(rays)}) - 2 * Voxel)
    ELSE None

\* A semantic part of the character: the diameters of its end rings if it is
\* swept, the sides of its box, and what the rays through it find on the shell.
Positive(lengths) == {n \in lengths : n > 0}

\* _measured_feature_mm: the narrowest cross-section that was modelled.
SourceWidth(part) ==
    IF part.swept /\ Positive(part.rings) # {} THEN Min(Positive(part.rings))
    ELSE IF Positive(part.sides) # {} THEN Min(Positive(part.sides)) ELSE None

ActualWidth_Found(part) == Min(part.widths \ {None})

\* _actual_feature_probe: a principal axis or a radial ray that misses leaves
\* the part unmeasured.
ActualWidth(part) == IF None \in part.widths THEN None ELSE Min(part.widths)

\* _measure_printable_shell: every part measured, in the source and on the
\* shell.
MinimumFeature(parts) ==
    LET widths == {SourceWidth(p) : p \in parts} \union {ActualWidth(p) : p \in parts}
    IN  IF parts = {} \/ None \in widths THEN None
        ELSE NotNegative(Min(widths) - 2 * Voxel)

-------------------------------------------------------------------------------
(* The report (shared/quality_report.py). *)

\* |observed - expected| <= max(0.2 mm, 0.5 %)
Within(expected, observed) ==
    LET tolerance == IF expected > 400 THEN expected ELSE 400
    IN  200 * (observed - expected) \in -tolerance .. tolerance

\* derive_qa_status: unknown evidence takes precedence over a failed check.
\* Counts of triangles and materials are in range: the generator asserts that,
\* and nothing is added to them later, as it is to the objects.
DerivedStatus(measured, checks) ==
    IF \/ measured.wall = None \/ measured.feature = None
    THEN "needs_review"
    ELSE IF /\ \A c \in DOMAIN checks : checks[c]
            /\ Within(measured.size, measured.glb)
            /\ Within(measured.size, measured.stl)
            /\ Within(measured.asked, measured.size)
            /\ measured.objects \in 1 .. ObjectLimit
            /\ measured.edges = 0 /\ measured.flat = 0 /\ measured.shells = 1
            /\ measured.wall >= WallLimit
            /\ measured.feature >= FeatureLimit
         THEN "passed" ELSE "failed"

\* _quality_report, from the live scene and what the verifier read.
QualityReport ==
    LET live == Topology[scene.shell]
        stl  == Topology[file.stl.shell]
        measured ==
            [asked |-> scene.asked, size |-> scene.size,
             glb |-> file.glb.size, stl |-> file.stl.size,
             objects |-> scene.objects + Rig,
             edges |-> Max({live.edges, stl.edges}),
             flat |-> Max({live.flat, stl.flat}),
             wall |-> MinimumWall(scene.rays), feature |-> MinimumFeature(scene.parts),
             shells |-> stl.shells]
        checks ==
            [manifold |-> measured.edges = 0 /\ live.vertices = 0 /\ stl.vertices = 0,
             finite |-> live.finite /\ stl.finite,
             outward |-> live.outward /\ stl.outward,
             positive |-> live.positive /\ stl.positive,
             height |-> Within(scene.asked, scene.size)]
    IN  [status |-> DerivedStatus(measured, checks), measured |-> measured, checks |-> checks]

ReportAccepts_Unread(r) == r.status \in {"passed", "failed", "needs_review"}

\* QualityReport.from_mapping: the status is the one that the evidence derives.
ReportAccepts(r) == r.status = DerivedStatus(r.measured, r.checks)

\* The summary of the report in the manifest, and the one that
\* BuildManifest.from_mapping accepts.
Summary(r) ==
    [status |-> r.status, manifold |-> r.checks.manifold, positive |-> r.checks.positive,
     edges |-> r.measured.edges, shells |-> r.measured.shells,
     wall |-> r.measured.wall, feature |-> r.measured.feature]

ManifestAccepts(summary) ==
    /\ summary.status = "passed" /\ summary.manifold /\ summary.positive
    /\ summary.edges = 0 /\ summary.shells = 1
    /\ summary.wall >= WallLimit /\ summary.feature >= FeatureLimit

Reasons_ChecksAndBounds(r) ==
    IF r.status = "needs_review"
    THEN {m \in {"wall", "feature"} : r.measured[m] = None}
    ELSE {c \in DOMAIN r.checks : ~r.checks[c]}
         \union {m \in {"glb", "stl"} : ~Within(r.measured.size, r.measured[m])}

\* geometry_qa_failure_summary: all that a user is told of a private report.
Reasons(r) ==
    IF r.status = "needs_review"
    THEN {m \in {"wall", "feature"} : r.measured[m] = None}
    ELSE {c \in DOMAIN r.checks : ~r.checks[c]}
         \union {m \in {"glb", "stl"} : ~Within(r.measured.size, r.measured[m])}
         \union {m \in {"objects"} : r.measured.objects \notin 1 .. ObjectLimit}
         \union {m \in {"edges", "flat"} : r.measured[m] # 0}
         \union {m \in {"shells"} : r.measured.shells # 1}
         \union {m \in {"wall"} : r.measured.wall < WallLimit}
         \union {m \in {"feature"} : r.measured.feature < FeatureLimit}

-------------------------------------------------------------------------------
(* runner.build *)

NoFile == [blend |-> None, glb |-> None, stl |-> None]

Init ==
    /\ pc = "start"
    /\ scene \in Scenes
    /\ file = NoFile /\ report = None /\ output = None /\ edits = 0
    /\ exit = None /\ status = "running" /\ verdict = None

\* Exit codes as the CLI hands them on (build_artifacts).
CliExit(code) == IF code \in {2, 3, 4, 10, 11, 12, 124} \union 128 .. 255 THEN code ELSE 12

Exits(code) ==
    /\ pc' = "exited"
    /\ exit' = CliExit(code)
    /\ UNCHANGED <<scene, file, report, output, edits, status, verdict>>

\* The request cannot be read (4) or is rejected (3), the stage cannot be made
\* (4), Blender is not the one that was expected (10), or its provenance is
\* unknown (12).
StartFails == pc = "start" /\ \E code \in {3, 4, 10, 12} : Exits(code)

Start ==
    /\ pc = "start"
    /\ pc' = "generate"
    /\ UNCHANGED <<scene, file, report, output, edits, exit, status, verdict>>

\* Generation fails, exceeds the limits of _assert_scene_limits, or
\* derive_printable_shell finds the height of the shell off (exit 10); the stage
\* may also be unwritable (exit 4).
GenerationFails == pc = "generate" /\ \E code \in {4, 10} : Exits(code)

\* _assert_scene_limits counts the objects before the rig is added.
Generate ==
    /\ pc = "generate"
    /\ Within(scene.asked, scene.size)
    /\ scene.objects <= ObjectLimit
    /\ pc' = "export"
    /\ UNCHANGED <<scene, file, report, output, edits, exit, status, verdict>>

Whole ==
    [blend |-> [size |-> scene.size, display |-> scene.display,
                objects |-> scene.objects + Rig, shell |-> scene.shell, flaws |-> {}],
     glb   |-> [size |-> scene.display, flaws |-> {}],
     stl   |-> [raw |-> scene.size, size |-> scene.size, shell |-> scene.shell,
                framed |-> TRUE, flaws |-> {}]]

\* The files as a fresh process will read them.  The exported formats are off by
\* some difference, or the STL is damaged, or one file has a flaw of any kind.
Export ==
    /\ pc = "export"
    /\ \/ \E d, e, f \in Drifts :
              file' = [Whole EXCEPT !.glb.size = @ + d, !.stl.raw = @ + e, !.stl.size = @ + f]
       \/ \E s \in Shells, framed \in BOOLEAN :
              file' = [Whole EXCEPT !.stl.shell = s, !.stl.framed = framed]
       \/ \E n \in Models : \E w \in Flaws[n] : file' = [Whole EXCEPT ![n].flaws = {w}]
    /\ pc' = "inspect"
    /\ UNCHANGED <<scene, report, output, edits, exit, status, verdict>>

\* inspect_binary_stl: framing, at least four triangles, finite coordinates.
StlIsFramed(stl) ==
    stl.framed /\ Cardinality(stl.shell.faces) >= 4 /\ stl.shell.finite

Inspect ==
    /\ pc = "inspect"
    /\ IF StlIsFramed(file.stl)
       THEN /\ pc' = "verify_blend"
            /\ UNCHANGED <<scene, file, report, output, edits, exit, status, verdict>>
       ELSE Exits(10)

\* One check of the verifier process: the next one, or exit 11.
Checks(here, fits, next) ==
    /\ pc = here
    /\ IF fits
       THEN /\ pc' = next
            /\ UNCHANGED <<scene, file, report, output, edits, exit, status, verdict>>
       ELSE Exits(11)

\* _verify_saved_blend, _verify_glb and _verify_stl against the live scene.
BlendFits ==
    /\ file.blend.flaws \cap BuildSees.blend = {}
    /\ Watertight(file.blend.shell)
    /\ Within(scene.size, file.blend.size)

GlbFits ==
    /\ file.glb.flaws \cap BuildSees.glb = {}
    /\ Within(scene.size, file.glb.size)

StlFits ==
    /\ StlIsFramed(file.stl)
    /\ Within(scene.size, file.stl.raw)
    /\ file.stl.flaws \cap BuildSees.stl = {}
    /\ Watertight(file.stl.shell)
    /\ Within(scene.size, file.stl.size)

VerifyBlend == Checks("verify_blend", BlendFits, "verify_glb")
VerifyGlb == Checks("verify_glb", GlbFits, "verify_stl")
VerifyStl == Checks("verify_stl", StlFits, "report")

\* The verifier does not start (11) or does not end in time (124); Blender
\* itself dies (128 and above).
VerifierFails ==
    /\ pc \in {"verify_blend", "verify_glb", "verify_stl"}
    /\ \E code \in {11, 124, 139} : Exits(code)

Report ==
    /\ pc = "report"
    /\ report' = QualityReport
    /\ pc' = IF report'.status = "passed" THEN "publish" ELSE "refuse"
    /\ UNCHANGED <<scene, file, output, edits, exit, status, verdict>>

\* The diagnostic gives the Reasons; the exit code is 11 for both kinds of
\* report that do not pass.
Refuse == pc = "refuse" /\ Exits(11)

\* A hash stands for what it was computed from.
Entries == [blend |-> file.blend, glb |-> file.glb, stl |-> file.stl, qa |-> report]

Manifest ==
    [asked |-> scene.asked, size |-> report.measured.size,
     qa |-> Summary(report), entries |-> Entries]

\* The manifest is written last, the stage is renamed to the output.
Publish ==
    /\ pc = "publish"
    /\ IF ManifestAccepts(Summary(report))
       THEN /\ output' = Manifest
            /\ exit' = 0
            /\ pc' = "exited"
            /\ UNCHANGED <<scene, file, report, edits, status, verdict>>
       ELSE Exits(12)

PublicationFails == pc = "publish" /\ \E code \in {4, 12} : Exits(code)

-------------------------------------------------------------------------------
(* What the service makes of the exit code. *)

\* exit_policy: the status of the attempt.
AttemptStatus(code) ==
    CASE code = 11  -> "needs_review"
      [] code = 124 -> "timed_out"
      [] OTHER      -> "failed"

\* complete_attempt of the last attempt, or its publication.
Settle ==
    /\ pc = "exited"
    /\ status' = IF exit = 0 THEN "succeeded"
                 ELSE IF AttemptStatus(exit) = "needs_review" THEN "needs_review"
                 ELSE "failed"
    /\ pc' = IF output # None THEN "verify_tree" ELSE "done"
    /\ UNCHANGED <<scene, file, report, output, edits, exit, verdict>>

-------------------------------------------------------------------------------
(* The published tree from now on, and published_verifier.verify. *)

\* A model or the report is damaged, edited, or that of another build; the
\* manifest is left, or is made to list the files that are there, or is made
\* anew, perhaps for another request.
Alter ==
    /\ pc = "verify_tree" /\ edits < MaxEdits
    /\ edits' = edits + 1
    /\ \/ /\ \E n \in Models : \E f \in Foreign[n] : file' = [file EXCEPT ![n] = f]
          /\ UNCHANGED <<report, output>>
       \/ report' \in Foreign.qa /\ UNCHANGED <<file, output>>
       \/ output' = [output EXCEPT !.entries = Entries] /\ UNCHANGED <<file, report>>
       \/ /\ \E a \in Foreign.asked : output' = [Manifest EXCEPT !.asked = a]
          /\ UNCHANGED <<file, report>>
    /\ UNCHANGED <<pc, scene, exit, status, verdict>>

\* _validate_tree of the CLI and _verify_tree: the manifest is one that passed,
\* of this request, and lists the files that are there; the report is canonical,
\* passed and agrees with it.
TreeAgrees ==
    /\ ManifestAccepts(output.qa)
    /\ output.asked = scene.asked
    /\ output.entries = Entries
    /\ report.status = "passed"
    /\ ReportAccepts(report)
    /\ output.size = report.measured.size
    /\ \A k \in {"status", "manifold", "edges", "shells", "positive"} :
          output.qa[k] = Summary(report)[k]

SavedFits_DisplayAsPrintable ==
    /\ file.blend.flaws \cap VerifySees.blend = {}
    /\ file.blend.objects \in 1 .. ObjectLimit
    /\ Watertight(file.blend.shell)
    /\ Within(report.measured.size, file.blend.size)
    /\ Within(output.size, file.blend.size)
    /\ Within(output.size, file.blend.display)
    /\ Within(scene.asked, file.blend.size)

\* _verify_blend: the inventory of the saved scene, its shell, and the extent of
\* its display meshes, which build never compares with anything.
SavedFits ==
    /\ file.blend.flaws \cap VerifySees.blend = {}
    /\ file.blend.objects \in 1 .. ObjectLimit
    /\ Watertight(file.blend.shell)
    /\ Within(report.measured.size, file.blend.size)
    /\ Within(output.size, file.blend.size)
    /\ Within(report.measured.glb, file.blend.display)
    /\ Within(scene.asked, file.blend.size)

\* _verify_glb and _verify_stl against the report, and the two readings of the
\* STL against each other.
ImportsFit ==
    /\ file.glb.flaws \cap VerifySees.glb = {}
    /\ Within(report.measured.glb, file.glb.size)
    /\ StlIsFramed(file.stl)
    /\ Within(report.measured.stl, file.stl.raw)
    /\ file.stl.flaws \cap VerifySees.stl = {}
    /\ Watertight(file.stl.shell)
    /\ Within(report.measured.stl, file.stl.size)
    /\ Within(file.stl.raw, file.stl.size)

\* What the `verify' command makes of the exit code of the verifier.
VerifyExit(code) == IF code \in {0, 124} THEN code ELSE 11

VerifyPublished ==
    /\ pc = "verify_tree"
    /\ verdict' = VerifyExit(IF TreeAgrees /\ SavedFits /\ ImportsFit THEN 0 ELSE 11)
    /\ pc' = "done"
    /\ UNCHANGED <<scene, file, report, output, edits, exit, status>>

\* The manifest names another Blender, source revision or image than the one
\* that verifies, or `verify' is called with another request (11), or its own
\* source revision cannot be computed (12): nothing else is judged.
OtherProvenance ==
    /\ pc = "verify_tree"
    /\ verdict' \in {11, 12}
    /\ pc' = "unjudged"
    /\ UNCHANGED <<scene, file, report, output, edits, exit, status>>

PublishedVerifierDies ==
    /\ pc = "verify_tree"
    /\ \/ \E code \in {124, 139} : verdict' = VerifyExit(code)
       \/ verdict' = 4         \* a file or its scratch directory cannot be used
    /\ pc' = "unjudged"
    /\ UNCHANGED <<scene, file, report, output, edits, exit, status>>

-------------------------------------------------------------------------------

Next ==
    \/ Start \/ StartFails \/ GenerationFails \/ Generate \/ Export \/ Inspect
    \/ VerifyBlend \/ VerifyGlb \/ VerifyStl \/ VerifierFails
    \/ Report \/ Refuse \/ Publish \/ PublicationFails
    \/ Settle \/ Alter \/ VerifyPublished \/ OtherProvenance \/ PublishedVerifierDies

Spec == Init /\ [][Next]_vars

-------------------------------------------------------------------------------

\* A closed surface, said without edges or fans: around every vertex the
\* opposite sides of its triangles form one ring, and no part of the surface is
\* apart from the rest.
Solid(faces) ==
    LET vertices == UNION faces
        sides(v) == {f \ {v} : f \in {g \in faces : v \in g}}
        oneRing(v) ==
            /\ \A w \in UNION sides(v) : Cardinality({e \in sides(v) : w \in e}) = 2
            /\ \A W \in (SUBSET UNION sides(v)) \ {{}, UNION sides(v)} :
                  \E e \in sides(v) : e \cap W # {} /\ ~(e \subseteq W)
    IN  /\ \A v \in vertices : oneRing(v)
        /\ \A W \in (SUBSET vertices) \ {{}, vertices} :
              \E f \in faces : f \cap W # {} /\ ~(f \subseteq W)

SolidShell(s) ==
    /\ Solid(s.faces)
    /\ s.flat = 0 /\ s.finite /\ s.agrees /\ s.volume > 0

\* A height that is off by at most so many per mille of the request, or of 40 mm.
OffByAtMost(permille, height) ==
    LET limit == permille * (IF scene.asked > 400 THEN scene.asked ELSE 400)
    IN  1000 * (height - scene.asked) \in -limit .. limit

\* Whatever goes wrong between the scene and the files, a published STL holds
\* one closed solid, and no ray through the walls or parts of the scene missed
\* or met one that could be thinner than the limit.  The printed height and that
\* of the GLB are not compared with the request but with a scene that was: the
\* tolerance of 0.5 % adds up, to no more than 1.1 %.
PublishedIsSound ==
    output # None /\ edits = 0 =>
        /\ SolidShell(file.stl.shell)
        /\ \A h \in {file.stl.raw, file.stl.size, file.glb.size} : OffByAtMost(11, h)
        /\ \A r \in scene.rays : /\ r.hit # "nothing"
                                 /\ r.hit = "opposing" => r.chord - 2 * Voxel >= WallLimit
        /\ \A n \in UNION {p.widths : p \in scene.parts} :
              n # None /\ n - 2 * Voxel >= FeatureLimit

\* What a tree that `build' published may still have against it: a flaw its
\* verifier does not look for, a GLB that is not as high as the display meshes
\* it was made of, or an STL whose two readings are not compared: the triangles
\* as written, the mesh as imported.
LeftToVerify ==
    \/ \E n \in Models : file[n].flaws # {}
    \/ ~Within(file.glb.size, file.blend.display)
    \/ ~Within(file.stl.size, file.stl.raw)
    \/ ~Within(file.stl.raw, file.stl.size)

\* The two verifications, written apart and comparing different things, meet:
\* `verify' rejects a tree that `build' published and nobody touched for what
\* build leaves to it, for nothing else, and always for that.
PublishedVerifies ==
    pc = "done" /\ output # None /\ edits = 0 => (verdict = 11 <=> LeftToVerify)

\* Whatever was damaged, edited or mixed up in a published tree, a tree that
\* `verify' accepts consists of the files its manifest lists, holds one closed
\* solid in the saved scene and in the STL, and every height in it is that of
\* the request up to the four tolerances that lie between them, of 0.5 % each.
VerifiedIsSound ==
    verdict = 0 =>
        /\ output.entries = Entries /\ \A n \in Models : file[n].flaws \cap VerifySees[n] = {}
        /\ SolidShell(file.stl.shell) /\ SolidShell(file.blend.shell)
        /\ \A h \in {file.blend.size, file.blend.display, file.glb.size,
                     file.stl.raw, file.stl.size} : OffByAtMost(21, h)

\* derive_qa_status and the summary that a user sees instead of the private
\* report list the same demands apart from each other: no build whose report was
\* made ends with a review that is wanted for no reason the summary knows.
RefusalIsExplained ==
    status = "needs_review" /\ report # None => Reasons(report) # {}

===============================================================================
