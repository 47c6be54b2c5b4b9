---------------------------- MODULE QualityProofs ----------------------------
(***************************************************************************)
(* Proofs about Quality, for every set of shells and scenes, every voxel,  *)
(* however far an export is off and whatever is put into a published tree  *)
(* later: the four invariants that TLC finds to hold.                      *)
(*                                                                         *)
(* The first part is about the topology of a shell and needs no state: a   *)
(* mesh that is one class of faces, whose edges lie between two faces and  *)
(* whose vertices have one fan is Solid.  The classes are a fold over a    *)
(* finite set of edges; what it computes follows by well-founded induction *)
(* over the subsets of that set, said with sets of subsets instead of a    *)
(* predicate.                                                              *)
(***************************************************************************)
EXTENDS Quality, FiniteSetTheorems, WellFoundedInduction, TLAPS

-----------------------------------------------------------------------------
(* Classes of faces: the fold of Linked *)

Pick(t) == CHOOSE x \in t : TRUE

\* The classes that an edge joins become one.
Join(e, parts) ==
  LET joined == {P \in parts : \E f \in P : e \subseteq f}
  IN  (parts \ joined) \union {UNION joined}

\* g is the recursive function that defines Linked.
Links(faces, g, E) ==
  g = [t \in SUBSET E |->
        IF t = {} THEN {{f} : f \in faces} ELSE Join(Pick(t), g[t \ {Pick(t)}])]

LEMMA PickIn == \A t : t # {} => Pick(t) \in t
BY DEF Pick

LEMMA SubsetInduction ==
  ASSUME NEW S, IsFiniteSet(S), NEW Good \in SUBSET (SUBSET S),
         \A T \in SUBSET S : (\A U \in SUBSET T : U # T => U \in Good) => T \in Good
  PROVE  \A T \in SUBSET S : T \in Good
<1> DEFINE Bad == (SUBSET S) \ Good
<1> SUFFICES ASSUME Bad # {} PROVE FALSE
  OBVIOUS
<1>1. IsWellFoundedOn(StrictSubsetOrdering(S), FiniteSubsetsOf(S))
  BY FS_StrictSubsetOrderingWellFounded
<1>2. Bad \subseteq FiniteSubsetsOf(S)
  BY FS_Subset DEF FiniteSubsetsOf
<1>3. PICK T \in Bad : \A U \in Bad : ~(<<U, T>> \in StrictSubsetOrdering(S))
  <2> HIDE DEF Bad
  <2> QED
    BY <1>1, <1>2, WFMin
<1>4. \A U \in SUBSET T : U # T => <<U, T>> \in StrictSubsetOrdering(S)
  BY DEF StrictSubsetOrdering
<1>5. ASSUME NEW U \in SUBSET T, U # T PROVE U \in Good
  <2>1. U \in SUBSET S
    OBVIOUS
  <2>2. U \notin Bad
    BY <1>3, <1>4, <1>5
  <2> QED
    BY <2>1, <2>2
<1> QED
  BY <1>5

\* Two such functions agree where both are defined.
LEMMA LinksAgree ==
  ASSUME NEW faces, NEW S, NEW T, IsFiniteSet(T), T \subseteq S,
         NEW g, NEW h, Links(faces, g, S), Links(faces, h, T)
  PROVE  \A U \in SUBSET T : g[U] = h[U]
<1> DEFINE Good == {U \in SUBSET T : g[U] = h[U]}
<1>1. ASSUME NEW U \in SUBSET T, \A V \in SUBSET U : V # U => V \in Good
      PROVE  U \in Good
  <2>1. CASE U = {}
    BY <2>1 DEF Links
  <2>2. CASE U # {}
    <3>1. Pick(U) \in U
      BY <2>2, PickIn
    <3>2. U \ {Pick(U)} \in Good
      BY <1>1, <3>1
    <3>3. g[U] = Join(Pick(U), g[U \ {Pick(U)}])
      BY <2>2 DEF Links
    <3>4. h[U] = Join(Pick(U), h[U \ {Pick(U)}])
      BY <2>2 DEF Links
    <3> QED
      BY <3>2, <3>3, <3>4
  <2> QED
    BY <2>1, <2>2
<1>2. Good \in SUBSET (SUBSET T)
  OBVIOUS
<1>3. \A U \in SUBSET T : U \in Good
  <2> HIDE DEF Good
  <2> QED
    BY <1>1, <1>2, SubsetInduction
<1> QED
  BY <1>3

Classes(faces, E) == (CHOOSE g : Links(faces, g, E))[E]

LEMMA LinkedIsClasses ==
  ASSUME NEW faces, NEW E PROVE Linked(faces, E) = Classes(faces, E)
BY DEF Linked, FoldSet, MapThenFoldSet, Links, Join, Pick, Classes

LEMMA ClassesAre ==
  ASSUME NEW faces, NEW S, IsFiniteSet(S), NEW T \in SUBSET S, NEW g, Links(faces, g, S),
         \E h : Links(faces, h, T)
  PROVE  Classes(faces, T) = g[T]
<1> DEFINE h == CHOOSE f : Links(faces, f, T)
<1>1. Links(faces, h, T)
  OBVIOUS
<1>2. IsFiniteSet(T)
  BY FS_Subset
<1> HIDE DEF h
<1>3. g[T] = h[T]
  BY <1>1, <1>2, LinksAgree
<1> QED
  BY <1>3 DEF Classes, h

LEMMA LinksExist ==
  ASSUME NEW faces, NEW S, IsFiniteSet(S) PROVE \A T \in SUBSET S : \E g : Links(faces, g, T)
<1> DEFINE Good == {T \in SUBSET S : \E g : Links(faces, g, T)}
<1>1. ASSUME NEW T \in SUBSET S, \A U \in SUBSET T : U # T => U \in Good
      PROVE  T \in Good
  <2> DEFINE g == [t \in SUBSET T |-> IF t = {} THEN {{f} : f \in faces}
                                      ELSE Join(Pick(t), Classes(faces, t \ {Pick(t)}))]
  <2>1. ASSUME NEW t \in SUBSET T, t # {}
        PROVE  g[t \ {Pick(t)}] = Classes(faces, t \ {Pick(t)})
    <3> DEFINE U == t \ {Pick(t)}
    <3>1. U \in SUBSET T /\ U # T
      BY <2>1, PickIn
    <3>2. \E h : Links(faces, h, U)
      BY <1>1, <3>1
    <3>3. IsFiniteSet(U)
      BY <3>1, FS_Subset
    <3>4. PICK h : Links(faces, h, U)
      BY <3>2
    <3>5. Classes(faces, U) = h[U]
      BY <3>2, <3>3, <3>4, ClassesAre
    <3>6. CASE U = {}
      BY <3>1, <3>4, <3>5, <3>6 DEF Links
    <3>7. CASE U # {}
      <4> DEFINE V == U \ {Pick(U)}
      <4>1. V \in SUBSET U /\ V \in SUBSET T /\ V # T
        BY <3>1
      <4>2. \E f : Links(faces, f, V)
        BY <1>1, <4>1
      <4>3. Classes(faces, V) = h[V]
        BY <3>3, <3>4, <4>1, <4>2, ClassesAre
      <4>4. h[U] = Join(Pick(U), h[V])
        BY <3>4, <3>7 DEF Links
      <4>5. g[U] = Join(Pick(U), Classes(faces, V))
        BY <3>1, <3>7
      <4> QED
        BY <3>5, <4>3, <4>4, <4>5
    <3> QED
      BY <3>6, <3>7
  <2>2. g = [t \in SUBSET T |-> IF t = {} THEN {{f} : f \in faces}
                                ELSE Join(Pick(t), g[t \ {Pick(t)}])]
    BY <2>1
  <2>3. Links(faces, g, T)
    BY <2>2 DEF Links
  <2> HIDE DEF g
  <2> QED
    BY <2>3
<1>2. Good \in SUBSET (SUBSET S)
  OBVIOUS
<1>3. \A T \in SUBSET S : T \in Good
  <2> HIDE DEF Good
  <2> QED
    BY <1>1, <1>2, SubsetInduction
<1> QED
  BY <1>3

-----------------------------------------------------------------------------
(* What a class of faces is *)

\* No edge lies in a face of A and in one outside.
Respects(faces, E, A) ==
  \A e \in E : (\A f \in faces : e \subseteq f => f \in A)
               \/ (\A f \in faces : e \subseteq f => f \notin A)

\* The classes are finitely many, cover the faces and stay on one side of A.
OneSided(faces, A, parts) ==
  /\ IsFiniteSet(parts) /\ UNION parts = faces
  /\ \A P \in parts : P \subseteq A \/ P \cap A = {}

LEMMA JoinOneSided ==
  ASSUME NEW faces, NEW A, NEW parts, OneSided(faces, A, parts), NEW e,
         Respects(faces, {e}, A)
  PROVE  OneSided(faces, A, Join(e, parts))
<1> DEFINE joined == {P \in parts : \E f \in P : e \subseteq f}
           result == (parts \ joined) \union {UNION joined}
<1>1. Join(e, parts) = result
  BY DEF Join
<1>2. IsFiniteSet(result)
  <2>1. IsFiniteSet(parts \ joined)
    BY FS_Subset DEF OneSided
  <2> QED
    BY <2>1, FS_AddElement
<1>3. UNION result = faces
  BY DEF OneSided
<1>4. ASSUME NEW P \in joined PROVE \E f \in P : e \subseteq f /\ f \in faces
  BY DEF OneSided
<1>5. CASE \A f \in faces : e \subseteq f => f \in A
  <2>1. ASSUME NEW P \in joined PROVE P \subseteq A
    BY <1>4, <1>5 DEF OneSided
  <2>2. UNION joined \subseteq A
    BY <2>1
  <2> QED
    BY <1>1, <1>2, <1>3, <2>2 DEF OneSided
<1>6. CASE \A f \in faces : e \subseteq f => f \notin A
  <2>1. ASSUME NEW P \in joined PROVE P \cap A = {}
    BY <1>4, <1>6 DEF OneSided
  <2>2. (UNION joined) \cap A = {}
    BY <2>1
  <2> QED
    BY <1>1, <1>2, <1>3, <2>2 DEF OneSided
<1> QED
  BY <1>5, <1>6 DEF Respects

LEMMA LinkedOneSided ==
  ASSUME NEW faces, IsFiniteSet(faces), NEW E, IsFiniteSet(E), NEW A, Respects(faces, E, A)
  PROVE  OneSided(faces, A, Linked(faces, E))
<1>1. PICK g : Links(faces, g, E)
  BY LinksExist
<1>2. Linked(faces, E) = g[E]
  BY <1>1, LinkedIsClasses, ClassesAre
<1> DEFINE Good == {T \in SUBSET E : OneSided(faces, A, g[T])}
<1>3. ASSUME NEW T \in SUBSET E, \A U \in SUBSET T : U # T => U \in Good
      PROVE  T \in Good
  <2>1. CASE T = {}
    <3>1. g[T] = {{f} : f \in faces}
      BY <1>1, <2>1 DEF Links
    <3> DEFINE single == [f \in faces |-> {f}]
               singles == {{f} : f \in faces}
    <3>2. single \in Surjection(faces, singles)
      BY DEF Surjection
    <3>3. IsFiniteSet(singles)
      <4> HIDE DEF single, singles
      <4> QED
        BY <3>2, FS_Surjection
    <3>4. UNION singles = faces
      OBVIOUS
    <3>5. \A P \in singles : P \subseteq A \/ P \cap A = {}
      OBVIOUS
    <3> QED
      BY <3>1, <3>3, <3>4, <3>5 DEF OneSided
  <2>2. CASE T # {}
    <3>1. Pick(T) \in T /\ Pick(T) \in E
      BY <2>2, PickIn
    <3>2. T \ {Pick(T)} \in Good
      BY <1>3, <3>1
    <3>3. g[T] = Join(Pick(T), g[T \ {Pick(T)}])
      BY <1>1, <2>2 DEF Links
    <3>4. Respects(faces, {Pick(T)}, A)
      BY <3>1 DEF Respects
    <3> QED
      BY <3>2, <3>3, <3>4, JoinOneSided
  <2> QED
    BY <2>1, <2>2
<1>4. Good \in SUBSET (SUBSET E)
  OBVIOUS
<1>5. \A T \in SUBSET E : T \in Good
  <2> HIDE DEF Good
  <2> QED
    BY <1>3, <1>4, SubsetInduction
<1> QED
  BY <1>2, <1>5

\* A mesh that is one class lies on one side of whatever no edge crosses.
LEMMA OneClass ==
  ASSUME NEW faces, IsFiniteSet(faces), NEW E, IsFiniteSet(E), NEW A, Respects(faces, E, A),
         Cardinality(Linked(faces, E)) = 1
  PROVE  faces \subseteq A \/ faces \cap A = {}
<1>1. OneSided(faces, A, Linked(faces, E))
  BY LinkedOneSided
<1>2. PICK P : Linked(faces, E) = {P}
  BY <1>1, FS_Singleton DEF OneSided
<1>3. faces = P
  BY <1>1, <1>2 DEF OneSided
<1> QED
  BY <1>1, <1>2, <1>3 DEF OneSided

-----------------------------------------------------------------------------
(* Edges *)

FiniteMesh(faces) == IsFiniteSet(faces) /\ \A f \in faces : IsFiniteSet(f)

LEMMA PairCounts ==
  ASSUME NEW v, NEW w, v # w PROVE IsFiniteSet({v, w}) /\ Cardinality({v, w}) = 2
<1>1. IsFiniteSet({v}) /\ Cardinality({v}) = 1
  BY FS_Singleton
<1>2. {v} \cup {w} = {v, w} /\ w \notin {v}
  OBVIOUS
<1> QED
  BY <1>1, <1>2, FS_AddElement

LEMMA PairIs ==
  ASSUME NEW e, IsFiniteSet(e), Cardinality(e) = 2, NEW v \in e
  PROVE  \E w : w # v /\ e = {v, w}
<1>1. IsFiniteSet(e \ {v}) /\ Cardinality(e \ {v}) = 1
  BY FS_RemoveElement
<1>2. PICK w : e \ {v} = {w}
  BY <1>1, FS_Singleton
<1> QED
  BY <1>2

LEMMA EdgeIs ==
  ASSUME NEW faces, FiniteMesh(faces), NEW e \in Edges(faces)
  PROVE  /\ IsFiniteSet(e) /\ Cardinality(e) = 2 /\ e # {}
         /\ \E f \in faces : e \subseteq f
<1>1. PICK f \in faces : e \in SUBSET f /\ Cardinality(e) = 2
  BY DEF Edges
<1>2. IsFiniteSet(e)
  BY <1>1, FS_Subset DEF FiniteMesh
<1>3. e # {}
  BY <1>1, FS_EmptySet
<1> QED
  BY <1>1, <1>2, <1>3

LEMMA PairIsEdge ==
  ASSUME NEW faces, NEW f \in faces, NEW v \in f, NEW w \in f, v # w
  PROVE  {v, w} \in Edges(faces)
BY PairCounts DEF Edges

LEMMA EdgesFinite ==
  ASSUME NEW faces, FiniteMesh(faces) PROVE IsFiniteSet(Edges(faces))
<1>1. \A f \in faces : IsFiniteSet(f)
  BY DEF FiniteMesh
<1>2. IsFiniteSet(UNION faces)
  BY <1>1, FS_UNION DEF FiniteMesh
<1>3. IsFiniteSet(SUBSET (UNION faces))
  BY <1>2, FS_SUBSET
<1>4. Edges(faces) \subseteq SUBSET (UNION faces)
  BY DEF Edges
<1> QED
  BY <1>3, <1>4, FS_Subset

-----------------------------------------------------------------------------
(* A watertight mesh is solid *)

\* No part of a mesh that is one shell is apart from the rest.
LEMMA OneShellHangsTogether ==
  ASSUME NEW faces, FiniteMesh(faces), ConnectedShells(faces) = 1,
         NEW W \in SUBSET (UNION faces), W # {}, W # UNION faces
  PROVE  \E f \in faces : f \cap W # {} /\ ~(f \subseteq W)
<1> SUFFICES ASSUME \A f \in faces : f \cap W = {} \/ f \subseteq W PROVE FALSE
  OBVIOUS
<1> DEFINE A == {f \in faces : f \cap W # {}}
<1>1. Respects(faces, Edges(faces), A)
  <2> SUFFICES ASSUME NEW e \in Edges(faces)
               PROVE  (\A f \in faces : e \subseteq f => f \in A)
                      \/ (\A f \in faces : e \subseteq f => f \notin A)
    BY DEF Respects
  <2>1. PICK v : v \in e
    BY EdgeIs
  <2> QED
    BY <2>1
<1>2. faces \subseteq A \/ faces \cap A = {}
  <2> HIDE DEF A
  <2> QED
    BY <1>1, EdgesFinite, OneClass DEF FiniteMesh, ConnectedShells
<1> QED
  BY <1>2

\* The sides of the faces around a vertex, opposite to it.
Sides(faces, v) == {f \ {v} : f \in {g \in faces : v \in g}}

\* The sides around a vertex with one fan form one ring.
LEMMA OneFanHangsTogether ==
  ASSUME NEW faces, FiniteMesh(faces), NEW v \in UNION faces, v \notin NonManifoldVertices(faces),
         NEW W \in SUBSET (UNION Sides(faces, v)), W # {}, W # UNION Sides(faces, v)
  PROVE  \E e \in Sides(faces, v) : e \cap W # {} /\ ~(e \subseteq W)
<1> SUFFICES ASSUME \A e \in Sides(faces, v) : e \cap W = {} \/ e \subseteq W PROVE FALSE
  OBVIOUS
<1> DEFINE fan == {f \in faces : v \in f}
           E == {e \in Edges(fan) : v \in e}
           A == {f \in fan : (f \ {v}) \cap W # {}}
<1>1. FiniteMesh(fan)
  BY FS_Subset DEF FiniteMesh
<1>2. Cardinality(Linked(fan, E)) = 1
  BY DEF NonManifoldVertices
<1>3. IsFiniteSet(E)
  BY <1>1, EdgesFinite, FS_Subset
<1>4. \A f \in fan : f \ {v} \in Sides(faces, v)
  BY DEF Sides
<1>5. Respects(fan, E, A)
  <2> SUFFICES ASSUME NEW e \in E
               PROVE  (\A f \in fan : e \subseteq f => f \in A)
                      \/ (\A f \in fan : e \subseteq f => f \notin A)
    BY DEF Respects
  <2>1. e \in Edges(fan) /\ v \in e
    OBVIOUS
  <2> HIDE DEF fan
  <2>2. IsFiniteSet(e) /\ Cardinality(e) = 2
    BY <1>1, <2>1, EdgeIs
  <2>3. PICK w : w # v /\ e = {v, w}
    <3> HIDE DEF E, A
    <3> QED
      BY ONLY <2>1, <2>2, PairIs
  <2> USE DEF fan
  <2>4. CASE w \in W
    BY <2>3, <2>4
  <2>5. CASE w \notin W
    <3>1. ASSUME NEW f \in fan, e \subseteq f PROVE f \notin A
      <4>1. w \in f \ {v} /\ ~(f \ {v} \subseteq W)
        BY <2>3, <2>5, <3>1
      <4> QED
        BY <1>4, <4>1
    <3> QED
      BY <3>1
  <2> QED
    BY <2>4, <2>5
<1>6. fan \subseteq A \/ fan \cap A = {}
  <2> HIDE DEF fan, E, A
  <2> QED
    BY <1>1, <1>2, <1>3, <1>5, OneClass DEF FiniteMesh
<1>7. PICK f \in fan : (f \ {v}) \cap W # {}
  BY DEF Sides
<1>8. \A g \in fan : g \ {v} \subseteq W
  BY <1>4, <1>6, <1>7
<1> QED
  BY <1>8 DEF Sides

\* An edge between two faces: a vertex opposite lies on two sides.
LEMMA TwoSidesMeet ==
  ASSUME NEW faces, FiniteMesh(faces), NonManifoldEdges(faces) = {}, NEW v,
         NEW w \in UNION Sides(faces, v)
  PROVE  Cardinality({e \in Sides(faces, v) : w \in e}) = 2
<1> DEFINE F == Around(faces, {v, w})
           S == {e \in Sides(faces, v) : w \in e}
           b == [f \in F |-> f \ {v}]
<1>1. PICK f \in faces : v \in f /\ w \in f /\ w # v
  BY DEF Sides
<1>2. {v, w} \in Edges(faces)
  BY <1>1, PairIsEdge
<1>3. Cardinality(F) = 2
  BY <1>2 DEF NonManifoldEdges
<1>4. IsFiniteSet(F)
  BY FS_Subset DEF FiniteMesh, Around
<1>5. F = {g \in faces : v \in g /\ w \in g}
  BY DEF Around
<1>6. b \in Injection(F, S)
  <2>1. \A g \in F : g \ {v} \in S
    BY <1>1, <1>5 DEF Sides
  <2>2. \A g, h \in F : g \ {v} = h \ {v} => g = h
    <3> SUFFICES ASSUME NEW g \in F, NEW h \in F, g \ {v} = h \ {v} PROVE g = h
      OBVIOUS
    <3>1. g = (g \ {v}) \cup {v} /\ h = (h \ {v}) \cup {v}
      BY <1>5
    <3> QED
      BY <3>1
  <2> QED
    BY <2>1, <2>2 DEF Injection, IsInjective
<1>7. b \in Surjection(F, S)
  <2>1. ASSUME NEW e \in S PROVE \E g \in F : g \ {v} = e
    BY <1>5 DEF Sides
  <2>2. b \in [F -> S]
    BY <1>6 DEF Injection
  <2> QED
    BY <2>1, <2>2 DEF Surjection
<1>8. ExistsBijection(F, S)
  BY <1>6, <1>7 DEF ExistsBijection, Bijection
<1> QED
  <2> HIDE DEF F, S, b
  <2>1. Cardinality(S) = 2
    BY <1>3, <1>4, <1>8, FS_Bijection
  <2> QED
    BY <2>1 DEF S

\* What the verifiers demand of the topology of a shell makes it a closed
\* surface in one piece (geometry.py, analyze_mesh_object).
LEMMA WatertightIsSolid ==
  ASSUME NEW s \in Shells, Watertight(s)
  PROVE  Solid(s.faces)
<1> DEFINE faces == s.faces
<1>1. FiniteMesh(faces)
  BY QualityAssumption DEF FiniteMesh
<1>2. ConnectedShells(faces) = 1 /\ Cardinality(NonManifoldEdges(faces)) = 0
      /\ Cardinality(NonManifoldVertices(faces)) = 0
  BY DEF Watertight, Topology
<1> HIDE DEF faces
<1>3. NonManifoldEdges(faces) = {}
  <2>1. IsFiniteSet(NonManifoldEdges(faces))
    BY <1>1, EdgesFinite, FS_Subset DEF NonManifoldEdges
  <2> QED
    BY <1>2, <2>1, FS_EmptySet
<1>4. NonManifoldVertices(faces) = {}
  <2>1. IsFiniteSet(UNION faces)
    <3>1. \A f \in faces : IsFiniteSet(f)
      BY <1>1 DEF FiniteMesh
    <3> QED
      BY <1>1, <3>1, FS_UNION DEF FiniteMesh
  <2>2. IsFiniteSet(NonManifoldVertices(faces))
    BY <2>1, FS_Subset DEF NonManifoldVertices
  <2> QED
    BY <1>2, <2>2, FS_EmptySet
<1>5. \A v \in UNION faces : \A w \in UNION Sides(faces, v) :
         Cardinality({e \in Sides(faces, v) : w \in e}) = 2
  BY <1>1, <1>3, TwoSidesMeet
<1>6. \A v \in UNION faces :
         \A W \in (SUBSET UNION Sides(faces, v)) \ {{}, UNION Sides(faces, v)} :
            \E e \in Sides(faces, v) : e \cap W # {} /\ ~(e \subseteq W)
  BY <1>1, <1>4, OneFanHangsTogether
<1>7. \A W \in (SUBSET UNION faces) \ {{}, UNION faces} :
         \E f \in faces : f \cap W # {} /\ ~(f \subseteq W)
  BY <1>1, <1>2, OneShellHangsTogether
<1>8. Solid(faces)
  BY <1>5, <1>6, <1>7 DEF Solid, Sides
<1> QED
  BY <1>8 DEF faces

-----------------------------------------------------------------------------
(* Lengths *)

\* A finite set of numbers has a least one.
LEMMA MinIs ==
  ASSUME NEW S, IsFiniteSet(S), S \subseteq Nat, S # {}
  PROVE  Min(S) \in S /\ \A n \in S : Min(S) <= n
<1> DEFINE Good == {T \in SUBSET S : T # {} => \E m \in T : \A n \in T : m <= n}
<1>1. ASSUME NEW T \in SUBSET S, \A U \in SUBSET T : U # T => U \in Good
      PROVE  T \in Good
  <2> SUFFICES ASSUME T # {} PROVE \E m \in T : \A n \in T : m <= n
    OBVIOUS
  <2>1. PICK x \in T : TRUE
    OBVIOUS
  <2>2. CASE T \ {x} = {}
    BY <2>1, <2>2
  <2>3. CASE T \ {x} # {}
    <3>1. T \ {x} \in Good
      BY <1>1, <2>1
    <3>2. PICK m \in T \ {x} : \A n \in T \ {x} : m <= n
      BY <2>3, <3>1
    <3>3. m \in Nat /\ x \in Nat
      BY <2>1
    <3>4. CASE m <= x
      BY <2>1, <3>2, <3>4
    <3>5. CASE x <= m
      <4>1. \A n \in T : n \in Nat
        OBVIOUS
      <4> QED
        BY <2>1, <3>2, <3>3, <3>5, <4>1
    <3> QED
      BY <3>3, <3>4, <3>5
  <2> QED
    BY <2>2, <2>3
<1>2. Good \in SUBSET (SUBSET S)
  OBVIOUS
<1>3. \A T \in SUBSET S : T \in Good
  <2> HIDE DEF Good
  <2> QED
    BY <1>1, <1>2, SubsetInduction
<1>4. \E m \in S : \A n \in S : m <= n
  BY <1>3
<1> QED
  BY <1>4 DEF Min

LEMMA WithinItself == ASSUME NEW n \in Int PROVE Within(n, n)
BY DEF Within

\* A wall that was measured is at least the limit.
LEMMA WallMeasured ==
  ASSUME NEW x \in Scenes
  PROVE  /\ Measurable(x.rays) => MinimumWall(x.rays) \in Nat
         /\ ~Measurable(x.rays) => MinimumWall(x.rays) = None
<1>1. CASE Measurable(x.rays)
  <2> DEFINE chords == {r.chord : r \in Strict(x.rays)}
             chord == [r \in Strict(x.rays) |-> r.chord]
  <2>1. IsFiniteSet(Strict(x.rays)) /\ \A r \in Strict(x.rays) : r.chord \in Nat
    BY QualityAssumption, FS_Subset DEF Strict
  <2>2. chord \in Surjection(Strict(x.rays), chords)
    BY DEF Surjection
  <2>3. IsFiniteSet(chords)
    <3> HIDE DEF chord, chords
    <3> QED
      BY <2>1, <2>2, FS_Surjection
  <2>4. chords # {} /\ chords \subseteq Nat
    BY <1>1, <2>1 DEF Measurable
  <2>5. Min(chords) \in Nat
    <3> HIDE DEF chords
    <3> QED
      BY <2>3, <2>4, MinIs
  <2>6. MinimumWall(x.rays) = NotNegative(Min(chords) - 2 * Voxel)
    BY <1>1 DEF MinimumWall
  <2> HIDE DEF chords
  <2> QED
    BY <1>1, <2>5, <2>6, QualityAssumption DEF NotNegative
<1>2. CASE ~Measurable(x.rays)
  BY <1>2 DEF MinimumWall
<1> QED
  BY <1>1, <1>2

LEMMA SourceWidthType ==
  ASSUME NEW x \in Scenes, NEW p \in x.parts PROVE SourceWidth(p) \in Nat \union {None}
<1>1. ASSUME NEW S, IsFiniteSet(S), S \subseteq Nat, Positive(S) # {}
      PROVE  Min(Positive(S)) \in Nat
  <2>1. IsFiniteSet(Positive(S)) /\ Positive(S) \subseteq Nat
    BY <1>1, FS_Subset DEF Positive
  <2> QED
    BY <1>1, <2>1, MinIs
<1>2. /\ IsFiniteSet(p.rings) /\ p.rings \subseteq Nat
      /\ IsFiniteSet(p.sides) /\ p.sides \subseteq Nat
  BY QualityAssumption
<1>3. Positive(p.rings) # {} => Min(Positive(p.rings)) \in Nat
  BY <1>1, <1>2
<1>4. Positive(p.sides) # {} => Min(Positive(p.sides)) \in Nat
  BY <1>1, <1>2
<1> QED
  BY <1>3, <1>4 DEF SourceWidth

\* An actual width is that of the narrowest place, if no probe missed.
LEMMA ActualWidthIs ==
  ASSUME NEW x \in Scenes, NEW p \in x.parts
  PROVE  /\ ActualWidth(p) \in Nat \union {None}
         /\ ActualWidth(p) # None =>
               \A n \in p.widths : n \in Nat /\ ActualWidth(p) <= n
<1>1. /\ IsFiniteSet(p.widths) /\ p.widths \subseteq Nat \union {None} /\ p.widths # {}
  BY QualityAssumption
<1>2. CASE None \in p.widths
  BY <1>2 DEF ActualWidth
<1>3. CASE None \notin p.widths
  <2>1. p.widths \subseteq Nat
    BY <1>1, <1>3
  <2>2. Min(p.widths) \in p.widths /\ \A n \in p.widths : Min(p.widths) <= n
    BY <1>1, <2>1, MinIs
  <2> QED
    BY <1>3, <2>1, <2>2 DEF ActualWidth
<1> QED
  BY <1>2, <1>3

\* A feature that was measured is no wider than any width that a ray found.
LEMMA FeatureMeasured ==
  ASSUME NEW x \in Scenes, MinimumFeature(x.parts) # None
  PROVE  /\ MinimumFeature(x.parts) \in Nat
         /\ MinimumFeature(x.parts) > 0 =>
              \A n \in UNION {p.widths : p \in x.parts} :
                 n \in Nat /\ MinimumFeature(x.parts) <= n - 2 * Voxel
<1> DEFINE parts == x.parts
           sources == {SourceWidth(p) : p \in parts}
           actuals == {ActualWidth(p) : p \in parts}
           widths == sources \union actuals
<1>1. parts # {} /\ None \notin widths
      /\ MinimumFeature(parts) = NotNegative(Min(widths) - 2 * Voxel)
  BY DEF MinimumFeature
<1>2. IsFiniteSet(parts)
  BY QualityAssumption
<1>3. IsFiniteSet(sources)
  <2> DEFINE F == [p \in parts |-> SourceWidth(p)]
  <2>1. F \in Surjection(parts, sources)
    BY DEF Surjection
  <2> HIDE DEF F, sources
  <2> QED
    BY <1>2, <2>1, FS_Surjection
<1>4. IsFiniteSet(actuals)
  <2> DEFINE F == [p \in parts |-> ActualWidth(p)]
  <2>1. F \in Surjection(parts, actuals)
    BY DEF Surjection
  <2> HIDE DEF F, actuals
  <2> QED
    BY <1>2, <2>1, FS_Surjection
<1>5. IsFiniteSet(widths)
  <2> HIDE DEF sources, actuals
  <2> QED
    BY <1>3, <1>4, FS_Union
<1>6. widths \subseteq Nat /\ widths # {}
  BY <1>1, SourceWidthType, ActualWidthIs
<1>7. Min(widths) \in Nat /\ \A n \in widths : Min(widths) <= n
  <2> HIDE DEF widths
  <2> QED
    BY <1>5, <1>6, MinIs
<1>8. ASSUME NEW p \in parts, NEW n \in p.widths PROVE n \in Nat /\ Min(widths) <= n
  <2>1. ActualWidth(p) \in widths /\ ActualWidth(p) # None
    BY <1>1
  <2>2. n \in Nat /\ ActualWidth(p) <= n
    BY <2>1, ActualWidthIs
  <2>3. ActualWidth(p) \in Nat /\ Min(widths) <= ActualWidth(p)
    BY <1>6, <1>7, <2>1
  <2> HIDE DEF widths
  <2> QED
    BY <1>7, <2>2, <2>3
<1>9. Voxel \in Nat
  BY QualityAssumption
<1>10. NotNegative(Min(widths) - 2 * Voxel) \in Nat
       /\ (NotNegative(Min(widths) - 2 * Voxel) > 0 =>
             NotNegative(Min(widths) - 2 * Voxel) = Min(widths) - 2 * Voxel)
  <2> HIDE DEF widths
  <2> QED
    BY <1>7, <1>9 DEF NotNegative
<1> HIDE DEF widths
<1>11. ASSUME NEW p \in parts, NEW n \in p.widths, MinimumFeature(parts) > 0
       PROVE  n \in Nat /\ MinimumFeature(parts) <= n - 2 * Voxel
  BY <1>1, <1>7, <1>8, <1>9, <1>10, <1>11
<1> QED
  BY <1>1, <1>10, <1>11

-----------------------------------------------------------------------------
(* The invariant: what a build has been through when it reaches a step *)

ToBePublished == {"start", "generate", "export", "inspect", "verify_blend", "verify_glb",
                  "verify_stl", "report", "refuse", "publish"}
Exported == {"inspect", "verify_blend", "verify_glb", "verify_stl",
             "report", "refuse", "publish"}
BlendVerified == {"verify_glb", "verify_stl", "report", "refuse", "publish"}
GlbVerified == {"verify_stl", "report", "refuse", "publish"}
AllVerified == {"report", "refuse", "publish"}
Reported == {"refuse", "publish"}

\* What every file that can be read has, the foreign ones too.
Readable(f) ==
  /\ DOMAIN f = Models
  /\ f.blend.size \in Int /\ f.blend.display \in Int /\ f.blend.shell \in Shells
  /\ f.glb.size \in Int
  /\ f.stl.raw \in Int /\ f.stl.size \in Int /\ f.stl.shell \in Shells

Numbers(r) == \A m \in {"asked", "size", "glb", "stl"} : r.measured[m] \in Int

\* The files hold what Export may make of the scene.
FilesOf(x, f) ==
  /\ Within(x.asked, x.size)
  /\ Readable(f)
  /\ f.blend.size = x.size /\ f.blend.display = x.display
  /\ f.blend.objects = x.objects + Rig
  /\ f.blend.flaws \subseteq Flaws["blend"]
  /\ f.glb.flaws \subseteq Flaws["glb"]
  /\ f.stl.flaws \subseteq Flaws["stl"]

ReportOfBuild ==
  /\ FilesOf(scene, file)
  /\ BlendFits /\ GlbFits /\ StlFits
  /\ report = QualityReport

Published ==
  /\ ReportOfBuild
  /\ report.status = "passed"
  /\ ManifestAccepts(Summary(report))
  /\ output = Manifest

BuildInv ==
  /\ pc \in ToBePublished => output = None
  /\ pc \in ToBePublished \union {"exited"} => edits = 0
  /\ pc = "export" => Within(scene.asked, scene.size)
  /\ pc \in Exported => FilesOf(scene, file)
  /\ pc \in BlendVerified => BlendFits
  /\ pc \in GlbVerified => GlbFits
  /\ pc \in AllVerified => StlFits
  /\ pc \in Reported => ReportOfBuild
  /\ pc = "publish" => report.status = "passed"
  /\ pc = "refuse" => report.status # "passed"

TreeInv ==
  /\ edits \in Nat
  /\ output # None /\ edits = 0 => Published
  /\ pc = "verify_tree" => Readable(file) /\ Numbers(report)

VerdictInv ==
  /\ PublishedVerifies
  /\ verdict = 0 => /\ pc = "done"
                    /\ Readable(file) /\ Numbers(report)
                    /\ TreeAgrees /\ SavedFits /\ ImportsFit

QualityInv == scene \in Scenes /\ BuildInv /\ TreeInv /\ VerdictInv

LEMMA QualityInitially == Init => QualityInv
<1> SUFFICES ASSUME Init PROVE QualityInv
  OBVIOUS
<1>1. verdict # 11 /\ verdict # 0
  BY QualityAssumption DEF Init
<1>2. scene \in Scenes /\ pc = "start" /\ output = None /\ edits = 0
  BY DEF Init
<1>3. BuildInv
  BY <1>2 DEF BuildInv, ToBePublished, Exported, BlendVerified, GlbVerified, AllVerified,
              Reported
<1>4. TreeInv /\ VerdictInv
  BY <1>1, <1>2 DEF TreeInv, VerdictInv, PublishedVerifies
<1> QED
  BY <1>2, <1>3, <1>4 DEF QualityInv

\* What was judged stays judged while scene and files stay.
LEMMA StillFits ==
  ASSUME UNCHANGED <<scene, file>>
  PROVE  /\ BlendFits' <=> BlendFits
         /\ GlbFits' <=> GlbFits
         /\ StlFits' <=> StlFits
         /\ FilesOf(scene, file)' <=> FilesOf(scene, file)
         /\ QualityReport' = QualityReport
<1>1. BlendFits' <=> BlendFits
  BY DEF BlendFits
<1>2. StlFits' <=> StlFits
  BY DEF StlFits
<1>3. FilesOf(scene, file)' <=> FilesOf(scene, file)
  BY DEF FilesOf, Readable
<1>4. QualityReport' = QualityReport
  BY DEF QualityReport
<1>5. GlbFits' <=> GlbFits
  BY DEF GlbFits
<1> QED
  BY <1>1, <1>2, <1>3, <1>4, <1>5

LEMMA StillReported ==
  ASSUME UNCHANGED <<scene, file, report>>
  PROVE  /\ ReportOfBuild' <=> ReportOfBuild
         /\ Manifest' = Manifest /\ Entries' = Entries
<1>1. ReportOfBuild' <=> ReportOfBuild
  BY StillFits DEF ReportOfBuild
<1>2. Entries' = Entries
  BY DEF Entries
<1>3. Manifest' = Manifest
  BY <1>2 DEF Manifest
<1> QED
  BY <1>1, <1>2, <1>3

LEMMA StillPublished ==
  ASSUME UNCHANGED <<scene, file, report, output>>
  PROVE  Published' <=> Published
BY StillReported DEF Published

LEMMA StillVerified ==
  ASSUME UNCHANGED <<scene, file, report, output>>
  PROVE  /\ (TreeAgrees /\ SavedFits /\ ImportsFit)' <=> TreeAgrees /\ SavedFits /\ ImportsFit
         /\ LeftToVerify' <=> LeftToVerify
<1>1. TreeAgrees' <=> TreeAgrees
  BY StillReported DEF TreeAgrees
<1>2. SavedFits' <=> SavedFits
  BY DEF SavedFits
<1>3. ImportsFit' <=> ImportsFit
  BY DEF ImportsFit
<1>4. LeftToVerify' <=> LeftToVerify
  BY DEF LeftToVerify
<1> QED
  BY <1>1, <1>2, <1>3, <1>4

\* What is said of the tree and of the verdict, before there are any.
LEMMA NotYetPublished ==
  ASSUME QualityInv, pc \in ToBePublished, output' = None,
         UNCHANGED <<edits, verdict>>, pc' \notin {"verify_tree", "done"}
  PROVE  TreeInv' /\ VerdictInv'
<1>1. verdict # 0
  BY DEF QualityInv, VerdictInv, ToBePublished
<1>2. TreeInv'
  BY DEF QualityInv, TreeInv
<1>3. VerdictInv'
  BY <1>1 DEF VerdictInv, PublishedVerifies
<1> QED
  BY <1>2, <1>3

\* What is said of the steps of a build, once it has exited.
LEMMA BuildIsOver ==
  ASSUME pc' \notin ToBePublished, pc' = "exited" => edits' = 0
  PROVE  BuildInv'
BY DEF BuildInv, ToBePublished, Exported, BlendVerified, GlbVerified, AllVerified, Reported

LEMMA ExitsKeeps ==
  ASSUME QualityInv, pc \in ToBePublished, NEW code, Exits(code)
  PROVE  QualityInv'
<1>1. UNCHANGED <<scene, file, report, output, edits, verdict>> /\ pc' = "exited"
  BY DEF Exits
<1>2. scene \in Scenes /\ output = None /\ edits = 0
  BY DEF QualityInv, BuildInv
<1>3. BuildInv'
  BY <1>1, <1>2, BuildIsOver DEF ToBePublished
<1>4. TreeInv' /\ VerdictInv'
  BY <1>1, <1>2, NotYetPublished
<1> QED
  BY <1>1, <1>2, <1>3, <1>4 DEF QualityInv

\* A step that only moves on to a step before the report.
LEMMA MovesKeeps ==
  ASSUME QualityInv, pc \in ToBePublished, NEW next \in ToBePublished, pc' = next,
         UNCHANGED <<scene, file, report, output, edits, exit, status, verdict>>,
         next = "export" => Within(scene.asked, scene.size),
         next \in Exported => FilesOf(scene, file),
         next \in BlendVerified => BlendFits,
         next \in GlbVerified => GlbFits,
         next \in AllVerified => StlFits,
         next \notin Reported
  PROVE  QualityInv'
<1>1. scene \in Scenes /\ output = None /\ edits = 0
  BY DEF QualityInv, BuildInv
<1>2. /\ pc' \in Exported => FilesOf(scene, file)'
      /\ pc' \in BlendVerified => BlendFits'
      /\ pc' \in GlbVerified => GlbFits'
      /\ pc' \in AllVerified => StlFits'
  BY StillFits
<1>3. pc' # "publish" /\ pc' # "refuse" /\ pc' \notin {"verify_tree", "done"}
  BY DEF Reported, ToBePublished
<1>4. BuildInv'
  BY <1>1, <1>2, <1>3 DEF BuildInv
<1>5. TreeInv' /\ VerdictInv'
  BY <1>1, <1>3, NotYetPublished
<1> QED
  BY <1>1, <1>4, <1>5 DEF QualityInv

LEMMA StartKeeps == QualityInv /\ Start => QualityInv'
<1> SUFFICES ASSUME QualityInv, Start PROVE QualityInv'
  OBVIOUS
<1> QED
  BY MovesKeeps DEF Start, ToBePublished, Exported, BlendVerified, GlbVerified, AllVerified,
                    Reported

LEMMA GenerateKeeps == QualityInv /\ Generate => QualityInv'
<1> SUFFICES ASSUME QualityInv, Generate PROVE QualityInv'
  OBVIOUS
<1> QED
  BY MovesKeeps DEF Generate, ToBePublished, Exported, BlendVerified, GlbVerified, AllVerified,
                    Reported

\* Whatever goes wrong in the export, the files can be read.
LEMMA ExportedFiles ==
  ASSUME NEW x \in Scenes, x = scene, Within(x.asked, x.size), Export
  PROVE  FilesOf(scene, file)'
<1> USE DEF Flaws, Models
<1>1. /\ x.size \in Nat /\ x.display \in Nat /\ x.objects \in Nat /\ x.shell \in Shells
      /\ scene' = x
  BY QualityAssumption DEF Export
<1>2. CASE \E d, e, f \in Drifts :
             file' = [Whole EXCEPT !.glb.size = @ + d, !.stl.raw = @ + e, !.stl.size = @ + f]
  <2>1. PICK d \in Drifts, e \in Drifts, f \in Drifts :
          file' = [Whole EXCEPT !.glb.size = @ + d, !.stl.raw = @ + e, !.stl.size = @ + f]
    BY <1>2
  <2>2. d \in Int /\ e \in Int /\ f \in Int
    BY QualityAssumption
  <2>3. /\ DOMAIN file' = Models
        /\ file'.blend = Whole.blend
        /\ file'.glb = [size |-> x.display + d, flaws |-> {}]
        /\ file'.stl = [raw |-> x.size + e, size |-> x.size + f, shell |-> x.shell,
                         framed |-> TRUE, flaws |-> {}]
    BY <2>1 DEF Whole
  <2> QED
    BY <1>1, <2>2, <2>3 DEF FilesOf, Readable, Whole
<1>3. CASE \E s \in Shells, framed \in BOOLEAN :
             file' = [Whole EXCEPT !.stl.shell = s, !.stl.framed = framed]
  <2>1. PICK s \in Shells, framed \in BOOLEAN :
          file' = [Whole EXCEPT !.stl.shell = s, !.stl.framed = framed]
    BY <1>3
  <2>2. /\ DOMAIN file' = Models
        /\ file'.blend = Whole.blend /\ file'.glb = Whole.glb
        /\ file'.stl = [raw |-> x.size, size |-> x.size, shell |-> s,
                         framed |-> framed, flaws |-> {}]
    BY <2>1 DEF Whole
  <2> QED
    BY <1>1, <2>2 DEF FilesOf, Readable, Whole
<1>4. CASE \E n \in Models : \E w \in Flaws[n] : file' = [Whole EXCEPT ![n].flaws = {w}]
  <2>0. PICK n \in Models : \E w \in Flaws[n] : file' = [Whole EXCEPT ![n].flaws = {w}]
    BY <1>4
  <2>1. PICK w \in Flaws[n] : file' = [Whole EXCEPT ![n].flaws = {w}]
    BY <2>0
  <2>2. CASE n = "blend"
    BY <1>1, <2>1, <2>2 DEF FilesOf, Readable, Whole
  <2>3. CASE n = "glb"
    BY <1>1, <2>1, <2>3 DEF FilesOf, Readable, Whole
  <2>4. CASE n = "stl"
    BY <1>1, <2>1, <2>4 DEF FilesOf, Readable, Whole
  <2> QED
    BY <2>2, <2>3, <2>4
<1> QED
  BY <1>2, <1>3, <1>4 DEF Export

LEMMA ExportKeeps == QualityInv /\ Export => QualityInv'
<1> SUFFICES ASSUME QualityInv, Export PROVE QualityInv'
  OBVIOUS
<1>1. pc = "export" /\ pc \in ToBePublished /\ pc' = "inspect"
      /\ UNCHANGED <<scene, report, output, edits, exit, status, verdict>>
  BY DEF Export, ToBePublished
<1>2. scene \in Scenes /\ Within(scene.asked, scene.size) /\ output = None /\ edits = 0
  BY <1>1 DEF QualityInv, BuildInv
<1>3. FilesOf(scene, file)'
  BY <1>2, ExportedFiles
<1>4. BuildInv'
  BY <1>1, <1>2, <1>3
     DEF BuildInv, ToBePublished, Exported, BlendVerified, GlbVerified, AllVerified, Reported
<1>5. TreeInv' /\ VerdictInv'
  BY <1>1, <1>2, NotYetPublished
<1> QED
  BY <1>1, <1>2, <1>4, <1>5 DEF QualityInv

LEMMA InspectKeeps == QualityInv /\ Inspect => QualityInv'
<1> SUFFICES ASSUME QualityInv, Inspect PROVE QualityInv'
  OBVIOUS
<1>1. pc = "inspect" /\ pc \in ToBePublished /\ FilesOf(scene, file)
  BY DEF Inspect, QualityInv, BuildInv, ToBePublished, Exported
<1>2. CASE StlIsFramed(file.stl)
  BY <1>1, <1>2, MovesKeeps
     DEF Inspect, ToBePublished, Exported, BlendVerified, GlbVerified, AllVerified, Reported
<1>3. CASE ~StlIsFramed(file.stl)
  BY <1>1, <1>3, ExitsKeeps DEF Inspect
<1> QED
  BY <1>2, <1>3

LEMMA VerifyBlendKeeps == QualityInv /\ VerifyBlend => QualityInv'
<1> SUFFICES ASSUME QualityInv, VerifyBlend PROVE QualityInv'
  OBVIOUS
<1>1. pc = "verify_blend" /\ pc \in ToBePublished /\ FilesOf(scene, file)
  BY DEF VerifyBlend, Checks, QualityInv, BuildInv, ToBePublished, Exported
<1>2. CASE BlendFits
  BY <1>1, <1>2, MovesKeeps
     DEF VerifyBlend, Checks, ToBePublished, Exported, BlendVerified, GlbVerified,
         AllVerified, Reported
<1>3. CASE ~BlendFits
  BY <1>1, <1>3, ExitsKeeps DEF VerifyBlend, Checks
<1> QED
  BY <1>2, <1>3

LEMMA VerifyGlbKeeps == QualityInv /\ VerifyGlb => QualityInv'
<1> SUFFICES ASSUME QualityInv, VerifyGlb PROVE QualityInv'
  OBVIOUS
<1>1. pc = "verify_glb" /\ pc \in ToBePublished /\ FilesOf(scene, file) /\ BlendFits
  BY DEF VerifyGlb, Checks, QualityInv, BuildInv, ToBePublished, Exported, BlendVerified
<1>2. CASE GlbFits
  BY <1>1, <1>2, MovesKeeps
     DEF VerifyGlb, Checks, ToBePublished, Exported, BlendVerified, GlbVerified,
         AllVerified, Reported
<1>3. CASE ~GlbFits
  BY <1>1, <1>3, ExitsKeeps DEF VerifyGlb, Checks
<1> QED
  BY <1>2, <1>3

LEMMA VerifyStlKeeps == QualityInv /\ VerifyStl => QualityInv'
<1> SUFFICES ASSUME QualityInv, VerifyStl PROVE QualityInv'
  OBVIOUS
<1>1. /\ pc = "verify_stl" /\ pc \in ToBePublished
      /\ FilesOf(scene, file) /\ BlendFits /\ GlbFits
  BY DEF VerifyStl, Checks, QualityInv, BuildInv, ToBePublished, Exported, BlendVerified,
         GlbVerified
<1>2. CASE StlFits
  BY <1>1, <1>2, MovesKeeps
     DEF VerifyStl, Checks, ToBePublished, Exported, BlendVerified, GlbVerified,
         AllVerified, Reported
<1>3. CASE ~StlFits
  BY <1>1, <1>3, ExitsKeeps DEF VerifyStl, Checks
<1> QED
  BY <1>2, <1>3

LEMMA ReportKeeps == QualityInv /\ Report => QualityInv'
<1> SUFFICES ASSUME QualityInv, Report PROVE QualityInv'
  OBVIOUS
<1>1. /\ pc = "report" /\ pc \in ToBePublished /\ report' = QualityReport
      /\ pc' = IF report'.status = "passed" THEN "publish" ELSE "refuse"
      /\ UNCHANGED <<scene, file, output, edits, exit, status, verdict>>
  BY DEF Report, ToBePublished
<1>2. /\ scene \in Scenes /\ output = None /\ edits = 0
      /\ FilesOf(scene, file) /\ BlendFits /\ GlbFits /\ StlFits
  BY <1>1 DEF QualityInv, BuildInv, ToBePublished, Exported, BlendVerified, GlbVerified,
              AllVerified
<1>3. /\ FilesOf(scene, file)' /\ BlendFits' /\ GlbFits' /\ StlFits'
      /\ QualityReport' = QualityReport
  BY <1>1, <1>2, StillFits
<1>4. ReportOfBuild'
  BY <1>1, <1>3 DEF ReportOfBuild
<1>5. /\ pc' # "export" /\ pc' \notin {"verify_tree", "done"}
      /\ pc' = "publish" => report'.status = "passed"
      /\ pc' = "refuse" => report'.status # "passed"
  BY <1>1
<1>6. BuildInv'
  BY <1>1, <1>2, <1>3, <1>4, <1>5 DEF BuildInv
<1>7. TreeInv' /\ VerdictInv'
  BY <1>1, <1>2, <1>5, NotYetPublished
<1> QED
  BY <1>1, <1>2, <1>6, <1>7 DEF QualityInv

LEMMA PublishKeeps == QualityInv /\ Publish => QualityInv'
<1> SUFFICES ASSUME QualityInv, Publish PROVE QualityInv'
  OBVIOUS
<1>1. /\ pc = "publish" /\ pc \in ToBePublished
      /\ ReportOfBuild /\ report.status = "passed" /\ edits = 0 /\ scene \in Scenes
  BY DEF Publish, QualityInv, BuildInv, ToBePublished, Reported
<1>2. CASE ManifestAccepts(Summary(report))
  <2>1. /\ output' = Manifest /\ pc' = "exited"
        /\ UNCHANGED <<scene, file, report, edits, status, verdict>>
    BY <1>2 DEF Publish
  <2>2. ReportOfBuild' /\ Manifest' = Manifest
    BY <1>1, <2>1, StillReported
  <2>3. Published'
    BY <1>1, <1>2, <2>1, <2>2 DEF Published
  <2>4. BuildInv'
    BY <1>1, <2>1, BuildIsOver DEF ToBePublished
  <2>5. TreeInv'
    BY <1>1, <2>1, <2>3 DEF TreeInv
  <2>6. VerdictInv'
    BY <1>1, <2>1 DEF QualityInv, VerdictInv, PublishedVerifies
  <2> QED
    BY <1>1, <2>1, <2>4, <2>5, <2>6 DEF QualityInv
<1>3. CASE ~ManifestAccepts(Summary(report))
  BY <1>1, <1>3, ExitsKeeps DEF Publish
<1> QED
  BY <1>2, <1>3

\* What a published report measured of its files.
LEMMA ReportOfFiles ==
  ASSUME QualityInv, ReportOfBuild
  PROVE  /\ report.measured.asked = scene.asked
         /\ report.measured.size = scene.size
         /\ report.measured.glb = file.glb.size
         /\ report.measured.stl = file.stl.size
         /\ report.measured.objects = scene.objects + Rig
         /\ report.status = DerivedStatus(report.measured, report.checks)
         /\ Numbers(report)
<1>1. report = QualityReport /\ Readable(file) /\ scene \in Scenes
  BY DEF ReportOfBuild, FilesOf, QualityInv
<1>2. /\ report.measured.asked = scene.asked
      /\ report.measured.size = scene.size
      /\ report.measured.glb = file.glb.size
      /\ report.measured.stl = file.stl.size
      /\ report.measured.objects = scene.objects + Rig
      /\ report.status = DerivedStatus(report.measured, report.checks)
  BY <1>1 DEF QualityReport
<1>3. scene.asked \in Int /\ scene.size \in Int
  BY <1>1, QualityAssumption
<1> QED
  BY <1>1, <1>2, <1>3 DEF Numbers, Readable

LEMMA SettleKeeps == QualityInv /\ Settle => QualityInv'
<1> SUFFICES ASSUME QualityInv, Settle PROVE QualityInv'
  OBVIOUS
<1>1. /\ pc = "exited" /\ pc' = IF output # None THEN "verify_tree" ELSE "done"
      /\ UNCHANGED <<scene, file, report, output, edits, exit, verdict>>
  BY DEF Settle
<1>2. scene \in Scenes /\ edits = 0 /\ verdict # 0
  BY <1>1 DEF QualityInv, BuildInv, VerdictInv
<1>3. BuildInv'
  BY <1>1, BuildIsOver DEF ToBePublished
<1>4. Published' <=> Published
  BY <1>1, StillPublished
<1>5. output # None => Readable(file) /\ Numbers(report)
  BY <1>2, ReportOfFiles DEF QualityInv, TreeInv, Published, ReportOfBuild, FilesOf
<1>6. TreeInv'
  BY <1>1, <1>2, <1>4, <1>5 DEF QualityInv, TreeInv, Readable, Numbers
<1>7. VerdictInv'
  BY <1>1, <1>2 DEF VerdictInv, PublishedVerifies
<1> QED
  BY <1>1, <1>2, <1>3, <1>6, <1>7 DEF QualityInv

\* Whatever gets into a published tree can be read.
LEMMA AlterKeeps == QualityInv /\ Alter => QualityInv'
<1> SUFFICES ASSUME QualityInv, Alter PROVE QualityInv'
  OBVIOUS
<1>1. pc = "verify_tree" /\ edits' = edits + 1
      /\ UNCHANGED <<pc, scene, exit, status, verdict>>
  BY DEF Alter
<1>2. /\ scene \in Scenes /\ edits \in Nat /\ verdict # 0
      /\ Readable(file) /\ Numbers(report)
  BY <1>1 DEF QualityInv, TreeInv, VerdictInv
<1>3. Readable(file') /\ Numbers(report')
  <2>1. CASE (\E n \in Models : \E f \in Foreign[n] : file' = [file EXCEPT ![n] = f])
             /\ UNCHANGED <<report, output>>
    <3>0. PICK n \in Models : \E f \in Foreign[n] : file' = [file EXCEPT ![n] = f]
      BY <2>1
    <3>1. PICK f \in Foreign[n] : file' = [file EXCEPT ![n] = f]
      BY <3>0
    <3>2. /\ n = "blend" => f.size \in Int /\ f.display \in Int /\ f.shell \in Shells
          /\ n = "glb" => f.size \in Int
          /\ n = "stl" => f.size \in Int /\ f.raw \in Int /\ f.shell \in Shells
      BY QualityAssumption
    <3>3. \A k \in Models : file'[k] = file[k] \/ (k = n /\ file'[k] = f)
      BY <1>2, <3>1 DEF Readable
    <3>4. DOMAIN file' = Models
      BY <1>2, <3>1 DEF Readable
    <3>5. /\ file'.blend = file.blend \/ (n = "blend" /\ file'.blend = f)
          /\ file'.glb = file.glb \/ (n = "glb" /\ file'.glb = f)
          /\ file'.stl = file.stl \/ (n = "stl" /\ file'.stl = f)
      BY <3>3 DEF Models
    <3>6. Readable(file')
      BY <1>2, <3>2, <3>4, <3>5 DEF Readable
    <3> QED
      BY <1>2, <2>1, <3>6 DEF Numbers
  <2>2. CASE report' \in Foreign.qa /\ UNCHANGED <<file, output>>
    <3>1. Numbers(report')
      BY <2>2, QualityAssumption DEF Numbers
    <3> QED
      BY <1>2, <2>2, <3>1
  <2>3. CASE UNCHANGED <<file, report>>
    BY <1>2, <2>3
  <2> QED
    BY <2>1, <2>2, <2>3 DEF Alter
<1>4. BuildInv'
  BY <1>1, BuildIsOver DEF ToBePublished
<1>5. TreeInv'
  BY <1>1, <1>2, <1>3 DEF TreeInv, Readable, Numbers
<1>6. VerdictInv'
  BY <1>1, <1>2 DEF VerdictInv, PublishedVerifies
<1> QED
  BY <1>1, <1>2, <1>4, <1>5, <1>6 DEF QualityInv

\* What the second verification finds in a tree that nobody touched is what the
\* first has left to it.
LEMMA PublishedFits ==
  ASSUME QualityInv, Published
  PROVE  TreeAgrees /\ (SavedFits /\ ImportsFit <=> ~LeftToVerify)
<1>1. /\ scene \in Scenes /\ FilesOf(scene, file) /\ BlendFits /\ GlbFits /\ StlFits
      /\ ReportOfBuild /\ report.status = "passed"
      /\ ManifestAccepts(Summary(report)) /\ output = Manifest
  BY DEF QualityInv, Published, ReportOfBuild
<1>2. /\ report.measured.size = scene.size
      /\ report.measured.glb = file.glb.size
      /\ report.measured.stl = file.stl.size
      /\ report.measured.objects = scene.objects + Rig
      /\ report.status = DerivedStatus(report.measured, report.checks)
  BY <1>1, ReportOfFiles
<1>3. /\ output.qa = Summary(report) /\ output.asked = scene.asked
      /\ output.size = scene.size /\ output.entries = Entries
  BY <1>1, <1>2 DEF Manifest
<1>4. TreeAgrees
  BY <1>1, <1>2, <1>3 DEF TreeAgrees, ReportAccepts
<1>5. /\ file.blend.size = scene.size /\ file.blend.objects = scene.objects + Rig
      /\ Readable(file) /\ Within(scene.asked, scene.size)
  BY <1>1 DEF FilesOf
<1>6. scene.objects + Rig \in 1 .. ObjectLimit
  <2> DEFINE m == report.measured
  <2>1. DerivedStatus(m, report.checks) = "passed" /\ m.objects = scene.objects + Rig
    BY <1>1, <1>2
  <2> HIDE DEF m
  <2>2. m.objects \in 1 .. ObjectLimit
    BY <2>1 DEF DerivedStatus
  <2> QED
    BY <2>1, <2>2
<1>7. /\ file.blend.flaws \cap VerifySees.blend = {} <=> file.blend.flaws = {}
      /\ file.glb.flaws \cap VerifySees.glb = {} <=> file.glb.flaws = {}
      /\ file.stl.flaws \cap VerifySees.stl = {} <=> file.stl.flaws = {}
  <2>1. /\ file.blend.flaws \subseteq BuildSees.blend \union VerifySees.blend
        /\ file.glb.flaws \subseteq BuildSees.glb \union VerifySees.glb
        /\ file.stl.flaws \subseteq BuildSees.stl \union VerifySees.stl
    BY <1>1 DEF FilesOf, Flaws, Models
  <2>2. /\ file.blend.flaws \cap BuildSees.blend = {}
        /\ file.glb.flaws \cap BuildSees.glb = {}
        /\ file.stl.flaws \cap BuildSees.stl = {}
    BY <1>1 DEF BlendFits, GlbFits, StlFits
  <2> QED
    BY <2>1, <2>2
<1>8. SavedFits <=> file.blend.flaws = {} /\ Within(file.glb.size, file.blend.display)
  <2>1. Watertight(file.blend.shell)
    BY <1>1 DEF BlendFits
  <2>2. Within(scene.size, scene.size)
    BY <1>5, WithinItself DEF Readable
  <2> QED
    BY <1>2, <1>3, <1>5, <1>6, <1>7, <2>1, <2>2 DEF SavedFits
<1>9. ImportsFit <=> /\ file.glb.flaws = {} /\ file.stl.flaws = {}
                     /\ Within(file.stl.size, file.stl.raw)
                     /\ Within(file.stl.raw, file.stl.size)
  <2>1. StlIsFramed(file.stl) /\ Watertight(file.stl.shell)
    BY <1>1 DEF StlFits
  <2>2. Within(file.glb.size, file.glb.size) /\ Within(file.stl.size, file.stl.size)
    BY <1>5, WithinItself DEF Readable
  <2> QED
    BY <1>2, <1>7, <2>1, <2>2 DEF ImportsFit
<1>10. LeftToVerify <=> \/ file.blend.flaws # {} \/ file.glb.flaws # {} \/ file.stl.flaws # {}
                        \/ ~Within(file.glb.size, file.blend.display)
                        \/ ~Within(file.stl.size, file.stl.raw)
                        \/ ~Within(file.stl.raw, file.stl.size)
  BY DEF LeftToVerify, Models
<1> QED
  BY <1>4, <1>8, <1>9, <1>10

LEMMA VerifyPublishedKeeps == QualityInv /\ VerifyPublished => QualityInv'
<1> SUFFICES ASSUME QualityInv, VerifyPublished PROVE QualityInv'
  OBVIOUS
<1> DEFINE accepted == TreeAgrees /\ SavedFits /\ ImportsFit
<1>1. /\ pc = "verify_tree" /\ pc' = "done"
      /\ verdict' = VerifyExit(IF accepted THEN 0 ELSE 11)
      /\ UNCHANGED <<scene, file, report, output, edits, exit, status>>
  BY DEF VerifyPublished
<1>2. verdict' = IF accepted THEN 0 ELSE 11
  BY <1>1 DEF VerifyExit
<1>3. scene \in Scenes /\ Readable(file) /\ Numbers(report)
  BY <1>1 DEF QualityInv, TreeInv
<1>4. /\ accepted' <=> accepted
      /\ LeftToVerify' <=> LeftToVerify
  BY <1>1, StillVerified
<1>5. output # None /\ edits = 0 => (accepted <=> ~LeftToVerify)
  BY PublishedFits DEF QualityInv, TreeInv
<1> HIDE DEF accepted
<1>6. PublishedVerifies'
  BY <1>1, <1>2, <1>4, <1>5 DEF PublishedVerifies
<1>7. VerdictInv'
  BY <1>1, <1>2, <1>3, <1>4, <1>6 DEF VerdictInv, Readable, Numbers, accepted
<1>8. BuildInv'
  BY <1>1, BuildIsOver DEF ToBePublished
<1>9. TreeInv'
  BY <1>1, StillPublished DEF QualityInv, TreeInv
<1> QED
  BY <1>1, <1>3, <1>7, <1>8, <1>9 DEF QualityInv

\* A verification that ends without a judgement.
LEMMA UnjudgedKeeps ==
  ASSUME QualityInv, pc' = "unjudged", verdict' # 0,
         UNCHANGED <<scene, file, report, output, edits, exit, status>>
  PROVE  QualityInv'
<1>1. BuildInv'
  BY BuildIsOver DEF ToBePublished
<1>2. TreeInv'
  BY StillPublished DEF QualityInv, TreeInv
<1>3. VerdictInv'
  BY DEF VerdictInv, PublishedVerifies
<1> QED
  BY <1>1, <1>2, <1>3 DEF QualityInv

LEMMA OtherProvenanceKeeps == QualityInv /\ OtherProvenance => QualityInv'
<1> SUFFICES ASSUME QualityInv, OtherProvenance PROVE QualityInv'
  OBVIOUS
<1>1. /\ pc' = "unjudged" /\ verdict' # 0
      /\ UNCHANGED <<scene, file, report, output, edits, exit, status>>
  BY DEF OtherProvenance
<1> QED
  BY <1>1, UnjudgedKeeps

LEMMA PublishedVerifierDiesKeeps == QualityInv /\ PublishedVerifierDies => QualityInv'
<1> SUFFICES ASSUME QualityInv, PublishedVerifierDies PROVE QualityInv'
  OBVIOUS
<1>1. /\ pc' = "unjudged" /\ verdict' # 0
      /\ UNCHANGED <<scene, file, report, output, edits, exit, status>>
  BY DEF PublishedVerifierDies, VerifyExit
<1> QED
  BY <1>1, UnjudgedKeeps

LEMMA QualityInductive == QualityInv /\ [Next]_vars => QualityInv'
<1> SUFFICES ASSUME QualityInv, [Next]_vars PROVE QualityInv'
  OBVIOUS
<1>1. CASE StartFails
  BY <1>1, ExitsKeeps DEF StartFails, ToBePublished
<1>2. CASE GenerationFails
  BY <1>2, ExitsKeeps DEF GenerationFails, ToBePublished
<1>3. CASE VerifierFails
  BY <1>3, ExitsKeeps DEF VerifierFails, ToBePublished
<1>4. CASE Refuse
  BY <1>4, ExitsKeeps DEF Refuse, ToBePublished
<1>5. CASE PublicationFails
  BY <1>5, ExitsKeeps DEF PublicationFails, ToBePublished
<1>6. CASE UNCHANGED vars
  <2>1. UNCHANGED <<pc, scene, file, report, output, edits, verdict>>
    BY <1>6 DEF vars
  <2>2. BuildInv'
    BY <2>1, StillFits, StillReported DEF QualityInv, BuildInv
  <2>3. TreeInv'
    BY <2>1, StillPublished DEF QualityInv, TreeInv
  <2>4. VerdictInv'
    BY <2>1, StillVerified DEF QualityInv, VerdictInv, PublishedVerifies
  <2> QED
    BY <2>1, <2>2, <2>3, <2>4 DEF QualityInv
<1> QED
  BY <1>1, <1>2, <1>3, <1>4, <1>5, <1>6, StartKeeps, GenerateKeeps, ExportKeeps, InspectKeeps,
     VerifyBlendKeeps, VerifyGlbKeeps, VerifyStlKeeps, ReportKeeps, PublishKeeps, SettleKeeps,
     AlterKeeps, VerifyPublishedKeeps, OtherProvenanceKeeps, PublishedVerifierDiesKeeps
     DEF Next

LEMMA QualityInvariant == Spec => []QualityInv
BY QualityInitially, QualityInductive, PTL DEF Spec

-----------------------------------------------------------------------------
(* Theorems *)

LEMMA ShellIsSolid ==
  ASSUME NEW s \in Shells, Watertight(s) PROVE SolidShell(s)
<1>1. Solid(s.faces)
  BY WatertightIsSolid
<1>2. s.flat = 0 /\ s.finite /\ s.agrees /\ s.volume > 0
  BY QualityAssumption DEF Watertight, Topology
<1> QED
  BY <1>1, <1>2 DEF SolidShell

\* Tolerances add up: of the request and of a reading of the scene, ...
LEMMA TwoTolerances ==
  ASSUME scene.asked \in Nat, NEW size \in Int, NEW h \in Int,
         Within(scene.asked, size), Within(size, h)
  PROVE  OffByAtMost(11, h)
BY DEF Within, OffByAtMost

\* ... or of the request, the saved scene, the report and an export.
LEMMA FourTolerances ==
  ASSUME scene.asked \in Nat, NEW b \in Int, NEW q \in Int, NEW s \in Int, NEW h \in Int,
         Within(scene.asked, b), Within(q, b), Within(q, s), Within(s, h)
  PROVE  OffByAtMost(21, h)
BY DEF Within, OffByAtMost

LEMMA OneTolerance ==
  ASSUME scene.asked \in Nat, NEW b \in Int, Within(scene.asked, b)
  PROVE  OffByAtMost(21, b)
BY DEF Within, OffByAtMost

\* What a report that passed says of the scene and of the printed file.
LEMMA PassedSays ==
  ASSUME QualityInv, ReportOfBuild, report.status = "passed"
  PROVE  /\ MinimumWall(scene.rays) # None /\ MinimumFeature(scene.parts) # None
         /\ MinimumFeature(scene.parts) >= FeatureLimit
<1>1. report = QualityReport
  BY DEF ReportOfBuild
<1> DEFINE m == report.measured
<1>2. /\ report.status = DerivedStatus(m, report.checks)
      /\ m.wall = MinimumWall(scene.rays) /\ m.feature = MinimumFeature(scene.parts)
  BY <1>1 DEF QualityReport
<1> HIDE DEF m
<1>3. m.wall # None /\ m.feature # None /\ m.feature >= FeatureLimit
  BY <1>2 DEF DerivedStatus
<1> QED
  BY <1>2, <1>3

\* A published STL holds one closed solid, its height and that of the GLB are
\* those of the request within two tolerances, and no ray through the walls or
\* parts of the character missed or met one that could be thinner than the limit
\* (geometry.py, verifier.py, quality_report.py), whatever the shells and scenes,
\* the voxel and the differences the exports make.
THEOREM PublishedIsAlwaysSound == Spec => []PublishedIsSound
<1>1. QualityInv => PublishedIsSound
  <2> SUFFICES ASSUME QualityInv, output # None, edits = 0
               PROVE  /\ SolidShell(file.stl.shell)
                      /\ \A h \in {file.stl.raw, file.stl.size, file.glb.size} :
                            OffByAtMost(11, h)
                      /\ \A r \in scene.rays :
                            /\ r.hit # "nothing"
                            /\ r.hit = "opposing" => r.chord - 2 * Voxel >= WallLimit
                      /\ \A n \in UNION {p.widths : p \in scene.parts} :
                            n # None /\ n - 2 * Voxel >= FeatureLimit
    BY DEF PublishedIsSound
  <2>1. /\ scene \in Scenes /\ FilesOf(scene, file) /\ GlbFits /\ StlFits
        /\ ReportOfBuild /\ report.status = "passed"
    BY DEF QualityInv, TreeInv, Published, ReportOfBuild
  <2>2. file.stl.shell \in Shells /\ Watertight(file.stl.shell)
    BY <2>1 DEF FilesOf, Readable, StlFits
  <2>3. SolidShell(file.stl.shell)
    BY <2>2, ShellIsSolid
  <2>4. ASSUME NEW h \in {file.stl.raw, file.stl.size, file.glb.size}
        PROVE  OffByAtMost(11, h)
    <3>1. scene.asked \in Nat /\ scene.size \in Int
      BY <2>1, QualityAssumption
    <3>2. h \in Int /\ Within(scene.asked, scene.size)
      BY <2>1 DEF FilesOf, Readable
    <3>3. Within(scene.size, h)
      BY <2>1 DEF GlbFits, StlFits
    <3> QED
      BY <3>1, <3>2, <3>3, TwoTolerances
  <2>5. Measurable(scene.rays)
    BY <2>1, PassedSays, WallMeasured
  <2>6. ASSUME NEW r \in scene.rays
        PROVE  /\ r.hit # "nothing"
               /\ r.hit = "opposing" => r.chord - 2 * Voxel >= WallLimit
    <3>1. r.chord \in Nat /\ Voxel \in Nat
      BY <2>1, QualityAssumption
    <3> QED
      BY <2>5, <3>1 DEF Measurable, Strict, WallLimit
  <2>7. ASSUME NEW n \in UNION {p.widths : p \in scene.parts}
        PROVE  n # None /\ n - 2 * Voxel >= FeatureLimit
    <3> DEFINE feature == MinimumFeature(scene.parts)
    <3>1. feature # None /\ feature >= FeatureLimit
      BY <2>1, PassedSays
    <3>2. feature \in Nat
      BY <2>1, <3>1, FeatureMeasured
    <3>3. feature > 0
      BY <3>1, <3>2 DEF FeatureLimit
    <3>4. n \in Nat /\ feature <= n - 2 * Voxel
      BY <2>1, <3>1, <3>3, FeatureMeasured
    <3>5. n # None /\ Voxel \in Nat
      BY <3>4, QualityAssumption
    <3> HIDE DEF feature
    <3> QED
      BY <3>1, <3>2, <3>4, <3>5 DEF FeatureLimit
  <2> QED
    BY <2>3, <2>4, <2>6, <2>7
<1> QED
  BY <1>1, QualityInvariant, PTL

\* `verify' rejects a tree that `build' published and nobody touched exactly for
\* what build leaves to it (published_verifier.py against verifier.py and
\* runner.py), unless its own process dies or it is told another provenance.
THEOREM PublishedAlwaysVerifies == Spec => []PublishedVerifies
<1>1. QualityInv => PublishedVerifies
  BY DEF QualityInv, VerdictInv
<1> QED
  BY <1>1, QualityInvariant, PTL

\* A tree that `verify' accepts is one whose files are those of its manifest,
\* whose two shells are closed solids and whose heights are those of the request
\* within four tolerances, whatever was put into it (published_verifier.py,
\* builder_cli/commands.py).
THEOREM VerifiedIsAlwaysSound == Spec => []VerifiedIsSound
<1>1. QualityInv => VerifiedIsSound
  <2> SUFFICES ASSUME QualityInv, verdict = 0
               PROVE  /\ output.entries = Entries
                      /\ \A n \in Models : file[n].flaws \cap VerifySees[n] = {}
                      /\ SolidShell(file.stl.shell) /\ SolidShell(file.blend.shell)
                      /\ \A h \in {file.blend.size, file.blend.display, file.glb.size,
                                   file.stl.raw, file.stl.size} : OffByAtMost(21, h)
    BY DEF VerifiedIsSound
  <2>1. /\ scene \in Scenes /\ Readable(file) /\ Numbers(report)
        /\ TreeAgrees /\ SavedFits /\ ImportsFit
    BY DEF QualityInv, VerdictInv
  <2>2. \A n \in Models : file[n].flaws \cap VerifySees[n] = {}
    BY <2>1 DEF SavedFits, ImportsFit, Models
  <2>3. SolidShell(file.stl.shell) /\ SolidShell(file.blend.shell)
    BY <2>1, ShellIsSolid DEF SavedFits, ImportsFit, Readable
  <2> DEFINE m == report.measured
  <2>4. /\ scene.asked \in Nat
        /\ m.size \in Int /\ m.glb \in Int /\ m.stl \in Int
        /\ file.blend.size \in Int /\ file.blend.display \in Int
        /\ file.glb.size \in Int /\ file.stl.raw \in Int /\ file.stl.size \in Int
    BY <2>1, QualityAssumption DEF Readable, Numbers
  <2>5. /\ Within(scene.asked, file.blend.size) /\ Within(m.size, file.blend.size)
        /\ Within(m.glb, file.blend.display) /\ Within(m.glb, file.glb.size)
        /\ Within(m.stl, file.stl.raw) /\ Within(m.stl, file.stl.size)
    BY <2>1 DEF SavedFits, ImportsFit
  <2>6. output.entries = Entries /\ DerivedStatus(m, report.checks) = "passed"
    BY <2>1 DEF TreeAgrees, ReportAccepts
  <2> HIDE DEF m
  <2>7. Within(m.size, m.glb) /\ Within(m.size, m.stl)
    BY <2>6 DEF DerivedStatus
  <2>8. OffByAtMost(21, file.blend.size)
    BY <2>4, <2>5, OneTolerance
  <2>9. OffByAtMost(21, file.blend.display) /\ OffByAtMost(21, file.glb.size)
    BY <2>4, <2>5, <2>7, FourTolerances
  <2>10. OffByAtMost(21, file.stl.raw) /\ OffByAtMost(21, file.stl.size)
    BY <2>4, <2>5, <2>7, FourTolerances
  <2> QED
    BY <2>2, <2>3, <2>6, <2>8, <2>9, <2>10
<1> QED
  BY <1>1, QualityInvariant, PTL

-----------------------------------------------------------------------------
(* Why a build ends in needs_review *)

\* A report that does not pass has a reason: the two lists of demands, of
\* derive_qa_status and of the summary, are the same.
LEMMA NotPassedHasReasons ==
  ASSUME QualityInv, ReportOfBuild, report.status # "passed"
  PROVE  Reasons(report) # {}
<1>1. scene \in Scenes /\ report = QualityReport
  BY DEF QualityInv, ReportOfBuild
<1> DEFINE m == report.measured
           c == report.checks
<1>2. /\ report.status = DerivedStatus(m, c)
      /\ m.wall = MinimumWall(scene.rays) /\ m.feature = MinimumFeature(scene.parts)
      /\ m.asked = scene.asked /\ m.size = scene.size
      /\ c.height = Within(scene.asked, scene.size)
      /\ "height" \in DOMAIN c
  BY <1>1 DEF QualityReport
<1>3. /\ m.wall # None => m.wall \in Nat
      /\ m.feature # None => m.feature \in Nat
  BY <1>1, <1>2, WallMeasured, FeatureMeasured
<1> HIDE DEF m, c
<1>4. CASE m.wall = None
  BY <1>2, <1>4 DEF DerivedStatus, Reasons, m
<1>5. CASE m.feature = None
  BY <1>2, <1>5 DEF DerivedStatus, Reasons, m
<1>6. CASE m.wall # None /\ m.feature # None
  <2>1. report.status = "failed"
    BY <1>2, <1>6 DEF DerivedStatus
  <2>2. ~ /\ \A k \in DOMAIN c : c[k]
          /\ Within(m.size, m.glb)
          /\ Within(m.size, m.stl)
          /\ Within(m.asked, m.size)
          /\ m.objects \in 1 .. ObjectLimit
          /\ m.edges = 0 /\ m.flat = 0 /\ m.shells = 1
          /\ m.wall >= WallLimit
          /\ m.feature >= FeatureLimit
    BY <1>2, <1>6 DEF DerivedStatus
  <2>3. /\ m.wall < WallLimit <=> ~(m.wall >= WallLimit)
        /\ m.feature < FeatureLimit <=> ~(m.feature >= FeatureLimit)
    BY <1>3, <1>6 DEF WallLimit, FeatureLimit
  <2>4. Reasons(report) =
           {k \in DOMAIN c : ~c[k]}
           \union {k \in {"glb", "stl"} : ~Within(m.size, m[k])}
           \union {k \in {"objects"} : m.objects \notin 1 .. ObjectLimit}
           \union {k \in {"edges", "flat"} : m[k] # 0}
           \union {k \in {"shells"} : m.shells # 1}
           \union {k \in {"wall"} : m.wall < WallLimit}
           \union {k \in {"feature"} : m.feature < FeatureLimit}
    BY <2>1 DEF Reasons, m, c
  <2>5. CASE ~(\A k \in DOMAIN c : c[k])
    BY <2>4, <2>5
  <2>6. CASE ~Within(m.asked, m.size)
    BY <1>2, <2>4, <2>6
  <2>7. CASE ~Within(m.size, m.glb) \/ ~Within(m.size, m.stl)
    BY <2>4, <2>7
  <2>8. CASE m.objects \notin 1 .. ObjectLimit
    BY <2>4, <2>8
  <2>9. CASE m.edges # 0 \/ m.flat # 0 \/ m.shells # 1
    BY <2>4, <2>9
  <2>10. CASE m.wall < WallLimit \/ m.feature < FeatureLimit
    BY <2>4, <2>10
  <2> QED
    BY <2>2, <2>3, <2>5, <2>6, <2>7, <2>8, <2>9, <2>10
<1> QED
  BY <1>4, <1>5, <1>6

\* Exit 11 with a report is that of Refuse, and only a build that published
\* leaves a tree that can be altered.
ExplainedInv ==
  /\ pc \in ToBePublished \ Reported => report = None
  /\ pc \in ToBePublished \union {"exited"} => status = "running"
  /\ pc = "exited" => /\ output # None => exit = 0
                      /\ exit = 11 /\ report # None => Reasons(report) # {}
  /\ pc = "verify_tree" => status = "succeeded"
  /\ RefusalIsExplained

\* A build that exits before it publishes, not for want of a review or with one
\* that is explained.
LEMMA ExitsExplained ==
  ASSUME QualityInv, ExplainedInv, pc \in ToBePublished, NEW code, Exits(code),
         code # 11 \/ report = None \/ Reasons(report) # {},
         code \in {3, 4, 10, 11, 12, 124, 139}
  PROVE  ExplainedInv'
<1>1. /\ UNCHANGED <<report, output, status>>
      /\ pc' = "exited" /\ exit' = CliExit(code)
  BY DEF Exits
<1>2. exit' = 11 => code = 11
  BY <1>1 DEF CliExit
<1>3. Reasons(report)' = Reasons(report)
  BY <1>1 DEF Reasons
<1>4. output = None /\ status = "running"
  BY DEF QualityInv, BuildInv, ExplainedInv
<1> QED
  BY <1>1, <1>2, <1>3, <1>4 DEF ExplainedInv, RefusalIsExplained, ToBePublished, Reported

\* A step on to a step before the report.
LEMMA MovesExplained ==
  ASSUME ExplainedInv, pc \in ToBePublished \ Reported, pc' \in ToBePublished \ Reported,
         UNCHANGED <<report, status>>
  PROVE  ExplainedInv'
BY DEF ExplainedInv, RefusalIsExplained, ToBePublished, Reported

\* A step after which nothing of this changes any more.
LEMMA JudgedExplained ==
  ASSUME ExplainedInv, pc' \in {"done", "unjudged"}, UNCHANGED <<report, status>>
  PROVE  ExplainedInv'
<1>1. Reasons(report)' = Reasons(report)
  BY DEF Reasons
<1> QED
  BY <1>1 DEF ExplainedInv, RefusalIsExplained, ToBePublished, Reported

LEMMA ExplainedInductive == QualityInv /\ ExplainedInv /\ [Next]_vars => ExplainedInv'
<1> SUFFICES ASSUME QualityInv, ExplainedInv, [Next]_vars PROVE ExplainedInv'
  OBVIOUS
<1> USE DEF ToBePublished, Reported
<1>1. CASE StartFails
  BY <1>1, ExitsExplained DEF StartFails, ExplainedInv
<1>2. CASE GenerationFails
  BY <1>2, ExitsExplained DEF GenerationFails, ExplainedInv
<1>3. CASE Start \/ Generate \/ Export
  BY <1>3, MovesExplained DEF Start, Generate, Export
<1>4. CASE Inspect
  <2>1. pc = "inspect"
    BY <1>4 DEF Inspect
  <2>2. CASE StlIsFramed(file.stl)
    BY <1>4, <2>1, <2>2, MovesExplained DEF Inspect
  <2>3. CASE ~StlIsFramed(file.stl)
    BY <1>4, <2>1, <2>3, ExitsExplained DEF Inspect
  <2> QED
    BY <2>2, <2>3
<1>5. ASSUME NEW here \in {"verify_blend", "verify_glb", "verify_stl"}, NEW fits \in BOOLEAN,
             NEW next \in {"verify_glb", "verify_stl", "report"}, Checks(here, fits, next)
      PROVE  ExplainedInv'
  <2>1. pc \in ToBePublished \ Reported /\ report = None
    BY <1>5 DEF Checks, ExplainedInv
  <2>2. CASE fits
    BY <1>5, <2>1, <2>2, MovesExplained DEF Checks
  <2>3. CASE ~fits
    BY <1>5, <2>1, <2>3, ExitsExplained DEF Checks
  <2> QED
    BY <2>2, <2>3
<1>6. CASE VerifyBlend \/ VerifyGlb \/ VerifyStl
  <2>1. BlendFits \in BOOLEAN /\ GlbFits \in BOOLEAN /\ StlFits \in BOOLEAN
    BY DEF BlendFits, GlbFits, StlFits
  <2> QED
    BY <1>5, <1>6, <2>1 DEF VerifyBlend, VerifyGlb, VerifyStl
<1>7. CASE VerifierFails
  BY <1>7, ExitsExplained DEF VerifierFails, ExplainedInv
<1>8. CASE Report
  <2>1. /\ pc = "report" /\ pc' \in Reported
        /\ UNCHANGED <<output, status>>
    BY <1>8 DEF Report
  <2> QED
    BY <2>1 DEF ExplainedInv, RefusalIsExplained
<1>9. CASE Refuse
  <2>1. pc = "refuse" /\ Exits(11)
    BY <1>9 DEF Refuse
  <2>2. ReportOfBuild /\ report.status # "passed"
    BY <2>1 DEF QualityInv, BuildInv
  <2>3. Reasons(report) # {}
    BY <2>2, NotPassedHasReasons
  <2> QED
    BY <2>1, <2>3, ExitsExplained
<1>10. CASE Publish
  <2>1. pc = "publish"
    BY <1>10 DEF Publish
  <2>2. CASE ManifestAccepts(Summary(report))
    <3>1. pc' = "exited" /\ exit' = 0 /\ UNCHANGED <<report, status>>
      BY <1>10, <2>2 DEF Publish
    <3> QED
      BY <2>1, <3>1 DEF ExplainedInv, RefusalIsExplained
  <2>3. CASE ~ManifestAccepts(Summary(report))
    BY <1>10, <2>1, <2>3, ExitsExplained DEF Publish
  <2> QED
    BY <2>2, <2>3
<1>11. CASE PublicationFails
  BY <1>11, ExitsExplained DEF PublicationFails
<1>12. CASE Settle
  <2>1. /\ pc = "exited" /\ UNCHANGED <<report, output, exit>>
        /\ pc' = IF output # None THEN "verify_tree" ELSE "done"
        /\ status' = IF exit = 0 THEN "succeeded"
                     ELSE IF AttemptStatus(exit) = "needs_review" THEN "needs_review"
                     ELSE "failed"
    BY <1>12 DEF Settle
  <2>2. status' = "needs_review" => exit = 11
    BY <2>1 DEF AttemptStatus
  <2>3. Reasons(report)' = Reasons(report)
    BY <2>1 DEF Reasons
  <2> QED
    BY <2>1, <2>2, <2>3 DEF ExplainedInv, RefusalIsExplained
<1>13. CASE Alter
  <2>1. pc = "verify_tree" /\ UNCHANGED <<pc, status>>
    BY <1>13 DEF Alter
  <2> QED
    BY <2>1 DEF ExplainedInv, RefusalIsExplained
<1>14. CASE VerifyPublished \/ OtherProvenance \/ PublishedVerifierDies
  BY <1>14, JudgedExplained DEF VerifyPublished, OtherProvenance, PublishedVerifierDies
<1>15. CASE UNCHANGED vars
  <2>1. UNCHANGED <<pc, report, output, exit, status>>
    BY <1>15 DEF vars
  <2>2. Reasons(report)' = Reasons(report)
    BY <2>1 DEF Reasons
  <2> QED
    BY <2>1, <2>2 DEF ExplainedInv, RefusalIsExplained
<1> QED
  BY <1>1, <1>2, <1>3, <1>4, <1>6, <1>7, <1>8, <1>9, <1>10, <1>11, <1>12, <1>13, <1>14,
     <1>15 DEF Next

\* A build that ends in needs_review although its report was made has a reason in
\* the summary a user sees (qa_failure_summary.py against derive_qa_status).
THEOREM RefusalIsAlwaysExplained == Spec => []RefusalIsExplained
<1>1. Init => ExplainedInv
  BY DEF Init, ExplainedInv, RefusalIsExplained, ToBePublished, Reported
<1>2. QualityInv /\ ExplainedInv /\ [Next]_vars => ExplainedInv'
  BY ExplainedInductive
<1>3. ExplainedInv => RefusalIsExplained
  BY DEF ExplainedInv
<1> QED
  BY <1>1, <1>2, <1>3, QualityInvariant, PTL DEF Spec

===============================================================================
