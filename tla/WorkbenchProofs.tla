--------------------------- MODULE WorkbenchProofs ---------------------------
(***************************************************************************)
(* Proofs about Workbench, for any number of inspections, previews and     *)
(* crashes: the four invariants that TLC checks.                           *)
(*                                                                         *)
(* The operations (OpInv) and the model calls (CallInv) share nothing but  *)
(* the lock, so that each has an invariant of its own.  That permissions   *)
(* are spent within the budget needs sums over finite sets, which come     *)
(* first.                                                                  *)
(***************************************************************************)
EXTENDS Workbench, FiniteSetTheorems, WellFoundedInduction, TLAPS

-----------------------------------------------------------------------------
(* Sums over finite sets.  SumFunctionOnSet is a recursive function over    *)
(* subsets; what it computes follows by well-founded induction, said with   *)
(* sets of subsets instead of a predicate.                                  *)

Pick(t) == CHOOSE x \in t : TRUE

\* g is the recursive function that defines a sum.
Sums(est, g, S) ==
  g = [t \in SUBSET S |->
        IF t = {} THEN 0 ELSE est[Pick(t)] + g[t \ {Pick(t)}]]

LEMMA PickIn == \A t : t # {} => Pick(t) \in t
BY DEF Pick

LEMMA SubsetInduction ==
  ASSUME NEW S, IsFiniteSet(S), NEW Good \in SUBSET (SUBSET S),
         \A T \in SUBSET S : (\A U \in SUBSET T : U # T => U \in Good) => T \in Good
  PROVE  \A T \in SUBSET S : T \in Good
<1> DEFINE Bad == (SUBSET S) \ Good
<1> SUFFICES ASSUME Bad # {} PROVE FALSE
  OBVIOUS
<1>1. IsWellFoundedOn(StrictSubsetOrdering(S), FiniteSubsetsOf(S))
  BY FS_StrictSubsetOrderingWellFounded
<1>2. Bad \subseteq FiniteSubsetsOf(S)
  BY FS_Subset DEF FiniteSubsetsOf
<1>3. PICK T \in Bad : \A U \in Bad : ~(<<U, T>> \in StrictSubsetOrdering(S))
  <2> HIDE DEF Bad
  <2> QED
    BY <1>1, <1>2, WFMin
<1>4. \A U \in SUBSET T : U # T => <<U, T>> \in StrictSubsetOrdering(S)
  BY DEF StrictSubsetOrdering
<1>5. ASSUME NEW U \in SUBSET T, U # T PROVE U \in Good
  <2>1. U \in SUBSET S
    OBVIOUS
  <2>2. U \notin Bad
    BY <1>3, <1>4, <1>5
  <2> QED
    BY <2>1, <2>2
<1> QED
  BY <1>5

\* Two such functions agree where both are defined.
LEMMA SumsAgree ==
  ASSUME NEW est, NEW S, NEW T, IsFiniteSet(T), T \subseteq S,
         NEW g, NEW h, Sums(est, g, S), Sums(est, h, T)
  PROVE  \A U \in SUBSET T : g[U] = h[U]
<1> DEFINE Good == {U \in SUBSET T : g[U] = h[U]}
<1>1. ASSUME NEW U \in SUBSET T, \A V \in SUBSET U : V # U => V \in Good
      PROVE  U \in Good
  <2>1. CASE U = {}
    BY <2>1 DEF Sums
  <2>2. CASE U # {}
    <3>1. Pick(U) \in U
      BY <2>2, PickIn
    <3>2. U \ {Pick(U)} \in Good
      BY <1>1, <3>1
    <3>3. g[U] = est[Pick(U)] + g[U \ {Pick(U)}]
      BY <2>2 DEF Sums
    <3>4. h[U] = est[Pick(U)] + h[U \ {Pick(U)}]
      BY <2>2 DEF Sums
    <3> QED
      BY <3>2, <3>3, <3>4
  <2> QED
    BY <2>1, <2>2
<1>2. Good \in SUBSET (SUBSET T)
  OBVIOUS
<1>3. \A U \in SUBSET T : U \in Good
  <2> HIDE DEF Good
  <2> QED
    BY <1>1, <1>2, SubsetInduction
<1> QED
  BY <1>3

Total(est, S) == (CHOOSE g : Sums(est, g, S))[S]

LEMMA SumIsTotal ==
  ASSUME NEW est, NEW S PROVE SumFunctionOnSet(est, S) = Total(est, S)
BY DEF SumFunctionOnSet, FoldFunctionOnSet, MapThenFoldSet, Sums, Pick, Total

LEMMA TotalIs ==
  ASSUME NEW est, NEW S, IsFiniteSet(S), NEW T \in SUBSET S, NEW g, Sums(est, g, S),
         \E h : Sums(est, h, T)
  PROVE  Total(est, T) = g[T]
<1> DEFINE h == CHOOSE f : Sums(est, f, T)
<1>1. Sums(est, h, T)
  OBVIOUS
<1>2. IsFiniteSet(T)
  BY FS_Subset
<1> HIDE DEF h
<1>3. g[T] = h[T]
  BY <1>1, <1>2, SumsAgree
<1> QED
  BY <1>3 DEF Total, h

LEMMA SumsExist ==
  ASSUME NEW est, NEW S, IsFiniteSet(S) PROVE \A T \in SUBSET S : \E g : Sums(est, g, T)
<1> DEFINE Good == {T \in SUBSET S : \E g : Sums(est, g, T)}
<1>1. ASSUME NEW T \in SUBSET S, \A U \in SUBSET T : U # T => U \in Good
      PROVE  T \in Good
  <2> DEFINE g == [t \in SUBSET T |->
                     IF t = {} THEN 0 ELSE est[Pick(t)] + Total(est, t \ {Pick(t)})]
  <2>1. ASSUME NEW t \in SUBSET T, t # {}
        PROVE  g[t \ {Pick(t)}] = Total(est, t \ {Pick(t)})
    <3> DEFINE U == t \ {Pick(t)}
    <3>1. U \in SUBSET T /\ U # T
      BY <2>1, PickIn
    <3>2. \E h : Sums(est, h, U)
      BY <1>1, <3>1
    <3>3. IsFiniteSet(U)
      BY <3>1, FS_Subset
    <3>4. PICK h : Sums(est, h, U)
      BY <3>2
    <3>5. Total(est, U) = h[U]
      BY <3>2, <3>3, <3>4, TotalIs
    <3>6. CASE U = {}
      BY <3>1, <3>4, <3>5, <3>6 DEF Sums
    <3>7. CASE U # {}
      <4> DEFINE V == U \ {Pick(U)}
      <4>1. V \in SUBSET U /\ V \in SUBSET T /\ V # T
        BY <3>1
      <4>2. \E f : Sums(est, f, V)
        BY <1>1, <4>1
      <4>3. Total(est, V) = h[V]
        BY <3>3, <3>4, <4>1, <4>2, TotalIs
      <4>4. h[U] = est[Pick(U)] + h[V]
        BY <3>4, <3>7 DEF Sums
      <4>5. g[U] = est[Pick(U)] + Total(est, V)
        BY <3>1, <3>7
      <4> QED
        BY <3>5, <4>3, <4>4, <4>5
    <3> QED
      BY <3>6, <3>7
  <2>2. g = [t \in SUBSET T |-> IF t = {} THEN 0 ELSE est[Pick(t)] + g[t \ {Pick(t)}]]
    BY <2>1
  <2>3. Sums(est, g, T)
    BY <2>2 DEF Sums
  <2> HIDE DEF g
  <2> QED
    BY <2>3
<1>2. Good \in SUBSET (SUBSET S)
  OBVIOUS
<1>3. \A T \in SUBSET S : T \in Good
  <2> HIDE DEF Good
  <2> QED
    BY <1>1, <1>2, SubsetInduction
<1> QED
  BY <1>3

\* The equations of the sum.
LEMMA SumEmpty == ASSUME NEW est PROVE SumFunctionOnSet(est, {}) = 0
<1>1. IsFiniteSet({})
  BY FS_EmptySet
<1>2. PICK g : Sums(est, g, {})
  BY <1>1, SumsExist
<1>3. Total(est, {}) = g[{}]
  BY <1>1, <1>2, TotalIs
<1> QED
  BY <1>2, <1>3, SumIsTotal DEF Sums

LEMMA SumPick ==
  ASSUME NEW est, NEW S, IsFiniteSet(S), S # {}
  PROVE  SumFunctionOnSet(est, S) =
           est[Pick(S)] + SumFunctionOnSet(est, S \ {Pick(S)})
<1> DEFINE T == S \ {Pick(S)}
<1>1. PICK g : Sums(est, g, S)
  BY SumsExist
<1>2. \E h : Sums(est, h, T)
  BY SumsExist
<1>3. Total(est, S) = g[S]
  BY <1>1, TotalIs
<1>4. Total(est, T) = g[T]
  BY <1>1, <1>2, TotalIs
<1>5. g[S] = est[Pick(S)] + g[T]
  BY <1>1 DEF Sums
<1> QED
  BY <1>3, <1>4, <1>5, SumIsTotal

LEMMA SumType ==
  ASSUME NEW D, NEW est \in [D -> Nat], NEW S \in SUBSET D, IsFiniteSet(S)
  PROVE  SumFunctionOnSet(est, S) \in Nat
<1> DEFINE Good == {T \in SUBSET S : SumFunctionOnSet(est, T) \in Nat}
<1>1. ASSUME NEW T \in SUBSET S, \A U \in SUBSET T : U # T => U \in Good
      PROVE  T \in Good
  <2>1. CASE T = {}
    BY <2>1, SumEmpty
  <2>2. CASE T # {}
    <3>1. Pick(T) \in T /\ est[Pick(T)] \in Nat
      BY <2>2, PickIn
    <3>2. T \ {Pick(T)} \in Good
      BY <1>1, <3>1
    <3>3. IsFiniteSet(T)
      BY FS_Subset
    <3> QED
      BY <2>2, <3>1, <3>2, <3>3, SumPick
  <2> QED
    BY <2>1, <2>2
<1>2. \A T \in SUBSET S : T \in Good
  <2>1. Good \in SUBSET (SUBSET S)
    OBVIOUS
  <2> HIDE DEF Good
  <2> QED
    BY <1>1, <2>1, SubsetInduction
<1> QED
  BY <1>2

\* The order in which elements are picked does not matter.
LEMMA SumAdd ==
  ASSUME NEW D, NEW est \in [D -> Nat], NEW S \in SUBSET D, IsFiniteSet(S), NEW x \in D \ S
  PROVE  SumFunctionOnSet(est, S \cup {x}) = SumFunctionOnSet(est, S) + est[x]
<1> DEFINE F(T) == SumFunctionOnSet(est, T)
           W == S \cup {x}
           Good == {T \in SUBSET W : \A y \in W \ T : F(T \cup {y}) = F(T) + est[y]}
<1>1. IsFiniteSet(W) /\ W \in SUBSET D
  BY FS_AddElement
<1>2. \A T \in SUBSET W : IsFiniteSet(T) /\ F(T) \in Nat
  BY <1>1, FS_Subset, SumType
<1>3. \A T \in SUBSET W : T # {} => F(T) = est[Pick(T)] + F(T \ {Pick(T)})
  BY <1>2, SumPick
<1>4. \A y \in W : est[y] \in Nat
  BY <1>1
<1> HIDE DEF F
<1>5. ASSUME NEW T \in SUBSET W, \A U \in SUBSET T : U # T => U \in Good
      PROVE  T \in Good
  <2> SUFFICES ASSUME NEW y \in W \ T PROVE F(T \cup {y}) = F(T) + est[y]
    OBVIOUS
  <2> DEFINE U == T \cup {y}
             z == Pick(U)
  <2>1. U \in SUBSET W /\ U # {} /\ z \in U
    BY PickIn
  <2>2. F(U) = est[z] + F(U \ {z})
    BY <1>3, <2>1
  <2>3. CASE z = y
    <3>1. U \ {z} = T
      BY <2>3
    <3>2. F(T) \in Nat /\ est[y] \in Nat
      BY <1>2, <1>4
    <3>3. F(U) = est[y] + F(T)
      BY <2>2, <2>3, <3>1
    <3> HIDE DEF U
    <3>4. F(U) = F(T) + est[y]
      BY <3>2, <3>3
    <3> QED
      BY <3>4 DEF U
  <2>4. CASE z # y
    <3> DEFINE V == T \ {z}
    <3>1. z \in T /\ V \in SUBSET T /\ V # T /\ z \in W \ V /\ y \in W \ V
      BY <2>1, <2>4
    <3>2. V \in Good
      BY <1>5, <3>1
    <3>3. U \ {z} = V \cup {y} /\ V \cup {z} = T
      BY <2>4, <3>1
    <3>4. F(V \cup {y}) = F(V) + est[y] /\ F(V \cup {z}) = F(V) + est[z]
      BY <3>1, <3>2
    <3>5. F(V) \in Nat /\ est[y] \in Nat /\ est[z] \in Nat
      BY <1>2, <1>4, <3>1
    <3>6. F(U) = est[z] + (F(V) + est[y]) /\ F(T) = F(V) + est[z]
      BY <2>2, <3>3, <3>4
    <3> QED
      BY <3>5, <3>6
  <2> QED
    BY <2>3, <2>4
<1>6. Good \in SUBSET (SUBSET W)
  OBVIOUS
<1>7. \A T \in SUBSET W : T \in Good
  <2> HIDE DEF Good, W
  <2> QED
    BY <1>1, <1>5, <1>6, SubsetInduction
<1>8. S \in Good
  BY <1>7
<1> QED
  BY <1>8 DEF F

LEMMA SumMonotone ==
  ASSUME NEW D, NEW est \in [D -> Nat], NEW S \in SUBSET D, IsFiniteSet(S), NEW T \in SUBSET S
  PROVE  SumFunctionOnSet(est, T) <= SumFunctionOnSet(est, S)
<1> DEFINE F(U) == SumFunctionOnSet(est, U)
           Good == {U \in SUBSET S : T \subseteq U => F(T) <= F(U)}
<1>1. \A U \in SUBSET S : IsFiniteSet(U) /\ F(U) \in Nat
  BY FS_Subset, SumType
<1>2. ASSUME NEW U \in SUBSET S, \A V \in SUBSET U : V # U => V \in Good, T \subseteq U
      PROVE  F(T) <= F(U)
  <2>1. CASE T = U
    BY <1>1, <2>1
  <2>2. CASE T # U
    <3>1. PICK x \in U : x \notin T
      BY <1>2, <2>2
    <3> DEFINE V == U \ {x}
    <3>2. V \in SUBSET U /\ V # U /\ T \subseteq V /\ V \in SUBSET D /\ x \in D \ V
          /\ V \cup {x} = U
      BY <1>2, <3>1
    <3>3. IsFiniteSet(V)
      BY <1>1, <3>2
    <3>4. F(U) = F(V) + est[x]
      BY <3>2, <3>3, SumAdd
    <3>5. F(T) <= F(V)
      BY <1>2, <3>2
    <3>6. F(T) \in Nat /\ F(V) \in Nat /\ est[x] \in Nat
      BY <1>1, <3>2
    <3> HIDE DEF F
    <3> QED
      BY <3>4, <3>5, <3>6
  <2> QED
    BY <2>1, <2>2
<1>3. ASSUME NEW U \in SUBSET S, \A V \in SUBSET U : V # U => V \in Good
      PROVE  U \in Good
  BY <1>2, <1>3
<1>4. Good \in SUBSET (SUBSET S)
  OBVIOUS
<1>5. \A U \in SUBSET S : U \in Good
  <2> HIDE DEF Good
  <2> QED
    BY <1>3, <1>4, SubsetInduction
<1> QED
  BY <1>5

-----------------------------------------------------------------------------
(* The invariant of the operations *)

Stages == {"none", "claimed", "failed_before_execution", "running",
           "interruption_requested", "finished", "interrupted", "failed"}
Ended == {"done", "stopped", "broken"}

Handler == [pc : {"idle", "claimed", "spawned", "watching"}, id : Inspections \cup {None}]

OpTyped ==
  /\ record \in [Inspections -> Stages]
  /\ bridge \in [Inspections -> {"none", "running"} \cup Ended]
  /\ signals \in [Inspections -> Nat] /\ spawned \in [Inspections -> Nat]
  /\ run \in Handler
  /\ child \in Inspections \cup {None}
  /\ stopped \in BOOLEAN /\ monitor \in BOOLEAN

\* The handler that holds the lock works on an operation whose journal says
\* claimed, and finds no child when it is about to start one.
RunOwned ==
  /\ run.pc # "idle" => run.id \in Inspections /\ record[run.id] = "claimed"
  /\ run.pc = "claimed" =>
       spawned[run.id] = 0 /\ \A j \in Inspections : bridge[j] # "running"
  /\ run.pc \in {"spawned", "watching"} => child = run.id
  /\ monitor => child # None

SpawnedOnce ==
  \A i \in Inspections :
    /\ spawned[i] <= 1
    /\ spawned[i] = 0 <=> bridge[i] = "none"
    /\ spawned[i] = 0 => signals[i] = 0

OneRunning ==
  \A i, j \in Inspections : bridge[i] = "running" /\ bridge[j] = "running" => i = j

\* What this server has not stopped was never signalled.
SignalPending == child # None /\ ~stopped => signals[child] = 0

OpInv ==
  /\ OpTyped /\ RunOwned /\ SpawnedOnce /\ OneRunning
  /\ EndedIsOver /\ SignalPending /\ CleanupUndisturbed

operations == <<record, bridge, signals, spawned, run, child, stopped, monitor>>

LEMMA OpUnchanged == ASSUME OpInv, UNCHANGED operations PROVE OpInv'
BY DEF operations, OpInv, OpTyped, RunOwned, SpawnedOnce, OneRunning, EndedIsOver,
       SignalPending, CleanupUndisturbed

LEMMA RunningAtMostOne ==
  ASSUME OpInv PROVE OneRunAtATime
<1> DEFINE R == {i \in Inspections : bridge[i] = "running"}
<1>1. Cardinality(R) <= 1
  <2>1. CASE R = {}
    BY <2>1, FS_EmptySet
  <2>2. CASE R # {}
    <3>1. PICK i : i \in R
      BY <2>2
    <3>2. R = {i}
      BY <3>1 DEF OpInv, OneRunning
    <3> QED
      BY <3>2, FS_Singleton
  <2> QED
    BY <2>1, <2>2
<1>2. \A i \in Inspections : spawned[i] <= 1
  BY DEF OpInv, SpawnedOnce
<1> QED
  BY <1>1, <1>2 DEF OneRunAtATime

\* An operation that does not keep the workbench busy is over, or was never
\* begun; an operation of another server that may still run does.
LEMMA NotBusy ==
  ASSUME OpInv, NEW i \in Inspections, ~Busy(i)
  PROVE  record[i] \notin {"claimed", "running", "interruption_requested"}
         /\ bridge[i] # "running"
<1>1. record[i] \in Stages
  BY DEF OpInv, OpTyped
<1>2. record[i] \notin {"claimed", "running", "interruption_requested"}
  BY DEF Busy, View
<1>3. bridge[i] # "running"
  BY <1>1, <1>2 DEF OpInv, EndedIsOver, SpawnedOnce, Stages
<1> QED
  BY <1>2, <1>3

\* One signal for the child of this server.
LEMMA StopOwnedOnce ==
  ASSUME OpInv, child \in Inspections, StopOwned(child, stopped)
  PROVE  /\ signals' \in [Inspections -> Nat] /\ stopped' = TRUE
         /\ \A i \in Inspections : signals'[i] <= 1 /\ (spawned[i] = 0 => signals'[i] = 0)
<1>1. signals \in [Inspections -> Nat]
  BY DEF OpInv, OpTyped
<1>2. \A i \in Inspections : signals[i] <= 1 /\ (spawned[i] = 0 => signals[i] = 0)
  BY DEF OpInv, SpawnedOnce, CleanupUndisturbed
<1>3. CASE ~stopped /\ bridge[child] = "running"
  <2>1. signals[child] = 0 /\ spawned[child] # 0
    BY <1>3, WorkbenchAssumption DEF OpInv, SpawnedOnce, SignalPending
  <2>2. signals' = [signals EXCEPT ![child] = signals[child] + 1] /\ stopped' = TRUE
    BY <1>3 DEF StopOwned
  <2> QED
    BY <1>1, <1>2, <2>1, <2>2
<1>4. CASE ~(~stopped /\ bridge[child] = "running")
  <2>1. signals' = signals /\ stopped' = TRUE
    BY <1>4 DEF StopOwned
  <2> QED
    BY <1>1, <1>2, <2>1
<1> QED
  BY <1>3, <1>4

\* The steps that stop the child, and may write the journal of its operation.
LEMMA StopKeeps ==
  ASSUME OpInv, child \in Inspections, StopOwned(child, stopped),
         UNCHANGED <<bridge, spawned, child>>,
         record' \in [Inspections -> Stages],
         \A i \in Inspections : record'[i] = record[i]
                                \/ (i = child /\ record'[i] = "interruption_requested"),
         \/ run' = run /\ record' = record
         \/ run.pc = "idle" /\ run' = run
         \/ run'.pc = "idle" /\ run' \in Handler
         \/ run.pc = "spawned" /\ run' = [run EXCEPT !.pc = "watching"] /\ record' = record,
         monitor' \in BOOLEAN, monitor' => monitor
  PROVE  OpInv'
<1>1. /\ signals' \in [Inspections -> Nat] /\ stopped' = TRUE
      /\ \A i \in Inspections : signals'[i] <= 1 /\ (spawned[i] = 0 => signals'[i] = 0)
  BY StopOwnedOnce
<1>2. OpTyped'
  BY <1>1 DEF OpInv, OpTyped, Handler
<1>3. RunOwned'
  BY DEF OpInv, OpTyped, Handler, RunOwned
<1>4. SpawnedOnce' /\ OneRunning' /\ CleanupUndisturbed' /\ SignalPending'
  BY <1>1 DEF OpInv, SpawnedOnce, OneRunning, CleanupUndisturbed, SignalPending
<1>5. EndedIsOver'
  BY DEF OpInv, EndedIsOver
<1> QED
  BY <1>2, <1>3, <1>4, <1>5 DEF OpInv

LEMMA ClaimKeeps == ASSUME OpInv, NEW i \in Inspections, Claim(i) PROVE OpInv'
<1>1. \A j \in Inspections : bridge[j] # "running"
  BY NotBusy DEF Claim
<1>2. record[i] = "none" /\ spawned[i] = 0
  BY DEF Claim, OpInv, EndedIsOver
<1>3. /\ record' = [record EXCEPT ![i] = "claimed"] /\ run' = [pc |-> "claimed", id |-> i]
      /\ UNCHANGED <<bridge, signals, spawned, child, stopped, monitor>>
  BY DEF Claim, history
<1>4. OpTyped'
  BY <1>3 DEF OpInv, OpTyped, Handler, Stages
<1>5. RunOwned'
  BY <1>1, <1>2, <1>3 DEF OpInv, OpTyped, RunOwned
<1>6. SpawnedOnce' /\ OneRunning' /\ CleanupUndisturbed' /\ SignalPending'
  BY <1>3 DEF OpInv, SpawnedOnce, OneRunning, CleanupUndisturbed, SignalPending
<1>7. EndedIsOver'
  BY <1>3 DEF OpInv, OpTyped, EndedIsOver
<1> QED
  BY <1>4, <1>5, <1>6, <1>7 DEF OpInv

LEMMA FailBeforeExecutionKeeps == ASSUME OpInv, FailBeforeExecution PROVE OpInv'
<1>1. run.pc = "claimed" /\ run.id \in Inspections /\ spawned[run.id] = 0
  BY DEF FailBeforeExecution, OpInv, RunOwned
<1>2. PICK r \in {"failed_before_execution", "claimed"} : record' = [record EXCEPT ![run.id] = r]
  BY DEF FailBeforeExecution
<1>3. run' = NoRun /\ UNCHANGED <<bridge, signals, spawned, child, stopped, monitor>>
  BY DEF FailBeforeExecution, history
<1>4. OpTyped'
  BY <1>1, <1>2, <1>3 DEF OpInv, OpTyped, Handler, Stages, NoRun
<1>5. RunOwned'
  BY <1>3 DEF OpInv, RunOwned, NoRun
<1>6. SpawnedOnce' /\ OneRunning' /\ CleanupUndisturbed' /\ SignalPending'
  BY <1>3 DEF OpInv, SpawnedOnce, OneRunning, CleanupUndisturbed, SignalPending
<1>7. EndedIsOver'
  BY <1>1, <1>2, <1>3 DEF OpInv, OpTyped, EndedIsOver
<1> QED
  BY <1>4, <1>5, <1>6, <1>7 DEF OpInv

LEMMA SpawnKeeps == ASSUME OpInv, Spawn PROVE OpInv'
<1>1. /\ run.pc = "claimed" /\ run.id \in Inspections /\ record[run.id] = "claimed"
      /\ spawned[run.id] = 0 /\ \A j \in Inspections : bridge[j] # "running"
  BY DEF Spawn, OpInv, RunOwned
<1>2. signals[run.id] = 0
  BY <1>1 DEF OpInv, SpawnedOnce
<1>3. /\ bridge' = [bridge EXCEPT ![run.id] = "running"]
      /\ spawned' = [spawned EXCEPT ![run.id] = spawned[run.id] + 1]
      /\ child' = run.id /\ stopped' = FALSE /\ monitor' = TRUE
      /\ run' = [run EXCEPT !.pc = "spawned"]
      /\ UNCHANGED <<record, signals>>
  BY DEF Spawn, journal
<1>4. run'.pc = "spawned" /\ run'.id = run.id /\ run' \in Handler
  <2>1. run \in Handler
    BY DEF OpInv, OpTyped
  <2>2. run' = [pc |-> "spawned", id |-> run.id]
    BY <1>3, <2>1 DEF Handler
  <2> QED
    BY <1>1, <2>2 DEF Handler
<1>5. OpTyped'
  <2>1. spawned' \in [Inspections -> Nat]
    BY <1>1, <1>3 DEF OpInv, OpTyped
  <2>2. bridge' \in [Inspections -> {"none", "running"} \cup Ended]
    BY <1>1, <1>3 DEF OpInv, OpTyped
  <2> QED
    BY <1>1, <1>3, <1>4, <2>1, <2>2 DEF OpInv, OpTyped
<1>6. RunOwned'
  BY <1>1, <1>3, <1>4, WorkbenchAssumption DEF RunOwned
<1>7. SpawnedOnce'
  BY <1>1, <1>3 DEF OpInv, OpTyped, SpawnedOnce
<1>8. OneRunning' /\ CleanupUndisturbed' /\ SignalPending'
  BY <1>1, <1>2, <1>3 DEF OpInv, OpTyped, OneRunning, CleanupUndisturbed, SignalPending
<1>9. EndedIsOver'
  BY <1>1, <1>3 DEF OpInv, OpTyped, EndedIsOver
<1> QED
  BY <1>5, <1>6, <1>7, <1>8, <1>9 DEF OpInv

LEMMA SpawnUnwatchedKeeps == ASSUME OpInv, SpawnUnwatched PROVE OpInv'
<1>1. run.pc = "spawned" /\ child = run.id /\ child \in Inspections
  BY DEF SpawnUnwatched, OpInv, RunOwned
<1>2. /\ StopOwned(child, stopped) /\ monitor' = FALSE
      /\ run' = [run EXCEPT !.pc = "watching"]
      /\ UNCHANGED <<record, bridge, spawned, child>>
  BY <1>1 DEF SpawnUnwatched, journal
<1>3. record' \in [Inspections -> Stages]
  BY <1>2 DEF OpInv, OpTyped
<1> QED
  BY <1>1, <1>2, <1>3, StopKeeps

LEMMA SaveRunningKeeps == ASSUME OpInv, SaveRunning PROVE OpInv'
<1>1. /\ run.pc = "spawned" /\ child = run.id /\ child \in Inspections
      /\ record[child] = "claimed"
  BY DEF SaveRunning, OpInv, RunOwned
<1>2. run' = NoRun /\ UNCHANGED <<bridge, spawned, child, monitor>>
  BY DEF SaveRunning
<1>3. CASE /\ record' = [record EXCEPT ![child] = "running"]
           /\ UNCHANGED <<signals, stopped>>
  <2>1. OpTyped'
    BY <1>1, <1>2, <1>3 DEF OpInv, OpTyped, Handler, Stages, NoRun
  <2>2. RunOwned'
    BY <1>2 DEF OpInv, RunOwned, NoRun
  <2>3. SpawnedOnce' /\ OneRunning' /\ CleanupUndisturbed' /\ SignalPending'
    BY <1>2, <1>3 DEF OpInv, SpawnedOnce, OneRunning, CleanupUndisturbed, SignalPending
  <2>4. EndedIsOver'
    BY <1>1, <1>2, <1>3 DEF OpInv, OpTyped, EndedIsOver
  <2> QED
    BY <2>1, <2>2, <2>3, <2>4 DEF OpInv
<1>4. CASE StopOwned(child, stopped) /\ record' = record
  <2>1. record' \in [Inspections -> Stages] /\ monitor' \in BOOLEAN
    BY <1>2, <1>4 DEF OpInv, OpTyped
  <2>2. run'.pc = "idle" /\ run' \in Handler
    BY <1>2 DEF NoRun, Handler
  <2> QED
    BY <1>1, <1>2, <1>4, <2>1, <2>2, StopKeeps
<1> QED
  BY <1>1, <1>3, <1>4 DEF SaveRunning

LEMMA BridgeExitsKeeps == ASSUME OpInv, NEW i \in Inspections, BridgeExits(i) PROVE OpInv'
<1>1. PICK code \in Ended : bridge' = [bridge EXCEPT ![i] = code]
  BY DEF BridgeExits, Ended
<1>2. /\ bridge[i] = "running"
      /\ UNCHANGED <<record, signals, spawned, run, child, stopped, monitor>>
  BY DEF BridgeExits, journal, history, running
<1>3. OpTyped'
  BY <1>1, <1>2 DEF OpInv, OpTyped
<1>4. RunOwned'
  BY <1>1, <1>2 DEF OpInv, OpTyped, RunOwned
<1>5. SpawnedOnce' /\ OneRunning'
  BY <1>1, <1>2 DEF OpInv, OpTyped, SpawnedOnce, OneRunning, Ended
<1>6. CleanupUndisturbed' /\ SignalPending'
  BY <1>2 DEF OpInv, CleanupUndisturbed, SignalPending
<1>7. EndedIsOver'
  BY <1>1, <1>2 DEF OpInv, OpTyped, EndedIsOver, Ended
<1> QED
  BY <1>3, <1>4, <1>5, <1>6, <1>7 DEF OpInv

LEMMA SaveOutcomeKeeps == ASSUME OpInv, SaveOutcome PROVE OpInv'
<1>1. child \in Inspections /\ bridge[child] \in Ended
  BY DEF SaveOutcome, Outcome, Ended, OpInv, OpTyped
<1>2. PICK r \in {Outcome[bridge[child]], "failed", record[child]} :
        record' = [record EXCEPT ![child] = r]
  BY DEF SaveOutcome
<1>3. /\ monitor' = FALSE /\ run' = NoRun
      /\ UNCHANGED <<bridge, signals, spawned, child, stopped>>
  BY DEF SaveOutcome, history
<1>4. Outcome[bridge[child]] \in {"finished", "interrupted", "failed"}
  BY <1>1 DEF Outcome, Ended
<1>5. r \in {"finished", "interrupted", "failed"} \/ r = record[child]
  BY <1>2, <1>4
<1>6. r \in Stages
  BY <1>1, <1>5 DEF OpInv, OpTyped, Stages
<1>7. OpTyped'
  BY <1>1, <1>2, <1>3, <1>6 DEF OpInv, OpTyped, Handler, NoRun
<1>8. RunOwned'
  BY <1>3 DEF RunOwned, NoRun
<1>9. SpawnedOnce' /\ OneRunning' /\ CleanupUndisturbed' /\ SignalPending'
  BY <1>3 DEF OpInv, SpawnedOnce, OneRunning, CleanupUndisturbed, SignalPending
<1>10. EndedIsOver'
  BY <1>1, <1>2, <1>3, <1>5 DEF OpInv, OpTyped, EndedIsOver, Ended
<1> QED
  BY <1>7, <1>8, <1>9, <1>10 DEF OpInv

LEMMA PipeBreaksKeeps == ASSUME OpInv, PipeBreaks PROVE OpInv'
<1>1. child \in Inspections
  BY DEF PipeBreaks, OpInv, OpTyped, RunOwned
<1>2. StopOwned(child, stopped) /\ UNCHANGED <<record, bridge, spawned, run, child, monitor>>
  BY DEF PipeBreaks, journal
<1>3. record' \in [Inspections -> Stages] /\ monitor' \in BOOLEAN
  BY <1>2 DEF OpInv, OpTyped
<1> QED
  BY <1>1, <1>2, <1>3, StopKeeps

LEMMA InterruptKeeps == ASSUME OpInv, NEW i \in Inspections, Interrupt(i) PROVE OpInv'
<1>1. child = i /\ run.pc = "idle"
  BY DEF Interrupt, Live, Unlocked
<1>2. /\ StopOwned(child, stopped) /\ UNCHANGED <<bridge, spawned, run, child, monitor>>
      /\ record' = [record EXCEPT ![i] = "interruption_requested"]
  BY <1>1 DEF Interrupt
<1>3. record' \in [Inspections -> Stages] /\ monitor' \in BOOLEAN
  BY <1>2 DEF OpInv, OpTyped, Stages
<1>4. \A j \in Inspections : record'[j] = record[j]
                             \/ (j = child /\ record'[j] = "interruption_requested")
  BY <1>1, <1>2 DEF OpInv, OpTyped
<1> QED
  BY <1>1, <1>2, <1>3, <1>4, StopKeeps

LEMMA StopChildKeeps == ASSUME OpInv, StopChild PROVE OpInv'
<1>1. CASE child # None /\ bridge[child] = "running"
  <2>1. child \in Inspections
    BY <1>1 DEF OpInv, OpTyped
  <2>2. StopOwned(child, stopped) /\ UNCHANGED <<record, bridge, spawned, run, child, monitor>>
    BY <1>1 DEF StopChild, journal
  <2>3. record' \in [Inspections -> Stages] /\ monitor' \in BOOLEAN
    BY <2>2 DEF OpInv, OpTyped
  <2> QED
    BY <2>1, <2>2, <2>3, StopKeeps
<1>2. CASE ~(child # None /\ bridge[child] = "running")
  BY <1>2, OpUnchanged DEF StopChild, operations, journal
<1> QED
  BY <1>1, <1>2

\* What the server knew of its child ends with it, the child does not.
LEMMA ForgetKeepsOp ==
  ASSUME OpInv, Forget, UNCHANGED <<record, bridge, signals, spawned>> PROVE OpInv'
<1>1. run' = NoRun /\ child' = None /\ stopped' = FALSE /\ monitor' = FALSE
  BY DEF Forget
<1> QED
  BY <1>1 DEF OpInv, OpTyped, Handler, RunOwned, SpawnedOnce, OneRunning, EndedIsOver,
              SignalPending, CleanupUndisturbed, NoRun

-----------------------------------------------------------------------------
(* The invariant of the model calls *)

CallStages == {"none", "claimed", "sending", "cancel_requested", "cancelled", "completed",
               "failed", "uncertain"}
Results == {"cancelled", "completed", "failed", "uncertain"}
Thread == [pc : {"none", "started", "calling", "waiting", "answered", "saving"},
           outcome : Results \cup {"none"}]
Transport == [pc : {"idle", "connecting", "cleared", "sent"}, id : Previews \cup {None}]

CallTyped ==
  /\ calls \in [Previews -> CallStages] /\ sent \in [Previews -> Nat]
  /\ active \in Previews \cup {None} /\ cancel \in BOOLEAN
  /\ thread \in Thread /\ transport \in Transport

\* What was transmitted is in the journal.
SentOnce == \A m \in Previews : sent[m] <= 1 /\ (calls[m] = "none" => sent[m] = 0)

\* The daemon has not transmitted before it is sent off, also when the call
\* that it serves was given up long ago.
CarriesOnce ==
  transport.pc # "idle" =>
    /\ transport.id \in Previews /\ calls[transport.id] # "none"
    /\ transport.pc # "sent" => sent[transport.id] = 0

\* The model thread that may still connect works on a preview that no daemon
\* carries.
ThreadOnce ==
  /\ active \in Previews => calls[active] # "none"
  /\ thread.pc # "none" =>
    /\ active \in Previews
    /\ thread.pc \in {"started", "calling"} =>
         sent[active] = 0 /\ (transport.pc # "idle" => transport.id # active)
    /\ thread.pc = "saving" => thread.outcome \in Results

WithinBudget == IsFiniteSet(Called) /\ Reserved <= Budget

CallInv == CallTyped /\ SentOnce /\ CarriesOnce /\ ThreadOnce /\ WithinBudget

modelcalls == <<calls, sent, active, cancel, thread, transport>>

LEMMA CallsUnchanged == ASSUME CallInv, UNCHANGED modelcalls PROVE CallInv'
BY DEF modelcalls, CallInv, CallTyped, SentOnce, CarriesOnce, ThreadOnce, WithinBudget, Called,
       Reserved

\* A call that is in the journal stays there, whatever becomes of it.
LEMMA SettledWithin ==
  ASSUME CallInv, NEW m \in Previews, calls[m] # "none",
         NEW stage \in CallStages \ {"none"}, calls' = [calls EXCEPT ![m] = stage]
  PROVE  /\ calls' \in [Previews -> CallStages]
         /\ \A n \in Previews : calls'[n] = "none" <=> calls[n] = "none"
         /\ WithinBudget'
<1>1. calls \in [Previews -> CallStages]
  BY DEF CallInv, CallTyped
<1>2. \A n \in Previews : calls'[n] = "none" <=> calls[n] = "none"
  BY <1>1
<1>3. Called' = Called
  BY <1>2 DEF Called
<1> QED
  BY <1>1, <1>2, <1>3 DEF CallInv, WithinBudget, Reserved

\* No call enters the journal.
LEMMA SameCalls == ASSUME CallInv, calls' = calls PROVE WithinBudget'
BY DEF CallInv, WithinBudget, Called, Reserved

\* The reservation of a preview is within the budget before it is made.
LEMMA SubmitReserves ==
  ASSUME CallInv, NEW m \in Previews, Submit(m) PROVE WithinBudget'
<1>1. calls[m] = "none" /\ calls' = [calls EXCEPT ![m] = "claimed"]
      /\ Reserved + Estimate[m] <= Budget
  BY DEF Submit
<1>2. Called' = Called \cup {m} /\ m \notin Called
  BY <1>1 DEF Called, CallInv, CallTyped
<1>3. Estimate \in [Previews -> Nat] /\ Called \in SUBSET Previews /\ IsFiniteSet(Called)
  BY WorkbenchAssumption DEF CallInv, WithinBudget, Called
<1>4. SumFunctionOnSet(Estimate, Called \cup {m}) =
        SumFunctionOnSet(Estimate, Called) + Estimate[m]
  BY <1>2, <1>3, SumAdd
<1>5. IsFiniteSet(Called \cup {m})
  BY <1>3, FS_AddElement
<1> QED
  BY <1>1, <1>2, <1>4, <1>5 DEF WithinBudget, Reserved

LEMMA SubmitKeeps == ASSUME CallInv, NEW m \in Previews, Submit(m) PROVE CallInv'
<1>1. /\ calls[m] = "none" /\ calls' = [calls EXCEPT ![m] = "claimed"] /\ cancel' = FALSE
      /\ UNCHANGED <<sent, transport>>
  BY DEF Submit, history
<1>2. \/ active' = m /\ thread' = [pc |-> "started", outcome |-> "none"]
      \/ UNCHANGED <<active, thread>>
  BY DEF Submit
<1>3. sent[m] = 0 /\ (transport.pc # "idle" => transport.id # m)
  BY <1>1 DEF CallInv, SentOnce, CarriesOnce
<1>4. CallTyped'
  <2>1. thread' \in Thread
    BY <1>2 DEF CallInv, CallTyped, Thread
  <2>2. calls' \in [Previews -> CallStages]
    BY <1>1 DEF CallInv, CallTyped, CallStages
  <2> QED
    BY <1>1, <1>2, <2>1, <2>2 DEF CallInv, CallTyped
<1>5. \A n \in Previews : calls'[n] # "none" <=> (calls[n] # "none" \/ n = m)
  BY <1>1 DEF CallInv, CallTyped
<1>6. SentOnce'
  BY <1>1, <1>5 DEF CallInv, SentOnce
<1>7. CarriesOnce'
  BY <1>1, <1>5 DEF CallInv, CarriesOnce
<1>8. ThreadOnce'
  BY <1>1, <1>2, <1>3, <1>5 DEF CallInv, ThreadOnce
<1> QED
  BY <1>4, <1>6, <1>7, <1>8, SubmitReserves DEF CallInv

\* The form of a step of the model thread alone.
LEMMA ThreadMoves ==
  ASSUME CallInv, UNCHANGED <<calls, sent, active, transport>>, cancel' \in BOOLEAN,
         thread' \in Thread, thread.pc # "none" \/ thread' = thread,
         thread' = thread \/ thread'.pc \in {"answered", "saving"},
         thread'.pc = "saving" => thread'.outcome \in Results
  PROVE  CallInv'
<1>1. CallTyped' /\ SentOnce' /\ CarriesOnce'
  BY DEF CallInv, CallTyped, SentOnce, CarriesOnce
<1>2. ThreadOnce'
  BY DEF CallInv, ThreadOnce
<1> QED
  BY <1>1, <1>2, SameCalls DEF CallInv

LEMMA ThreadForm ==
  ASSUME NEW outcome \in Results
  PROVE  [pc |-> "saving", outcome |-> outcome] \in Thread
         /\ [pc |-> "saving", outcome |-> outcome].pc = "saving"
         /\ [pc |-> "saving", outcome |-> outcome].outcome = outcome
BY DEF Thread

LEMMA BeginKeeps == ASSUME CallInv, Begin PROVE CallInv'
<1>1. thread.pc = "started" /\ UNCHANGED <<sent, active, cancel, transport>>
  BY DEF Begin, history
<1>2. active \in Previews /\ calls[active] # "none" /\ cancel' \in BOOLEAN
  BY <1>1 DEF CallInv, CallTyped, ThreadOnce
<1>3. CASE /\ calls' = [calls EXCEPT ![active] = "sending"]
           /\ thread' = [thread EXCEPT !.pc = "calling"]
  <2>1. /\ calls' \in [Previews -> CallStages] /\ WithinBudget'
        /\ \A n \in Previews : calls'[n] = "none" <=> calls[n] = "none"
    BY <1>2, <1>3, SettledWithin DEF CallStages
  <2>2. thread' \in Thread /\ thread'.pc = "calling"
    BY <1>3 DEF CallInv, CallTyped, Thread
  <2>3. CallTyped' /\ SentOnce' /\ CarriesOnce' /\ ThreadOnce'
    BY <1>1, <1>2, <2>1, <2>2 DEF CallInv, CallTyped, SentOnce, CarriesOnce, ThreadOnce
  <2> QED
    BY <2>1, <2>3 DEF CallInv
<1>4. CASE /\ calls' = calls
           /\ \E outcome \in Results : thread' = [pc |-> "saving", outcome |-> outcome]
  BY <1>1, <1>2, <1>4, ThreadForm, ThreadMoves
<1> QED
  BY <1>3, <1>4 DEF Begin, Results

LEMMA ConnectKeeps == ASSUME CallInv, Connect PROVE CallInv'
<1>1. thread.pc = "calling" /\ UNCHANGED <<calls, sent, active, cancel>>
  BY DEF Connect, journal, history
<1>2. /\ active \in Previews /\ calls[active] # "none" /\ sent[active] = 0
      /\ cancel' \in BOOLEAN
  BY <1>1 DEF CallInv, CallTyped, ThreadOnce
<1>3. CASE /\ transport' = [pc |-> "connecting", id |-> active]
           /\ thread' = [thread EXCEPT !.pc = "waiting"]
  <2>1. thread' \in Thread /\ thread'.pc = "waiting"
    BY <1>3 DEF CallInv, CallTyped, Thread
  <2>2. transport' \in Transport
    BY <1>2, <1>3 DEF Transport
  <2>3. CallTyped' /\ SentOnce' /\ CarriesOnce' /\ ThreadOnce'
    BY <1>1, <1>2, <1>3, <2>1, <2>2
       DEF CallInv, CallTyped, SentOnce, CarriesOnce, ThreadOnce
  <2> QED
    BY <1>1, <2>3, SameCalls DEF CallInv
<1>4. CASE /\ transport' = transport
           /\ \E outcome \in Results : thread' = [pc |-> "saving", outcome |-> outcome]
  BY <1>1, <1>2, <1>4, ThreadForm, ThreadMoves
<1> QED
  BY <1>3, <1>4 DEF Connect, Results

LEMMA CheckAbandonedKeeps == ASSUME CallInv, CheckAbandoned PROVE CallInv'
<1>1. transport.pc = "connecting" /\ UNCHANGED <<calls, sent, active, cancel, thread>>
  BY DEF CheckAbandoned, journal, history, authoring
<1>2. /\ transport' \in Transport /\ transport'.pc \in {"idle", "cleared"}
      /\ transport'.pc = "cleared" => transport'.id = transport.id
  BY <1>1 DEF CheckAbandoned, CallInv, CallTyped, Transport, NoTransport
<1>3. CallTyped' /\ SentOnce' /\ CarriesOnce' /\ ThreadOnce'
  BY <1>1, <1>2 DEF CallInv, CallTyped, SentOnce, CarriesOnce, ThreadOnce
<1> QED
  BY <1>1, <1>3, SameCalls DEF CallInv

LEMMA TransmitKeeps == ASSUME CallInv, Transmit PROVE CallInv'
<1>1. /\ transport.pc = "cleared" /\ UNCHANGED <<calls, active, cancel, thread>>
      /\ sent' = [sent EXCEPT ![transport.id] = sent[transport.id] + 1]
      /\ transport' = [transport EXCEPT !.pc = "sent"]
  BY DEF Transmit, journal, authoring
<1>2. /\ transport.id \in Previews /\ calls[transport.id] # "none"
      /\ sent[transport.id] = 0
  BY <1>1 DEF CallInv, CarriesOnce
<1>3. /\ transport' \in Transport /\ transport'.pc = "sent"
      /\ transport'.id = transport.id
  BY <1>1 DEF CallInv, CallTyped, Transport
<1>4. /\ sent' \in [Previews -> Nat] /\ sent'[transport.id] = 1
      /\ \A m \in Previews \ {transport.id} : sent'[m] = sent[m]
  BY <1>1, <1>2 DEF CallInv, CallTyped
<1>5. CallTyped' /\ CarriesOnce'
  BY <1>1, <1>2, <1>3, <1>4 DEF CallInv, CallTyped, CarriesOnce
<1>6. SentOnce'
  BY <1>1, <1>2, <1>4 DEF CallInv, SentOnce
<1>7. ThreadOnce'
  BY <1>1, <1>2, <1>3, <1>4 DEF CallInv, ThreadOnce
<1> QED
  BY <1>1, <1>5, <1>6, <1>7, SameCalls DEF CallInv

LEMMA AnswerKeeps == ASSUME CallInv, Answer PROVE CallInv'
<1>1. /\ transport' = NoTransport /\ UNCHANGED <<calls, sent, active, cancel>>
  BY DEF Answer, journal, history
<1>2. \/ thread' = thread
      \/ /\ thread.pc = "waiting"
         /\ thread' \in Thread
         /\ thread'.pc \in {"answered", "saving"}
         /\ thread'.pc = "saving" => thread'.outcome \in Results
  <2>1. CASE Waited
    <3>1. \/ thread' = [pc |-> "saving", outcome |-> "failed"]
          \/ thread' = [pc |-> "saving", outcome |-> "uncertain"]
          \/ thread' = [thread EXCEPT !.pc = "answered"]
      BY <2>1 DEF Answer
    <3>2. thread' = [thread EXCEPT !.pc = "answered"] =>
            thread' \in Thread /\ thread'.pc = "answered"
      BY DEF CallInv, CallTyped, Thread
    <3>3. thread.pc = "waiting"
      BY <2>1 DEF Waited
    <3>4. \A outcome \in Results : thread' = [pc |-> "saving", outcome |-> outcome] =>
            thread' \in Thread /\ thread'.pc = "saving" /\ thread'.outcome \in Results
      BY ThreadForm
    <3>5. "failed" \in Results /\ "uncertain" \in Results
      BY DEF Results
    <3>6. CASE thread' = [thread EXCEPT !.pc = "answered"]
      BY <3>2, <3>3, <3>6
    <3>7. CASE thread' # [thread EXCEPT !.pc = "answered"]
      <4>1. \E outcome \in Results : thread' = [pc |-> "saving", outcome |-> outcome]
        BY <3>1, <3>5, <3>7
      <4> QED
        BY <3>3, <3>4, <4>1
    <3> QED
      BY <3>6, <3>7
  <2>2. CASE ~Waited
    BY <2>2 DEF Answer
  <2> QED
    BY <2>1, <2>2
<1>3. transport' \in Transport /\ transport'.pc = "idle"
  BY <1>1 DEF Transport, NoTransport
<1>4. CallTyped' /\ SentOnce' /\ CarriesOnce'
  BY <1>1, <1>2, <1>3 DEF CallInv, CallTyped, SentOnce, CarriesOnce
<1>5. ThreadOnce'
  BY <1>1, <1>2, <1>3 DEF CallInv, ThreadOnce
<1> QED
  BY <1>1, <1>4, <1>5, SameCalls DEF CallInv

\* Abandon and Publish
LEMMA ConcludeKeeps == ASSUME CallInv, Abandon \/ Publish PROVE CallInv'
<1>1. /\ thread.pc # "none" /\ UNCHANGED <<calls, sent, active, cancel, transport>>
      /\ \E outcome \in Results : thread' = [pc |-> "saving", outcome |-> outcome]
  BY DEF Abandon, Publish, journal, history, Results
<1>2. cancel' \in BOOLEAN
  BY <1>1 DEF CallInv, CallTyped
<1> QED
  BY <1>1, <1>2, ThreadForm, ThreadMoves

LEMMA SaveCallKeeps == ASSUME CallInv, SaveCall PROVE CallInv'
<1>1. /\ thread.pc = "saving" /\ UNCHANGED <<sent, cancel, transport>>
      /\ active' = None /\ thread' = NoThread
  BY DEF SaveCall, history
<1>2. active \in Previews /\ calls[active] # "none" /\ thread.outcome \in Results
  BY <1>1 DEF CallInv, ThreadOnce
<1>3. PICK stage \in CallStages \ {"none"} : calls' = [calls EXCEPT ![active] = stage]
  BY <1>2 DEF SaveCall, CallInv, CallTyped, Results, CallStages
<1>4. /\ calls' \in [Previews -> CallStages] /\ WithinBudget'
      /\ \A n \in Previews : calls'[n] = "none" <=> calls[n] = "none"
  BY <1>2, <1>3, SettledWithin
<1>5. thread' \in Thread /\ thread'.pc = "none"
  BY <1>1 DEF Thread, NoThread
<1>6. CallTyped' /\ SentOnce' /\ CarriesOnce' /\ ThreadOnce'
  BY <1>1, <1>4, <1>5, WorkbenchAssumption
     DEF CallInv, CallTyped, SentOnce, CarriesOnce, ThreadOnce
<1> QED
  BY <1>4, <1>6 DEF CallInv

\* Only a call that was submitted can be cancelled: between the journal and the
\* start of its thread nothing is active.
LEMMA CancelCallKeeps == ASSUME CallInv, NEW m \in Previews, CancelCall(m) PROVE CallInv'
<1>1. /\ active = m /\ cancel' = TRUE /\ calls' = [calls EXCEPT ![m] = "cancel_requested"]
      /\ UNCHANGED <<sent, active, thread, transport>>
  BY DEF CancelCall, history
<1>2. calls[m] # "none"
  BY <1>1 DEF CallInv, ThreadOnce
<1>3. /\ calls' \in [Previews -> CallStages] /\ WithinBudget'
      /\ \A n \in Previews : calls'[n] = "none" <=> calls[n] = "none"
  BY <1>1, <1>2, SettledWithin DEF CallStages
<1>4. CallTyped' /\ SentOnce' /\ CarriesOnce' /\ ThreadOnce'
  BY <1>1, <1>3 DEF CallInv, CallTyped, SentOnce, CarriesOnce, ThreadOnce
<1> QED
  BY <1>3, <1>4 DEF CallInv

LEMMA ForgetKeepsCalls == ASSUME CallInv, Forget, UNCHANGED <<calls, sent>> PROVE CallInv'
<1>1. /\ active' = None /\ cancel' = FALSE /\ thread' = NoThread /\ transport' = NoTransport
  BY DEF Forget
<1>2. thread' \in Thread /\ thread'.pc = "none" /\ transport' \in Transport
      /\ transport'.pc = "idle"
  BY <1>1 DEF Thread, Transport, NoThread, NoTransport
<1>3. CallTyped' /\ SentOnce' /\ CarriesOnce' /\ ThreadOnce'
  BY <1>1, <1>2, WorkbenchAssumption
     DEF CallInv, CallTyped, SentOnce, CarriesOnce, ThreadOnce
<1> QED
  BY <1>3, SameCalls DEF CallInv

\* Ctrl-C cancels the call, and leaves its thread to conclude it.
LEMMA CloseKeepsCalls == ASSUME CallInv, Close PROVE CallInv'
<1>1. UNCHANGED <<calls, sent, active, thread, transport>> /\ cancel' \in BOOLEAN
  BY DEF Close, journal, history
<1>2. thread' \in Thread
  BY <1>1 DEF CallInv, CallTyped
<1>3. thread'.pc = "saving" => thread'.outcome \in Results
  BY <1>1 DEF CallInv, ThreadOnce
<1> QED
  BY <1>1, <1>2, <1>3, ThreadMoves

-----------------------------------------------------------------------------
(* Both invariants *)

WorkInv == OpInv /\ CallInv

LEMMA WorkInitially == Init => WorkInv
<1> SUFFICES ASSUME Init PROVE WorkInv
  OBVIOUS
<1>1. OpInv
  <2>1. OpTyped
    <3>1. run \in Handler
      BY DEF Init, NoRun, Handler
    <3> QED
      BY <3>1 DEF Init, OpTyped, Stages
  <2>2. RunOwned /\ SignalPending
    BY DEF Init, NoRun, RunOwned, SignalPending
  <2>3. SpawnedOnce /\ OneRunning /\ EndedIsOver /\ CleanupUndisturbed
    BY DEF Init, SpawnedOnce, OneRunning, EndedIsOver, CleanupUndisturbed
  <2> QED
    BY <2>1, <2>2, <2>3 DEF OpInv
<1>2. thread \in Thread /\ thread.pc = "none" /\ transport \in Transport
      /\ transport.pc = "idle"
  BY DEF Init, Thread, Transport, NoThread, NoTransport
<1>3. CallTyped
  BY <1>2 DEF Init, CallTyped, CallStages
<1>4. SentOnce
  BY DEF Init, SentOnce
<1>5. CarriesOnce /\ ThreadOnce
  BY <1>2, WorkbenchAssumption DEF Init, CarriesOnce, ThreadOnce
<1>6. WithinBudget
  <2>1. Called = {}
    BY DEF Init, Called
  <2>2. Reserved = 0
    BY <2>1, SumEmpty DEF Reserved
  <2> QED
    BY <2>1, <2>2, FS_EmptySet, WorkbenchAssumption DEF WithinBudget
<1> QED
  BY <1>1, <1>3, <1>4, <1>5, <1>6 DEF WorkInv, CallInv

\* The operations leave the model calls alone, and the other way round.
LEMMA OperationKeeps == ASSUME WorkInv, Operation PROVE WorkInv'
<1>1. UNCHANGED modelcalls
  BY DEF Operation, Claim, Interrupt, FailBeforeExecution, Spawn, SpawnUnwatched, SaveRunning,
         SaveOutcome, PipeBreaks, modelcalls, authoring, history, journal
<1>2. CallInv'
  BY <1>1, CallsUnchanged DEF WorkInv
<1>3. OpInv'
  BY ClaimKeeps, InterruptKeeps, FailBeforeExecutionKeeps, SpawnKeeps, SpawnUnwatchedKeeps,
     SaveRunningKeeps, SaveOutcomeKeeps, PipeBreaksKeeps DEF Operation, WorkInv
<1> QED
  BY <1>2, <1>3 DEF WorkInv

LEMMA ModelCallKeeps == ASSUME WorkInv, ModelCall PROVE WorkInv'
<1>1. UNCHANGED operations
  BY DEF ModelCall, Submit, CancelCall, Begin, Connect, CheckAbandoned, Transmit, Answer,
         Abandon, Publish, SaveCall, operations, running, history, journal
<1>2. OpInv'
  BY <1>1, OpUnchanged DEF WorkInv
<1>3. CallInv'
  BY SubmitKeeps, CancelCallKeeps, BeginKeeps, ConnectKeeps, CheckAbandonedKeeps,
     TransmitKeeps, AnswerKeeps, ConcludeKeeps, SaveCallKeeps DEF ModelCall, WorkInv
<1> QED
  BY <1>2, <1>3 DEF WorkInv

LEMMA WorkInductive == WorkInv /\ [Next]_vars => WorkInv'
<1> SUFFICES ASSUME WorkInv, [Next]_vars PROVE WorkInv'
  OBVIOUS
<1>1. ASSUME NEW i \in Inspections, BridgeExits(i) PROVE WorkInv'
  <2>1. UNCHANGED modelcalls
    BY <1>1 DEF BridgeExits, modelcalls, journal, history, authoring
  <2> QED
    BY <1>1, <2>1, BridgeExitsKeeps, CallsUnchanged DEF WorkInv
<1>2. CASE Close
  <2>1. UNCHANGED operations
    BY <1>2 DEF Close, operations, journal, history, running
  <2> QED
    BY <1>2, <2>1, OpUnchanged, CloseKeepsCalls DEF WorkInv
<1>3. CASE StopChild
  <2>1. UNCHANGED modelcalls
    BY <1>3 DEF StopChild, modelcalls, journal, authoring
  <2> QED
    BY <1>3, <2>1, StopChildKeeps, CallsUnchanged DEF WorkInv
<1>4. CASE Exit \/ Crash
  <2>1. Forget /\ UNCHANGED <<record, bridge, signals, spawned, calls, sent>>
    BY <1>4 DEF Exit, Crash, journal, history
  <2> QED
    BY <2>1, ForgetKeepsOp, ForgetKeepsCalls DEF WorkInv
<1>5. CASE Start \/ UNCHANGED vars
  <2>1. UNCHANGED operations /\ UNCHANGED modelcalls
    BY <1>5 DEF Start, vars, operations, modelcalls, journal, history, running, authoring
  <2> QED
    BY <2>1, OpUnchanged, CallsUnchanged DEF WorkInv
<1> QED
  BY <1>1, <1>2, <1>3, <1>4, <1>5, OperationKeeps, ModelCallKeeps DEF Next

LEMMA WorkAlways == Spec => []WorkInv
<1>1. Init => WorkInv
  BY WorkInitially
<1>2. WorkInv /\ [Next]_vars => WorkInv'
  BY WorkInductive
<1> QED
  BY <1>1, <1>2, PTL DEF Spec

-----------------------------------------------------------------------------
(* The results *)

\* A permission starts at most one bridge, and there is at most one bridge at
\* a time, also after crashes that leave one running that nobody owns
\* (workbench.py, run: the durable claim and the check for uncertain ends).
THEOREM OneRunAtATimeAlways == Spec => []OneRunAtATime
<1>1. WorkInv => OneRunAtATime
  BY RunningAtMostOne DEF WorkInv
<1> QED
  BY <1>1, WorkAlways, PTL

\* The journal never reports an end that did not happen (workbench.py, watch,
\* operation and run).
THEOREM EndedIsAlwaysOver == Spec => []EndedIsOver
<1>1. WorkInv => EndedIsOver
  BY DEF WorkInv, OpInv
<1> QED
  BY <1>1, WorkAlways, PTL

\* However many of the five ways to stop a child meet, it is signalled once
\* (workbench.py, stop_owned).
THEOREM CleanupIsUndisturbed == Spec => []CleanupUndisturbed
<1>1. WorkInv => CleanupUndisturbed
  BY DEF WorkInv, OpInv
<1> QED
  BY <1>1, WorkAlways, PTL

\* Each preview is transmitted at most once, and what all servers together have
\* transmitted is within the budget (authoring.py, submit and _generate;
\* model_provider.py, direct_https_request).
THEOREM SpendingStaysBounded == Spec => []SpendingIsBounded
<1>1. WorkInv => SpendingIsBounded
  <2> SUFFICES ASSUME WorkInv PROVE SpendingIsBounded
    OBVIOUS
  <2> DEFINE Paid == {m \in Previews : sent[m] > 0}
  <2>1. \A m \in Previews : sent[m] <= 1 /\ sent[m] \in Nat
    BY DEF WorkInv, CallInv, SentOnce, CallTyped
  <2>2. Paid \in SUBSET Called
    BY <2>1 DEF WorkInv, CallInv, SentOnce, Called
  <2>3. Estimate \in [Previews -> Nat] /\ Called \in SUBSET Previews /\ IsFiniteSet(Called)
    BY WorkbenchAssumption DEF WorkInv, CallInv, WithinBudget, Called
  <2>4. SumFunctionOnSet(Estimate, Paid) <= SumFunctionOnSet(Estimate, Called)
    BY <2>2, <2>3, SumMonotone
  <2>5. Paid \in SUBSET Previews /\ IsFiniteSet(Paid)
    BY <2>2, <2>3, FS_Subset
  <2>6. SumFunctionOnSet(Estimate, Paid) \in Nat /\ SumFunctionOnSet(Estimate, Called) \in Nat
    BY <2>3, <2>5, SumType
  <2>7. SumFunctionOnSet(Estimate, Called) <= Budget
    BY DEF WorkInv, CallInv, WithinBudget, Reserved
  <2>8. SumFunctionOnSet(Estimate, Paid) <= Budget
    <3> HIDE DEF Paid
    <3> QED
      BY <2>4, <2>6, <2>7, WorkbenchAssumption
  <2> QED
    BY <2>1, <2>8 DEF SpendingIsBounded
<1> QED
  BY <1>1, WorkAlways, PTL

===============================================================================
