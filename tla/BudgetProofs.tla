---------------------------- MODULE BudgetProofs ----------------------------
(***************************************************************************)
(* Proofs about the components that keep an account.  TrainingBudget: the  *)
(* ledger adds up, no limit is exceeded and no training time is forgotten, *)
(* and what an index names can be restored.  PilotBudget: the validators   *)
(* never refuse a stop, no stage is charged beyond its allocation and its  *)
(* overruns, and the guard is in time.  InferenceAssets: jobs keep their   *)
(* model, and the image store stays within its bytes and keeps what it     *)
(* published.  The accounts are sums over finite sets; their laws come     *)
(* first, each by a smallest set for which it would fail.                  *)
(***************************************************************************)
EXTENDS TrainingBudget, PilotBudget, InferenceAssets, Functions, FiniteSetTheorems, WellFoundedInduction, TLAPS

-----------------------------------------------------------------------------
(* Sums over finite sets *)

\* A nonempty family of subsets of a finite set has a member with no smaller one in it:
\* this is how a statement about all finite sets is proved here.
LEMMA SmallestSubset ==
    ASSUME NEW S, IsFiniteSet(S), NEW F \in SUBSET SUBSET S, F # {}
    PROVE  \E T \in F : \A U \in F : U \subseteq T => U = T
<1>1. IsWellFoundedOn(StrictSubsetOrdering(S), FiniteSubsetsOf(S))
  BY FS_StrictSubsetOrderingWellFounded
<1>2. F \subseteq FiniteSubsetsOf(S)
  BY FS_FiniteSubsetsOfFinite
<1>3. PICK T \in F : \A U \in F : ~ (<<U, T>> \in StrictSubsetOrdering(S))
  <2> HIDE DEF FiniteSubsetsOf, StrictSubsetOrdering
  <2> QED BY <1>1, <1>2, WFMin, Zenon
<1>4. ASSUME NEW U \in F, U \subseteq T PROVE U = T
  <2>1. U \in SUBSET S /\ T \in SUBSET S
    OBVIOUS
  <2>2. <<U, T>> \notin StrictSubsetOrdering(S)
    BY <1>3
  <2> QED BY <2>1, <2>2, <1>4 DEF StrictSubsetOrdering
<1> QED BY <1>4

\* the member the fold adds first
Picked(s) == CHOOSE x \in s : TRUE

\* CHOOSE picks from the set.
LEMMA PickedIn == ASSUME NEW s, s # {} PROVE Picked(s) \in s
BY DEF Picked

\* the sum over s from the sum g over a smaller set
SumStep(g, f, s) == IF s = {} THEN 0 ELSE f[Picked(s)] + g[s \ {Picked(s)}]

\* the equation that MapThenFoldSet solves when it adds
SumsUp(g, f, S) == g = [s \in SUBSET S |-> SumStep(g, f, s)]

\* What such a function is at one set.
LEMMA SumsUpAt ==
    ASSUME NEW f, NEW S, NEW g, SumsUp(g, f, S), NEW s \in SUBSET S
    PROVE  g[s] = SumStep(g, f, s)
BY DEF SumsUp

\* The sum of the community modules, as the solution of that equation.
LEMMA Unfold ==
    ASSUME NEW f, NEW S
    PROVE  SumFunctionOnSet(f, S) = (CHOOSE g : SumsUp(g, f, S))[S]
BY Zenon DEF SumFunctionOnSet, FoldFunctionOnSet, MapThenFoldSet, SumsUp, SumStep, Picked
\* Two solutions agree where both are defined.
LEMMA SumsUpUnique ==
    ASSUME NEW f, NEW S, NEW T, IsFiniteSet(S), NEW g, NEW h,
           SumsUp(g, f, S), SumsUp(h, f, T)
    PROVE  \A s \in SUBSET S : s \in SUBSET T => g[s] = h[s]
<1> DEFINE F == {s \in SUBSET S : s \in SUBSET T /\ g[s] # h[s]}
<1>1. SUFFICES ASSUME F # {} PROVE FALSE
  OBVIOUS
<1>2. PICK s \in F : \A u \in F : u \subseteq s => u = s
  <2>1. F \in SUBSET SUBSET S
    OBVIOUS
  <2> HIDE DEF F
  <2> QED BY <1>1, <2>1, SmallestSubset
<1> DEFINE x == Picked(s)
<1>a. s \in SUBSET S /\ s \in SUBSET T /\ g[s] # h[s]
  BY <1>2
<1>b. g[s] = SumStep(g, f, s) /\ h[s] = SumStep(h, f, s)
  BY <1>a, SumsUpAt
<1>3. s # {}
  BY <1>a, <1>b DEF SumStep
<1>4. x \in s
  BY <1>3, PickedIn
<1>5. g[s \ {x}] = h[s \ {x}]
  <2>1. s \ {x} \notin F
    BY <1>2, <1>4
  <2> QED BY <1>2, <2>1
<1>6. g[s] = f[x] + g[s \ {x}] /\ h[s] = f[x] + h[s \ {x}]
  BY <1>3, <1>b DEF SumStep
<1> QED BY <1>2, <1>5, <1>6

\* For a finite set there is a solution.
LEMMA SumsUpExists ==
    ASSUME NEW f, NEW S, IsFiniteSet(S)
    PROVE  \E g : SumsUp(g, f, S)
<1> DEFINE F == {s \in SUBSET S : ~ \E g : SumsUp(g, f, s)}
<1>1. SUFFICES ASSUME F # {} PROVE FALSE
  OBVIOUS
<1>2. PICK T \in F : \A u \in F : u \subseteq T => u = T
  <2>1. F \in SUBSET SUBSET S
    OBVIOUS
  <2> HIDE DEF F
  <2> QED BY <1>1, <2>1, SmallestSubset
<1> DEFINE val(s) == (CHOOSE g : SumsUp(g, f, s))[s]
           pick(s) == Picked(s)
           body(s) == IF s = {} THEN 0 ELSE f[pick(s)] + val(s \ {pick(s)})
           G == [s \in SUBSET T |-> body(s)]
<1>3. ASSUME NEW s, s \subseteq T, s # T
      PROVE  val(s) = body(s)
  <2>1. s \notin F /\ s \in SUBSET S
    BY <1>2, <1>3
  <2> DEFINE g == CHOOSE g : SumsUp(g, f, s)
  <2>2. SumsUp(g, f, s)
    BY <2>1
  <2>3. CASE s = {}
    <3>1. g[s] = 0
      <4> HIDE DEF g
      <4> QED BY <2>2, <2>3, SumsUpAt DEF SumStep
    <3> QED BY <3>1, <2>3
  <2>4. CASE s # {}
    <3> DEFINE r == s \ {pick(s)}
    <3>1. pick(s) \in s
      BY <2>4, PickedIn
    <3>2. r \subseteq T /\ r # T /\ r \in SUBSET S
      BY <2>1, <1>3, <3>1
    <3>3. r \notin F
      BY <1>2, <3>2
    <3> DEFINE h == CHOOSE h : SumsUp(h, f, r)
    <3>4. SumsUp(h, f, r)
      BY <3>2, <3>3
    <3>5. g[r] = h[r]
      <4>1. IsFiniteSet(s)
        BY <2>1, FS_Subset
      <4>2. r \in SUBSET s /\ r \in SUBSET r
        OBVIOUS
      <4> HIDE DEF g, h, r
      <4> QED BY <4>1, <4>2, <2>2, <3>4, SumsUpUnique
    <3>6. g[s] = f[pick(s)] + g[r]
      <4>1. s \in SUBSET s
        OBVIOUS
      <4> HIDE DEF g
      <4>2. g[s] = SumStep(g, f, s)
        BY <4>1, <2>2, SumsUpAt
      <4> QED BY <4>2, <2>4, Zenon DEF SumStep
    <3> HIDE DEF pick
    <3> QED BY <3>5, <3>6, <2>4
  <2> QED BY <2>3, <2>4
<1>4. SumsUp(G, f, T)
  <2>1. ASSUME NEW s \in SUBSET T
        PROVE  body(s) = SumStep(G, f, s)
    <3>1. CASE s = {}
      BY <3>1 DEF SumStep
    <3>2. CASE s # {}
      <4> DEFINE r == s \ {pick(s)}
      <4>1. pick(s) \in s
        BY <3>2, PickedIn
      <4>2. r \in SUBSET T /\ r # T
        BY <4>1
      <4>3. G[r] = body(r)
        <5> HIDE DEF body
        <5> QED BY <4>2
      <4>4. val(r) = body(r)
        <5> HIDE DEF val, body, r
        <5> QED BY <4>2, <1>3
      <4>5. body(s) = f[pick(s)] + val(r)
        BY <3>2, Zenon
      <4> HIDE DEF G, body, val
      <4> QED BY <4>3, <4>4, <4>5, <3>2 DEF SumStep
    <3> QED BY <3>1, <3>2
  <2>2. [s \in SUBSET T |-> body(s)] = [s \in SUBSET T |-> SumStep(G, f, s)]
    <3> HIDE DEF G, body
    <3> QED BY <2>1
  <2> QED BY <2>2, Zenon DEF SumsUp
<1>5. T \in F
  BY <1>2
<1> QED
  <2> HIDE DEF G
  <2> QED BY <1>4, <1>5

\* Nothing adds up to nothing.
LEMMA SumEmpty == ASSUME NEW f PROVE SumFunctionOnSet(f, {}) = 0
<1> DEFINE g == CHOOSE g : SumsUp(g, f, {})
<1>1. SumsUp(g, f, {})
  BY SumsUpExists, FS_EmptySet, Zenon
<1>2. g[{}] = 0
  <2>1. {} \in SUBSET {}
    OBVIOUS
  <2> HIDE DEF g
  <2>2. g[{}] = SumStep(g, f, {})
    BY <1>1, <2>1, SumsUpAt
  <2> QED BY <2>2 DEF SumStep
<1>3. SumFunctionOnSet(f, {}) = g[{}]
  BY Unfold, Zenon
<1> QED BY <1>2, <1>3, Zenon

\* A sum is the term picked first and the sum of the rest.
LEMMA SumPick ==
    ASSUME NEW f, NEW S, IsFiniteSet(S), S # {}
    PROVE  LET x == Picked(S)
           IN  SumFunctionOnSet(f, S) = f[x] + SumFunctionOnSet(f, S \ {x})
<1> DEFINE x == Picked(S)
           r == S \ {x}
           g == CHOOSE g : SumsUp(g, f, S)
           h == CHOOSE h : SumsUp(h, f, r)
<1>0. IsFiniteSet(r)
  BY FS_RemoveElement
<1>1. SumsUp(g, f, S) /\ SumsUp(h, f, r)
  <2> HIDE DEF r
  <2> QED BY <1>0, SumsUpExists, Zenon
<1>2. g[r] = h[r]
  <2>1. r \in SUBSET S /\ r \in SUBSET r
    OBVIOUS
  <2> HIDE DEF g, h, r
  <2> QED BY <2>1, <1>1, SumsUpUnique
<1>3. g[S] = f[x] + g[r]
  <2>1. S \in SUBSET S
    OBVIOUS
  <2> HIDE DEF g
  <2>2. g[S] = SumStep(g, f, S)
    BY <1>1, <2>1, SumsUpAt
  <2> QED BY <2>2 DEF SumStep
<1>4. SumFunctionOnSet(f, S) = g[S]
  BY Unfold, Zenon
<1>5. SumFunctionOnSet(f, r) = h[r]
  <2> HIDE DEF r
  <2> QED BY Unfold, Zenon
<1> HIDE DEF g, h
<1> QED BY <1>2, <1>3, <1>4, <1>5, Zenon

\* A sum of integers is an integer.
LEMMA SumType ==
    ASSUME NEW S, IsFiniteSet(S), NEW f, \A x \in S : f[x] \in Int
    PROVE  SumFunctionOnSet(f, S) \in Int
<1> DEFINE F == {s \in SUBSET S : SumFunctionOnSet(f, s) \notin Int}
<1>1. SUFFICES ASSUME F # {} PROVE FALSE
  OBVIOUS
<1>2. PICK T \in F : \A u \in F : u \subseteq T => u = T
  <2>1. F \in SUBSET SUBSET S
    OBVIOUS
  <2> HIDE DEF F
  <2> QED BY <1>1, <2>1, SmallestSubset
<1>3. T # {}
  BY <1>2, SumEmpty
<1> DEFINE x == Picked(T)
<1>4. x \in T /\ IsFiniteSet(T)
  BY <1>2, <1>3, FS_Subset, PickedIn
<1>5. SumFunctionOnSet(f, T) = f[x] + SumFunctionOnSet(f, T \ {x})
  BY <1>3, <1>4, SumPick, Zenon
<1>6. T \ {x} \notin F /\ T \ {x} \in SUBSET S
  BY <1>2, <1>4
<1>7. SumFunctionOnSet(f, T \ {x}) \in Int
  BY <1>6
<1>8. f[x] \in Int
  BY <1>2, <1>4
<1> QED
  <2> HIDE DEF x
  <2> QED BY <1>2, <1>5, <1>7, <1>8

\* The order in which the terms are added does not matter.
LEMMA SumRemove ==
    ASSUME NEW S, IsFiniteSet(S), NEW f, \A x \in S : f[x] \in Int, NEW y \in S
    PROVE  SumFunctionOnSet(f, S) = f[y] + SumFunctionOnSet(f, S \ {y})
<1> DEFINE Sum(s) == SumFunctionOnSet(f, s)
           F == {s \in SUBSET S : \E z \in s : Sum(s) # f[z] + Sum(s \ {z})}
<1> SUFFICES ASSUME F # {} PROVE FALSE
  OBVIOUS
<1>2. PICK T \in F : \A u \in F : u \subseteq T => u = T
  <2>1. F \in SUBSET SUBSET S
    OBVIOUS
  <2> HIDE DEF F
  <2> QED BY <2>1, SmallestSubset
<1>3. PICK z \in T : Sum(T) # f[z] + Sum(T \ {z})
  BY <1>2
<1> DEFINE x == Picked(T)
           r == T \ {x, z}
<1>4. x \in T /\ IsFiniteSet(T) /\ T \subseteq S
  BY <1>2, <1>3, FS_Subset, PickedIn
<1>5. Sum(T) = f[x] + Sum(T \ {x})
  BY <1>3, <1>4, SumPick, Zenon
<1>6. x # z
  BY <1>3, <1>5
<1>7. T \ {x} \notin F /\ T \ {z} \notin F
  BY <1>2, <1>3, <1>4
<1>8. Sum(T \ {x}) = f[z] + Sum(r)
  <2>1. z \in T \ {x} /\ (T \ {x}) \ {z} = r
    BY <1>6
  <2>2. \A zz \in T \ {x} : Sum(T \ {x}) = f[zz] + Sum((T \ {x}) \ {zz})
    <3>1. T \ {x} \in SUBSET S
      BY <1>4
    <3> HIDE DEF Sum, x
    <3> QED BY <3>1, <1>7
  <2> HIDE DEF Sum, r, x
  <2> QED BY <2>1, <2>2, Zenon
<1>9. Sum(T \ {z}) = f[x] + Sum(r)
  <2>1. x \in T \ {z} /\ (T \ {z}) \ {x} = r
    BY <1>6, <1>4
  <2>2. \A zz \in T \ {z} : Sum(T \ {z}) = f[zz] + Sum((T \ {z}) \ {zz})
    <3>1. T \ {z} \in SUBSET S
      BY <1>4
    <3> HIDE DEF Sum, x
    <3> QED BY <3>1, <1>7
  <2> HIDE DEF Sum, r, x
  <2> QED BY <2>1, <2>2, Zenon
<1>10. Sum(r) \in Int
  <2>1. r \in SUBSET S /\ IsFiniteSet(r)
    BY <1>4, FS_Subset
  <2> HIDE DEF r
  <2> QED BY <2>1, SumType
<1>11. f[x] \in Int /\ f[z] \in Int
  BY <1>4
<1> HIDE DEF Sum, r, x
<1> QED BY <1>3, <1>5, <1>8, <1>9, <1>10, <1>11

\* One more term.
LEMMA SumAdd ==
    ASSUME NEW S, IsFiniteSet(S), NEW f, NEW y, y \notin S, \A x \in S \cup {y} : f[x] \in Int
    PROVE  SumFunctionOnSet(f, S \cup {y}) = f[y] + SumFunctionOnSet(f, S)
<1> DEFINE T == S \cup {y}
<1>1. IsFiniteSet(T) /\ y \in T /\ T \ {y} = S
  BY FS_AddElement
<1>2. \A x \in T : f[x] \in Int
  OBVIOUS
<1>3. SumFunctionOnSet(f, T) = f[y] + SumFunctionOnSet(f, T \ {y})
  <2> HIDE DEF T
  <2> QED BY <1>1, <1>2, SumRemove
<1> QED BY <1>1, <1>3, Zenon

\* Larger terms, larger sum.
LEMMA SumMonotone ==
    ASSUME NEW S, IsFiniteSet(S), NEW f, NEW g,
           \A x \in S : f[x] \in Int /\ g[x] \in Int /\ f[x] <= g[x]
    PROVE  SumFunctionOnSet(f, S) <= SumFunctionOnSet(g, S)
<1> DEFINE F == {s \in SUBSET S : ~ (SumFunctionOnSet(f, s) <= SumFunctionOnSet(g, s))}
<1>1. SUFFICES ASSUME F # {} PROVE FALSE
  OBVIOUS
<1>2. PICK T \in F : \A u \in F : u \subseteq T => u = T
  <2>1. F \in SUBSET SUBSET S
    OBVIOUS
  <2> HIDE DEF F
  <2> QED BY <1>1, <2>1, SmallestSubset
<1>3. T # {}
  <2>1. ~ (SumFunctionOnSet(f, T) <= SumFunctionOnSet(g, T))
    BY <1>2
  <2>2. SumFunctionOnSet(f, {}) = 0 /\ SumFunctionOnSet(g, {}) = 0
    BY SumEmpty
  <2> QED BY <2>1, <2>2
<1>4. PICK x \in T : TRUE
  BY <1>3
<1>5. IsFiniteSet(T) /\ T \subseteq S /\ IsFiniteSet(T \ {x})
  BY <1>2, FS_Subset, FS_RemoveElement
<1>6. /\ SumFunctionOnSet(f, T) = f[x] + SumFunctionOnSet(f, T \ {x})
      /\ SumFunctionOnSet(g, T) = g[x] + SumFunctionOnSet(g, T \ {x})
  BY <1>5, SumRemove
<1>7. SumFunctionOnSet(f, T \ {x}) <= SumFunctionOnSet(g, T \ {x})
  BY <1>2, <1>4, <1>5
<1>8. SumFunctionOnSet(f, T \ {x}) \in Int /\ SumFunctionOnSet(g, T \ {x}) \in Int
  <2> DEFINE r == T \ {x}
  <2>1. IsFiniteSet(r) /\ \A z \in r : f[z] \in Int /\ g[z] \in Int
    BY <1>5
  <2> HIDE DEF r
  <2>2. SumFunctionOnSet(f, r) \in Int
    BY <2>1, SumType
  <2>3. SumFunctionOnSet(g, r) \in Int
    BY <2>1, SumType
  <2> QED BY <2>2, <2>3, Zenon DEF r
<1>9. f[x] \in Int /\ g[x] \in Int /\ f[x] <= g[x]
  BY <1>5
<1> QED BY <1>2, <1>6, <1>7, <1>8, <1>9

\* Equal terms, equal sum.
LEMMA SumSame ==
    ASSUME NEW S, IsFiniteSet(S), NEW f, NEW g,
           \A x \in S : f[x] \in Int /\ f[x] = g[x]
    PROVE  SumFunctionOnSet(f, S) = SumFunctionOnSet(g, S)
<1>1. SumFunctionOnSet(f, S) <= SumFunctionOnSet(g, S)
  BY SumMonotone
<1>2. SumFunctionOnSet(g, S) <= SumFunctionOnSet(f, S)
  BY SumMonotone
<1>3. SumFunctionOnSet(g, S) \in Int /\ SumFunctionOnSet(f, S) \in Int
  BY SumType
<1> QED BY <1>1, <1>2, <1>3

-----------------------------------------------------------------------------
(* The invariant of the training budget *)

Checkpoint == [name : Nat, step : Nat, score : Scores \cup {Nothing}]
Shelves == [lock : BOOLEAN, pending : SUBSET Checkpoint, done : SUBSET Checkpoint,
            index : SUBSET Checkpoint, latest : Checkpoint \cup {Nothing}]
Inside == {"load", "train", "stage", "write", "rename", "index", "prune", "check", "exit"}
Works == [pc : {"rest", "reconcile", "reserve"} \cup Inside,
          kind : {"train", "check", Nothing}, exp : Experiments \cup {Nothing},
          resume : BOOLEAN, reserved : Nat, elapsed : Nat, step : Nat, stopAfter : Nat,
          stop : BOOLEAN, saving : Checkpoint \cup {Nothing}, dropped : SUBSET Checkpoint,
          then : {"failed", "measured", "timed", "final", "checked", Nothing}]

LedgerTyped ==
    /\ ledger = [total |-> ledger.total, spent |-> ledger.spent, active |-> ledger.active]
    /\ ledger.total \in Nat
    /\ RegisteredExperiments \subseteq Experiments
    /\ ledger.spent \in [RegisteredExperiments -> Nat]
    /\ ledger.active \in {Nothing} \cup [exp : Experiments, reserved : Nat]

BudgetTypeOK ==
    /\ LedgerTyped
    /\ shelf \in [Experiments -> Shelves]
    /\ work \in Works
    /\ trueTime \in [Experiments -> Nat]
    /\ crashes \in Nat

\* what the directories name is finite, so that a fresh name exists
ShelvesFinite ==
    \A e \in Experiments : IsFiniteSet(shelf[e].pending \cup shelf[e].done \cup shelf[e].index)

\* where the process stands decides whether a reservation is pending
PhaseFits ==
    /\ WorkAt("rest") => work = NoWork
    /\ ~ WorkAt("rest") => work.exp \in Experiments
    /\ WorkAt("reconcile") => ledger.active # Nothing /\ work.elapsed = 0
    /\ WorkAt("reserve") => ledger.active = Nothing /\ work.elapsed = 0
    /\ work.pc \in Inside =>
           /\ ledger.active = [exp |-> work.exp, reserved |-> work.reserved]
           /\ work.exp \in RegisteredExperiments
    /\ ledger.active # Nothing => ledger.active.exp \in RegisteredExperiments

ReservedNow(e) == IF ledger.active # Nothing /\ ledger.active.exp = e
                  THEN ledger.active.reserved ELSE 0
\* the part of the reservation that may have been used
Usable(e) == IF ledger.active # Nothing /\ ledger.active.exp = e
             THEN IF work.pc \in Inside THEN work.elapsed ELSE ledger.active.reserved
             ELSE 0

LedgerAdds ==
    /\ IsFiniteSet(RegisteredExperiments)
    /\ Cardinality(RegisteredExperiments) <= MaximumExperiments
    /\ ledger.total = SumFunctionOnSet(ledger.spent, RegisteredExperiments)

WithinLimits ==
    /\ ledger.total + (IF ledger.active # Nothing THEN ledger.active.reserved ELSE 0)
           <= MaximumTotal
    /\ \A e \in Experiments : SpentBy(e) + ReservedNow(e) <= MaximumExperiment

UsedCovered == \A e \in Experiments : trueTime[e] <= SpentBy(e) + Usable(e)

\* the room that is left for the saves to come
Reserve ==
    /\ work.pc \in {"stage", "write", "rename", "index", "prune"} =>
           work.then \in {"measured", "timed", "final"}
    /\ work.pc = "load" => work.elapsed = 0 /\ work.reserved > 0
    /\ work.pc = "train" => work.elapsed + 1 <= work.reserved
    /\ work.pc \in {"stage", "write"} =>
           work.elapsed + (IF work.then = "final" THEN 1 ELSE 2) <= work.reserved
    /\ work.pc \in {"rename", "index", "prune"} =>
           work.elapsed + (IF work.then = "final" THEN 0 ELSE 1) <= work.reserved
    /\ work.pc \in {"check", "exit"} => work.elapsed <= work.reserved

IndexesWhole ==
    \A e \in Experiments :
        /\ shelf[e].index \subseteq shelf[e].done
        /\ shelf[e].latest \in shelf[e].index \cup {Nothing}
        /\ shelf[e].index # {} => shelf[e].latest # Nothing

SavingFits ==
    /\ work.pc \in {"write", "rename", "index"} =>
           work.saving \in Checkpoint /\ work.saving.step = work.step
    /\ WorkAt("index") => work.saving \in MyShelf.done
    /\ WorkAt("prune") => work.dropped \cap MyShelf.index = {}
    /\ WorkAt("prune") \/ (WorkAt("exit") /\ work.then = "final") =>
           MyShelf.latest # Nothing /\ MyShelf.latest.step = work.step

BudgetInv == /\ BudgetTypeOK /\ ShelvesFinite /\ PhaseFits /\ LedgerAdds /\ WithinLimits
             /\ UsedCovered /\ Reserve /\ IndexesWhole /\ SavingFits
-----------------------------------------------------------------------------
\* A nonempty set of natural numbers has a minimum (Min of FiniteSetsExt).
LEMMA SmallestNat ==
    ASSUME NEW F \in SUBSET Nat, F # {}
    PROVE  Min(F) \in F /\ \A y \in F : Min(F) <= y
<1>1. PICK x \in F : \A y \in F : ~ (<<y, x>> \in OpToRel(<, Nat))
  <2>1. IsWellFoundedOn(OpToRel(<, Nat), Nat)
    BY NatLessThanWellFounded, Zenon
  <2> QED BY <2>1, WFMin, Zenon
<1>2. ASSUME NEW y \in F PROVE x <= y
  <2>1. <<y, x>> \in Nat \X Nat
    OBVIOUS
  <2>2. ~ (<<y, x>>[1] < <<y, x>>[2])
    BY <1>1, <2>1, Zenon DEF OpToRel
  <2> QED BY <2>2
<1>3. \E m \in F : \A y \in F : m =< y
  BY <1>2
<1> QED BY <1>3, Zenon DEF Min

\* The smaller of two numbers.
LEMMA MinOfTwo == ASSUME NEW a \in Nat, NEW b \in Nat
                  PROVE  Min({a, b}) \in Nat /\ Min({a, b}) <= a /\ Min({a, b}) <= b
<1>1. \E x \in {a, b} : \A y \in {a, b} : x =< y
  OBVIOUS
<1>2. Min({a, b}) \in {a, b} /\ \A y \in {a, b} : Min({a, b}) =< y
  BY <1>1, Zenon DEF Min
<1> QED BY <1>2

\* An allowance keeps both limits (ReserveTime: what _reserve computes).
LEMMA AllowanceFits ==
    ASSUME BudgetTypeOK, NEW e \in Experiments
    PROVE  /\ SpentBy(e) \in Nat /\ Allowance(e) \in Nat
           /\ ledger.total <= MaximumTotal => ledger.total + Allowance(e) <= MaximumTotal
           /\ SpentBy(e) <= MaximumExperiment =>
                SpentBy(e) + Allowance(e) <= MaximumExperiment
<1>1. SpentBy(e) \in Nat /\ ledger.total \in Nat
  BY DEF BudgetTypeOK, LedgerTyped, SpentBy
<1>2. /\ LeftOf(MaximumTotal, ledger.total) \in Nat
      /\ LeftOf(MaximumExperiment, SpentBy(e)) \in Nat
  BY <1>1, BudgetAssumption DEF LeftOf
<1>3. /\ Allowance(e) \in Nat
      /\ Allowance(e) <= LeftOf(MaximumTotal, ledger.total)
      /\ Allowance(e) <= LeftOf(MaximumExperiment, SpentBy(e))
  BY <1>2, MinOfTwo DEF Allowance
<1> QED BY <1>1, <1>2, <1>3, BudgetAssumption DEF LeftOf

\* A directory with finitely many checkpoints has a free name (save_checkpoint).
LEMMA FreshNameExists ==
    ASSUME NEW s \in Shelves, IsFiniteSet(s.pending \cup s.done \cup s.index)
    PROVE  FreshName(s) \in Nat
<1> DEFINE all == s.pending \cup s.done \cup s.index
           names == CheckpointNames(s)
           f == [c \in all |-> c.name]
           free == 1..(Cardinality(names) + 1) \ names
<1>1. f \in Surjection(all, names)
  <2>1. names = {c.name : c \in all}
    BY DEF CheckpointNames
  <2> QED BY <2>1 DEF Surjection
<1>2. IsFiniteSet(names) /\ Cardinality(names) \in Nat
  <2>1. IsFiniteSet(names)
    <3>1. IsFiniteSet(all)
      OBVIOUS
    <3> HIDE DEF f, names, all
    <3> QED BY <1>1, <3>1, FS_Surjection
  <2> HIDE DEF names
  <2> QED BY <2>1, FS_CardinalityType
<1>3. free # {}
  <2> SUFFICES ASSUME free = {} PROVE FALSE
    OBVIOUS
  <2>1. 1..(Cardinality(names) + 1) \in SUBSET names
    OBVIOUS
  <2>2. Cardinality(1..(Cardinality(names) + 1)) <= Cardinality(names)
    <3> HIDE DEF names
    <3> QED BY <2>1, <1>2, FS_Subset
  <2>3. Cardinality(1..(Cardinality(names) + 1)) = Cardinality(names) + 1
    <3> HIDE DEF names
    <3>2. ASSUME NEW n \in Nat PROVE Cardinality(1..(n + 1)) = n + 1
      <4>1. Cardinality(1..(n + 1)) = IF 1 > n + 1 THEN 0 ELSE n + 1 - 1 + 1
        BY FS_Interval
      <4> QED BY <4>1
    <3> QED BY <3>2, <1>2
  <2> HIDE DEF names
  <2> QED BY <1>2, <2>2, <2>3
<1>4. free \in SUBSET Nat
  OBVIOUS
<1>5. Min(free) \in free
  <2> HIDE DEF free
  <2> QED BY <1>3, <1>4, SmallestNat
<1> QED BY <1>5 DEF FreshName
\* Only three actions write ledger.json.
LEMMA LedgerEffects ==
    ASSUME [BudgetNext]_budgetVars
    PROVE  Reconcile \/ ReserveTime \/ ExitBudget \/ UNCHANGED ledger
BY DEF BudgetNext, budgetVars, EnterBudget, PersistFails, LoadSession, SessionFails, StopSignal,
       TrainStep, LeaveLoop, WorkToDeadline, StageCheckpoint, WriteCheckpoint,
       PublishCheckpoint, WriteIndex, PruneCheckpoints, CheckpointFails, TrainerKilled

\* Only save_checkpoint writes the checkpoint directories.
LEMMA ShelfEffects ==
    ASSUME [BudgetNext]_budgetVars
    PROVE  \/ StageCheckpoint \/ PublishCheckpoint \/ WriteIndex \/ PruneCheckpoints
           \/ CheckpointFails \/ UNCHANGED shelf
BY DEF BudgetNext, budgetVars, EnterBudget, Reconcile, ReserveTime, ExitBudget, PersistFails,
       LoadSession, SessionFails, StopSignal, TrainStep, LeaveLoop, WorkToDeadline,
       WriteCheckpoint, TrainerKilled

\* What StageCheckpoint writes is a checkpoint.
LEMMA NewCheckpointTyped ==
    ASSUME BudgetInv, work.exp \in Experiments, NEW score \in Scores \cup {Nothing}
    PROVE  [name |-> FreshName(MyShelf), step |-> work.step, score |-> score] \in Checkpoint
<1>1. MyShelf \in Shelves /\ work.step \in Nat
  BY DEF BudgetInv, BudgetTypeOK, MyShelf, Works
<1>2. IsFiniteSet(MyShelf.pending \cup MyShelf.done \cup MyShelf.index)
  BY DEF BudgetInv, ShelvesFinite, MyShelf
<1>3. FreshName(MyShelf) \in Nat
  BY <1>1, <1>2, FreshNameExists
<1> QED BY <1>1, <1>3 DEF Checkpoint

-----------------------------------------------------------------------------
(* What each action does to the process, with the rest of its record kept *)

KeptWork(fields) == \A f \in fields : work'[f] = work[f]
Others == {"exp", "reserved", "elapsed", "step", "saving", "dropped", "then"}

\* The process at rest.
LEMMA NoWorkTyped == NoWork \in Works
BY DEF NoWork, Works

\* EnterBudget sets out for the reservation, by way of a pending one.
LEMMA EnterMoves ==
    ASSUME NEW kind \in {"train", "check"}, NEW e \in Experiments,
           NEW resume \in BOOLEAN, NEW stopAfter \in StopSteps,
           EnterBudget(kind, e, resume, stopAfter)
    PROVE  /\ work' \in Works /\ work'.exp = e /\ work'.elapsed = 0
           /\ work'.pc = IF ledger.active = Nothing THEN "reserve" ELSE "reconcile"
<1> DEFINE next == IF ledger.active = Nothing THEN "reserve" ELSE "reconcile"
<1>1. work' = [NoWork EXCEPT !.kind = kind, !.exp = e, !.resume = resume,
                             !.stopAfter = stopAfter, !.pc = next]
  BY DEF EnterBudget
<1>2. next \in {"reserve", "reconcile"} /\ stopAfter \in Nat
  BY BudgetAssumption
<1> HIDE DEF next
<1>3. /\ work' \in Works /\ work'.exp = e /\ work'.elapsed = 0 /\ work'.pc = next
  BY <1>1, <1>2 DEF NoWork, Works
<1> QED BY <1>3 DEF next

\* Reconcile goes on to the reservation.
LEMMA ReconcileMoves ==
    ASSUME work \in Works, Reconcile
    PROVE  work' \in Works /\ work'.pc = "reserve" /\ KeptWork(Others)
BY DEF Reconcile, MoveWork, Works, KeptWork, Others

\* ReserveTime, when it is not refused, goes on with an allowance.
LEMMA ReserveMoves ==
    ASSUME BudgetInv, ReserveTime, work' # NoWork
    PROVE  /\ work' \in Works /\ work'.pc = "load"
           /\ work'.reserved = Allowance(work.exp) /\ Allowance(work.exp) \in Nat \ {0}
           /\ KeptWork(Others \ {"reserved"})
           /\ ledger' = [ledger EXCEPT
                 !.spent = [e \in RegisteredExperiments \cup {work.exp} |-> SpentBy(e)],
                 !.active = [exp |-> work.exp, reserved |-> Allowance(work.exp)]]
           /\ work.exp \in RegisteredExperiments
              \/ Cardinality(RegisteredExperiments) < MaximumExperiments
<1>1. work.exp \in Experiments /\ work \in Works /\ BudgetTypeOK
  BY DEF BudgetInv, PhaseFits, BudgetTypeOK, ReserveTime, WorkAt
<1>2. Allowance(work.exp) \in Nat
  BY <1>1, AllowanceFits
<1>3. work' = [work EXCEPT !.pc = "load", !.reserved = Allowance(work.exp)]
  BY DEF ReserveTime
<1>4. /\ work' \in Works /\ work'.pc = "load" /\ work'.reserved = Allowance(work.exp)
      /\ KeptWork(Others \ {"reserved"})
  <2> HIDE DEF Allowance
  <2> QED BY <1>1, <1>2, <1>3 DEF Works, Inside, KeptWork, Others
<1> QED BY <1>2, <1>4 DEF ReserveTime, SlotAdmitted

\* LoadSession goes on to the training loop, a check or the exit.
LEMMA LoadMoves ==
    ASSUME work \in Works, work.exp \in Experiments, shelf \in [Experiments -> Shelves],
           LoadSession
    PROVE  /\ work' \in Works /\ work'.pc \in {"check", "exit", "train"}
           /\ work'.pc = "exit" => work'.then = "failed"
           /\ KeptWork({"exp", "reserved", "elapsed", "saving", "dropped"})
<1>1. PICK step \in IF work.resume THEN {c.step : c \in MyShelf.done} ELSE {0} :
           work' = [work EXCEPT !.step = step,
                                !.pc = IF work.kind = "check" THEN "check"
                                       ELSE IF step > work.stopAfter THEN "exit" ELSE "train",
                                !.then = IF step > work.stopAfter THEN "failed" ELSE Nothing]
  BY DEF LoadSession
<1> DEFINE next == IF work.kind = "check" THEN "check"
                   ELSE IF step > work.stopAfter THEN "exit" ELSE "train"
           then == IF step > work.stopAfter THEN "failed" ELSE Nothing
<1>2. step \in Nat
  BY <1>1 DEF MyShelf, Shelves, Checkpoint
<1>3. /\ next \in {"check", "exit", "train"} /\ then \in {"failed", Nothing}
      /\ next = "exit" => then = "failed"
  OBVIOUS
<1>4. work' = [work EXCEPT !.step = step, !.pc = next, !.then = then]
  BY <1>1
<1> HIDE DEF next, then
<1> QED BY <1>2, <1>3, <1>4 DEF Works, Inside, KeptWork

\* SessionFails leaves.
LEMMA FailsMoves ==
    ASSUME work \in Works, SessionFails
    PROVE  /\ work' \in Works /\ work'.pc = "exit" /\ work'.then = "failed"
           /\ KeptWork(Others \ {"then"})
BY DEF SessionFails, Works, Inside, KeptWork, Others

\* StopSignal only sets the flag.
LEMMA SignalMoves ==
    ASSUME work \in Works, StopSignal
    PROVE  work' \in Works /\ KeptWork(Others \cup {"pc"})
BY DEF StopSignal, Works, KeptWork, Others

\* TrainStep takes its time and goes on, or goes to save.
LEMMA TrainMoves ==
    ASSUME work \in Works, TrainStep
    PROVE  \E d \in 1..LongestStep :
               /\ work' \in Works /\ work'.pc \in {"stage", "train"}
               /\ work'.then \in {"measured", "timed"}
               /\ work'.elapsed = work.elapsed + d
               /\ trueTime' = [trueTime EXCEPT ![work.exp] = @ + d]
               /\ KeptWork({"exp", "reserved", "saving", "dropped"})
<1>1. PICK d \in 1..LongestStep, timed \in BOOLEAN :
           LET step == work.step + 1
               due == step % Interval = 0
           IN SpendTime([work EXCEPT !.step = step,
                                 !.pc = IF due \/ timed THEN "stage" ELSE "train",
                                 !.then = IF due THEN "measured" ELSE "timed"], d)
  BY DEF TrainStep
<1> DEFINE due == (work.step + 1) % Interval = 0
           next == IF due \/ timed THEN "stage" ELSE "train"
           then == IF due THEN "measured" ELSE "timed"
<1>2. work' = [work EXCEPT !.step = work.step + 1, !.pc = next, !.then = then,
                           !.elapsed = @ + d]
  <2> HIDE DEF next, then
  <2> QED BY <1>1 DEF SpendTime, next, then
<1>3. next \in {"stage", "train"} /\ then \in {"measured", "timed"}
  OBVIOUS
<1>4. trueTime' = [trueTime EXCEPT ![work.exp] = @ + d]
  <2> HIDE DEF next, then
  <2>1. [work EXCEPT !.step = work.step + 1, !.pc = next, !.then = then].exp = work.exp
    BY DEF Works
  <2>2. trueTime' = [trueTime EXCEPT ![[work EXCEPT !.step = work.step + 1, !.pc = next,
                                                     !.then = then].exp] = @ + d]
    BY <1>1, Zenon DEF SpendTime, next, then, due
  <2> QED BY <2>1, <2>2
<1>5. work.elapsed + d \in Nat /\ work.step + 1 \in Nat /\ d \in Nat
  BY BudgetAssumption DEF Works
<1> HIDE DEF next, then
<1> QED BY <1>2, <1>3, <1>4, <1>5 DEF Works, Inside, KeptWork

\* LeaveLoop goes to the final save.
LEMMA LeaveMoves ==
    ASSUME work \in Works, LeaveLoop
    PROVE  /\ work' \in Works /\ work'.pc = "stage" /\ work'.then = "final"
           /\ KeptWork(Others \ {"then"})
BY DEF LeaveLoop, Works, Inside, KeptWork, Others

\* WorkToDeadline takes time while it has any.
LEMMA DeadlineMoves ==
    ASSUME work \in Works, WorkToDeadline
    PROVE  /\ work' \in Works /\ KeptWork({"exp", "reserved", "saving", "dropped"})
           /\ \/ /\ work'.pc = "check" /\ work.elapsed < work.reserved
                 /\ work'.elapsed = work.elapsed + 1
                 /\ trueTime' = [trueTime EXCEPT ![work.exp] = @ + 1]
              \/ /\ work'.pc = "exit" /\ work'.elapsed = work.elapsed /\ work'.then = "checked"
                 /\ UNCHANGED trueTime
<1>1. CASE work.elapsed < work.reserved /\ SpendTime(work, 1)
  <2>1. work' = [work EXCEPT !.elapsed = @ + 1]
    BY <1>1 DEF SpendTime
  <2>2. work.elapsed + 1 \in Nat
    BY DEF Works
  <2> QED BY <1>1, <2>1, <2>2 DEF WorkToDeadline, SpendTime, WorkAt, Works, KeptWork
<1>2. CASE work' = [work EXCEPT !.pc = "exit", !.then = "checked"] /\ UNCHANGED trueTime
  BY <1>2 DEF Works, Inside, KeptWork
<1> QED BY <1>1, <1>2 DEF WorkToDeadline

\* StageCheckpoint names the new checkpoint and its step.
LEMMA StageMoves ==
    ASSUME BudgetInv, StageCheckpoint
    PROVE  \E score \in Scores \cup {Nothing} :
           LET c == [name |-> FreshName(MyShelf), step |-> work.step, score |-> score] IN
           /\ c \in Checkpoint
           /\ work' \in Works /\ work'.pc = "write" /\ work'.saving = c
           /\ KeptWork(Others \ {"saving"})
           /\ SetMyShelf([MyShelf EXCEPT !.lock = TRUE, !.pending = @ \cup {c}])
<1>1. work \in Works /\ work.exp \in Experiments
  BY DEF BudgetInv, BudgetTypeOK, PhaseFits, StageCheckpoint, WorkAt
<1>2. PICK score \in IF work.then = "measured" /\ ~work.stop /\ TrainingRemaining
                     THEN Scores \cup {Nothing} ELSE {Nothing} :
           LET c == [name |-> FreshName(MyShelf), step |-> work.step, score |-> score] IN
           /\ work' = [work EXCEPT !.pc = "write", !.saving = c]
           /\ SetMyShelf([MyShelf EXCEPT !.lock = TRUE, !.pending = @ \cup {c}])
  BY DEF StageCheckpoint
<1> DEFINE c == [name |-> FreshName(MyShelf), step |-> work.step, score |-> score]
<1>3. score \in Scores \cup {Nothing}
  BY <1>2
<1>4. c \in Checkpoint
  BY <1>1, <1>3, NewCheckpointTyped
<1>5. /\ work' = [work EXCEPT !.pc = "write", !.saving = c]
      /\ SetMyShelf([MyShelf EXCEPT !.lock = TRUE, !.pending = @ \cup {c}])
  BY <1>2
<1>6. /\ work' \in Works /\ work'.pc = "write" /\ work'.saving = c
      /\ KeptWork(Others \ {"saving"})
  <2> HIDE DEF c
  <2> QED BY <1>1, <1>4, <1>5 DEF Works, Inside, KeptWork, Others
<1> QED BY <1>3, <1>4, <1>5, <1>6

\* WriteCheckpoint takes a unit of time.
LEMMA WriteMoves ==
    ASSUME work \in Works, WriteCheckpoint
    PROVE  /\ work' \in Works /\ work'.pc = "rename" /\ work'.elapsed = work.elapsed + 1
           /\ trueTime' = [trueTime EXCEPT ![work.exp] = @ + 1]
           /\ KeptWork(Others \ {"elapsed"})
<1>1. work' = [work EXCEPT !.pc = "rename", !.elapsed = @ + 1]
  BY DEF WriteCheckpoint, SpendTime
<1>2. work.elapsed + 1 \in Nat
  BY DEF Works
<1>3. trueTime' = [trueTime EXCEPT ![work.exp] = @ + 1]
  <2>1. [work EXCEPT !.pc = "rename"].exp = work.exp
    BY DEF Works
  <2> QED BY <2>1 DEF WriteCheckpoint, SpendTime
<1> QED BY <1>1, <1>2, <1>3 DEF Works, Inside, KeptWork, Others

\* PublishCheckpoint goes on to the index.
LEMMA PublishMoves ==
    ASSUME work \in Works, PublishCheckpoint
    PROVE  work' \in Works /\ work'.pc = "index" /\ KeptWork(Others)
BY DEF PublishCheckpoint, MoveWork, Works, Inside, KeptWork, Others

\* WriteIndex remembers what it dropped.
LEMMA IndexMoves ==
    ASSUME work \in Works, work.exp \in Experiments, shelf \in [Experiments -> Shelves],
           WriteIndex
    PROVE  /\ work' \in Works /\ work'.pc = "prune" /\ KeptWork(Others \ {"saving", "dropped"})
           /\ work'.dropped = MyShelf.index \ Retained(MyShelf.index, work.saving)
<1> DEFINE kept == Retained(MyShelf.index, work.saving)
<1>1. work' = [work EXCEPT !.pc = "prune", !.saving = Nothing, !.dropped = MyShelf.index \ kept]
  BY DEF WriteIndex
<1>2. MyShelf.index \ kept \in SUBSET Checkpoint
  BY DEF MyShelf, Shelves
<1> HIDE DEF kept
<1>3. /\ work' \in Works /\ work'.pc = "prune" /\ KeptWork(Others \ {"saving", "dropped"})
      /\ work'.dropped = MyShelf.index \ kept
  BY <1>1, <1>2 DEF Works, Inside, KeptWork, Others
<1> QED BY <1>3 DEF kept

\* PruneCheckpoints removes one dropped directory, or is done.
LEMMA PruneMoves ==
    ASSUME work \in Works, PruneCheckpoints
    PROVE  \/ \E c \in work.dropped :
                 /\ SetMyShelf([MyShelf EXCEPT !.done = @ \ {c}])
                 /\ work' \in Works /\ work'.pc = "prune"
                 /\ work'.dropped = work.dropped \ {c} /\ KeptWork(Others \ {"dropped"})
           \/ /\ UNCHANGED shelf
              /\ work' \in Works /\ KeptWork(Others)
              /\ work'.pc = IF work.then = "final" THEN "exit" ELSE "train"
<1>1. CASE work.dropped # {}
  <2>1. PICK c \in work.dropped : /\ SetMyShelf([MyShelf EXCEPT !.done = @ \ {c}])
                                  /\ work' = [work EXCEPT !.dropped = @ \ {c}]
    BY <1>1 DEF PruneCheckpoints
  <2>2. /\ work' \in Works /\ work'.pc = "prune"
        /\ work'.dropped = work.dropped \ {c} /\ KeptWork(Others \ {"dropped"})
    BY <2>1 DEF PruneCheckpoints, WorkAt, Works, KeptWork, Others
  <2> QED BY <2>1, <2>2
<1>2. CASE work.dropped = {}
  <2> DEFINE next == IF work.then = "final" THEN "exit" ELSE "train"
  <2>1. work' = [work EXCEPT !.pc = next] /\ UNCHANGED shelf
    BY <1>2 DEF PruneCheckpoints
  <2>2. next \in {"exit", "train"}
    OBVIOUS
  <2> HIDE DEF next
  <2>3. work' \in Works /\ KeptWork(Others) /\ work'.pc = next
    BY <2>1, <2>2 DEF Works, Inside, KeptWork, Others
  <2> QED BY <2>1, <2>3 DEF next
<1> QED BY <1>1, <1>2

\* CheckpointFails leaves.
LEMMA CheckpointFailsMoves ==
    ASSUME work \in Works, CheckpointFails
    PROVE  /\ work' \in Works /\ work'.pc = "exit" /\ work'.then = "failed"
           /\ KeptWork({"exp", "reserved", "elapsed", "step"})
BY DEF CheckpointFails, Works, Inside, KeptWork

\* The process keeps its type.
LEMMA WorkTyped ==
    ASSUME BudgetInv, [BudgetNext]_budgetVars
    PROVE  work' \in Works
<1>a. work \in Works /\ shelf \in [Experiments -> Shelves]
  BY DEF BudgetInv, BudgetTypeOK
<1>c. ~ WorkAt("rest") => work.exp \in Experiments
  BY DEF BudgetInv, PhaseFits
<1> USE DEF WorkAt
<1>1. ASSUME NEW kind \in {"train", "check"}, NEW e \in Experiments,
             NEW resume \in BOOLEAN, NEW stopAfter \in StopSteps,
             EnterBudget(kind, e, resume, stopAfter)
      PROVE  work' \in Works
  BY <1>1, <1>a, <1>c, EnterMoves DEF EnterBudget, KeptWork, Others
<1>2. CASE Reconcile
  BY <1>2, <1>a, <1>c, ReconcileMoves DEF Reconcile, KeptWork, Others
<1>3. CASE ReserveTime
  BY <1>3, <1>a, <1>c, ReserveMoves, NoWorkTyped DEF ReserveTime, NoWork
<1>4. CASE ExitBudget
  BY <1>4, <1>a, <1>c, NoWorkTyped DEF ExitBudget, NoWork
<1>5. CASE PersistFails
  BY <1>5, <1>a, <1>c, NoWorkTyped DEF PersistFails, NoWork, BudgetFault
<1>6. CASE LoadSession
  BY <1>6, <1>a, <1>c, LoadMoves DEF LoadSession, KeptWork, Others
<1>7. CASE SessionFails
  BY <1>7, <1>a, <1>c, FailsMoves DEF SessionFails, KeptWork, Others
<1>8. CASE StopSignal
  BY <1>8, <1>a, <1>c, SignalMoves DEF StopSignal, KeptWork, Others
<1>9. CASE TrainStep
  BY <1>9, <1>a, <1>c, TrainMoves DEF TrainStep, KeptWork, Others
<1>10. CASE LeaveLoop
  BY <1>10, <1>a, <1>c, LeaveMoves DEF LeaveLoop, KeptWork, Others
<1>11. CASE WorkToDeadline
  BY <1>11, <1>a, <1>c, DeadlineMoves DEF WorkToDeadline, KeptWork, Others
<1>12. CASE StageCheckpoint
  BY <1>12, <1>a, <1>c, StageMoves DEF StageCheckpoint, KeptWork, Others
<1>13. CASE WriteCheckpoint
  BY <1>13, <1>a, <1>c, WriteMoves DEF WriteCheckpoint, KeptWork, Others
<1>14. CASE PublishCheckpoint
  BY <1>14, <1>a, <1>c, PublishMoves DEF PublishCheckpoint, KeptWork, Others
<1>15. CASE WriteIndex
  BY <1>15, <1>a, <1>c, IndexMoves DEF WriteIndex, KeptWork, Others
<1>16. CASE PruneCheckpoints
  BY <1>16, <1>a, <1>c, PruneMoves DEF PruneCheckpoints, KeptWork, Others
<1>17. CASE CheckpointFails
  BY <1>17, <1>a, <1>c, CheckpointFailsMoves DEF CheckpointFails, KeptWork, Others
<1>18. CASE TrainerKilled
  BY <1>18, <1>a, <1>c, NoWorkTyped DEF TrainerKilled, NoWork
<1>19. CASE UNCHANGED budgetVars
  BY <1>19, <1>a, <1>c DEF budgetVars
<1> QED BY <1>1, <1>2, <1>3, <1>4, <1>5, <1>6, <1>7, <1>8, <1>9, <1>10, <1>11, <1>12, <1>13,
   <1>14, <1>15, <1>16, <1>17, <1>18, <1>19 DEF BudgetNext

\* The ledger keeps its type: what is charged and reserved belongs to a registered
\* experiment.
LEMMA LedgerTypedStep ==
    ASSUME BudgetInv, [BudgetNext]_budgetVars
    PROVE  LedgerTyped'
<1>a. LedgerTyped /\ work \in Works /\ PhaseFits
  BY DEF BudgetInv, BudgetTypeOK
<1>1. CASE Reconcile
  BY <1>1, <1>a DEF Reconcile, LedgerTyped, PhaseFits, WorkAt, RegisteredExperiments
<1>2. CASE ReserveTime
  <2>1. work.exp \in Experiments
    BY <1>2, <1>a DEF ReserveTime, PhaseFits, WorkAt
  <2>2. /\ \A e \in Experiments : SpentBy(e) \in Nat
        /\ Allowance(work.exp) \in Nat
    BY <2>1, AllowanceFits DEF BudgetInv
  <2>3. CASE UNCHANGED ledger
    BY <2>3, <1>a DEF LedgerTyped, RegisteredExperiments
  <2>4. CASE ~ UNCHANGED ledger
    <3> DEFINE R == RegisteredExperiments \cup {work.exp}
               spent == [e \in R |-> SpentBy(e)]
               active == [exp |-> work.exp, reserved |-> Allowance(work.exp)]
    <3>1. ledger' = [ledger EXCEPT !.spent = spent, !.active = active]
      BY <1>2, <2>4 DEF ReserveTime
    <3>2. R \subseteq Experiments
      BY <1>a, <2>1 DEF LedgerTyped
    <3>3. spent \in [R -> Nat] /\ active \in [exp : Experiments, reserved : Nat]
      <4> HIDE DEF R
      <4> QED BY <2>1, <2>2, <3>2
    <3>4. ledger' = [total |-> ledger.total, spent |-> spent, active |-> active]
      <4> HIDE DEF spent, active
      <4> QED BY <3>1, <1>a DEF LedgerTyped
    <3> HIDE DEF spent, active, R
    <3>5. /\ ledger'.total = ledger.total /\ ledger'.spent = spent /\ ledger'.active = active
      BY <3>4
    <3>6. DOMAIN spent = R
      BY <3>3
    <3> QED BY <3>2, <3>3, <3>4, <3>5, <3>6, <1>a DEF LedgerTyped, RegisteredExperiments
  <2> QED BY <2>3, <2>4
<1>3. CASE ExitBudget
  <2>1. work.exp \in Experiments /\ work.exp \in RegisteredExperiments /\ work.elapsed \in Nat
    BY <1>3, <1>a DEF ExitBudget, PhaseFits, WorkAt, Inside, Works
  <2> QED BY <1>3, <1>a, <2>1 DEF ExitBudget, LedgerTyped, RegisteredExperiments
<1>4. CASE UNCHANGED ledger
  BY <1>4, <1>a DEF LedgerTyped, RegisteredExperiments
<1> QED BY <1>1, <1>2, <1>3, <1>4, LedgerEffects

\* The directories keep their type.
LEMMA ShelfTypedStep ==
    ASSUME BudgetInv, [BudgetNext]_budgetVars
    PROVE  shelf' \in [Experiments -> Shelves]
<1>a. shelf \in [Experiments -> Shelves] /\ work \in Works
  BY DEF BudgetInv, BudgetTypeOK
<1>b. ~ WorkAt("rest") => work.exp \in Experiments
  BY DEF BudgetInv, PhaseFits
<1>c. work.pc \in {"write", "rename", "index"} => work.saving \in Checkpoint
  BY DEF BudgetInv, SavingFits
<1> USE DEF WorkAt
<1>d. ASSUME NEW s \in Shelves, SetMyShelf(s), work.exp \in Experiments
      PROVE  shelf' \in [Experiments -> Shelves]
  BY <1>a, <1>d DEF SetMyShelf
<1>e. ~ WorkAt("rest") => MyShelf \in Shelves
  BY <1>a, <1>b DEF MyShelf
<1>1. CASE StageCheckpoint
  <2>1. PICK c \in Checkpoint : SetMyShelf([MyShelf EXCEPT !.lock = TRUE, !.pending = @ \cup {c}])
    BY <1>1, StageMoves
  <2>2. [MyShelf EXCEPT !.lock = TRUE, !.pending = @ \cup {c}] \in Shelves
    BY <1>1, <1>e DEF StageCheckpoint, Shelves
  <2> QED BY <1>1, <1>b, <1>d, <2>1, <2>2 DEF StageCheckpoint
<1>2. CASE PublishCheckpoint
  <2>2. [MyShelf EXCEPT !.pending = @ \ {work.saving}, !.done = @ \cup {work.saving}] \in Shelves
    BY <1>2, <1>c, <1>e DEF PublishCheckpoint, Shelves
  <2> QED BY <1>2, <1>b, <1>d, <2>2 DEF PublishCheckpoint
<1>3. CASE WriteIndex
  <2> DEFINE kept == Retained(MyShelf.index, work.saving)
  <2>1. kept \in SUBSET Checkpoint /\ work.saving \in Checkpoint
    BY <1>3, <1>c, <1>e DEF WriteIndex, Shelves, Retained
  <2>2. SetMyShelf([MyShelf EXCEPT !.index = kept, !.latest = work.saving])
    BY <1>3 DEF WriteIndex
  <2> HIDE DEF kept
  <2>3. [MyShelf EXCEPT !.index = kept, !.latest = work.saving] \in Shelves
    BY <1>3, <1>e, <2>1 DEF WriteIndex, Shelves
  <2> QED BY <1>3, <1>b, <1>d, <2>2, <2>3 DEF WriteIndex
<1>4. CASE PruneCheckpoints
  <2>1. ASSUME NEW c, SetMyShelf([MyShelf EXCEPT !.done = @ \ {c}])
        PROVE  shelf' \in [Experiments -> Shelves]
    <3>1. [MyShelf EXCEPT !.done = @ \ {c}] \in Shelves
      BY <1>4, <1>e DEF PruneCheckpoints, Shelves
    <3> QED BY <1>4, <1>b, <1>d, <2>1, <3>1 DEF PruneCheckpoints
  <2> QED BY <1>4, <1>a, <2>1, PruneMoves
<1>5. CASE CheckpointFails
  <2>1. [MyShelf EXCEPT !.pending = @ \ {work.saving}] \in Shelves
    BY <1>5, <1>e DEF CheckpointFails, Shelves
  <2> QED BY <1>5, <1>b, <1>d, <2>1 DEF CheckpointFails
<1>6. CASE UNCHANGED shelf
  BY <1>6, <1>a
<1> QED BY <1>1, <1>2, <1>3, <1>4, <1>5, <1>6, ShelfEffects

\* Reservation and process stay in step, over crashes and failed writes as well.
LEMMA PhaseStep ==
    ASSUME BudgetInv, [BudgetNext]_budgetVars
    PROVE  PhaseFits'
<1>a. work \in Works /\ shelf \in [Experiments -> Shelves]
  BY DEF BudgetInv, BudgetTypeOK
<1>b. PhaseFits
  BY DEF BudgetInv
<1>d. LedgerTyped
  BY DEF BudgetInv, BudgetTypeOK
<1> USE DEF WorkAt, PhaseFits, RegisteredExperiments, Inside
<1>1. ASSUME NEW kind \in {"train", "check"}, NEW e \in Experiments,
             NEW resume \in BOOLEAN, NEW stopAfter \in StopSteps,
             EnterBudget(kind, e, resume, stopAfter)
      PROVE  PhaseFits'
  <2>1. work'.exp = e /\ work'.elapsed = 0 /\ UNCHANGED ledger
        /\ work'.pc = IF ledger.active = Nothing THEN "reserve" ELSE "reconcile"
    BY <1>1, EnterMoves DEF EnterBudget
  <2>2. ledger.active # Nothing => ledger.active.exp \in DOMAIN ledger.spent
    BY <1>b
  <2> QED BY <2>1, <2>2
<1>2. CASE Reconcile
  BY <1>2, <1>a, <1>b, <1>d, ReconcileMoves DEF Reconcile, KeptWork, Others, LedgerTyped
<1>3. CASE ReserveTime
  <2>1. CASE work' = NoWork /\ UNCHANGED ledger
    BY <2>1, <1>b DEF NoWork
  <2>2. CASE ~ (work' = NoWork /\ UNCHANGED ledger)
    <3>1. /\ ledger' = [ledger EXCEPT
                 !.spent = [e \in RegisteredExperiments \cup {work.exp} |-> SpentBy(e)],
                 !.active = [exp |-> work.exp, reserved |-> Allowance(work.exp)]]
          /\ work' = [work EXCEPT !.pc = "load", !.reserved = Allowance(work.exp)]
      BY <1>3, <2>2 DEF ReserveTime
    <3>2. work'.pc = "load" /\ work'.reserved = Allowance(work.exp) /\ work'.exp = work.exp
      BY <3>1, <1>a DEF Works
    <3>3. ledger'.active = [exp |-> work.exp, reserved |-> Allowance(work.exp)]
      BY <3>1, <1>d DEF LedgerTyped
    <3>4. work.exp \in DOMAIN ledger'.spent
      BY <3>1, <1>d DEF LedgerTyped
    <3>5. work.exp \in Experiments
      BY <1>3, <1>b DEF ReserveTime
    <3>6. ledger'.active # Nothing
      BY <3>3, <3>5, AllowanceFits, BudgetAssumption DEF BudgetInv
    <3> HIDE DEF Allowance
    <3> QED BY <3>2, <3>3, <3>4, <3>5, <3>6
  <2> QED BY <1>3, <2>1, <2>2 DEF ReserveTime
<1>4. CASE ExitBudget
  BY <1>4, <1>a, <1>b, <1>d, NoWorkTyped DEF ExitBudget, NoWork, LedgerTyped
<1>5. CASE PersistFails
  BY <1>5, <1>a, <1>b, <1>d, NoWorkTyped DEF PersistFails, NoWork, BudgetFault
<1>6. CASE LoadSession
  BY <1>6, <1>a, <1>b, <1>d, LoadMoves DEF LoadSession, KeptWork, Others
<1>7. CASE SessionFails
  BY <1>7, <1>a, <1>b, <1>d, FailsMoves DEF SessionFails, KeptWork, Others
<1>8. CASE StopSignal
  <2>1. work'.pc = work.pc /\ work'.exp = work.exp /\ work'.reserved = work.reserved
        /\ work'.elapsed = work.elapsed
    BY <1>8, <1>a, SignalMoves DEF KeptWork, Others
  <2>2. work.pc # "rest" /\ UNCHANGED ledger
    <3>1. NoWork.kind = Nothing /\ Nothing # "train"
      BY BudgetAssumption DEF NoWork
    <3>2. work.kind = "train" /\ UNCHANGED ledger
      BY <1>8 DEF StopSignal
    <3> QED BY <3>1, <3>2, <1>b
  <2> QED BY <2>1, <2>2, <1>b
<1>9. CASE TrainStep
  BY <1>9, <1>a, <1>b, <1>d, TrainMoves DEF TrainStep, KeptWork, Others
<1>10. CASE LeaveLoop
  BY <1>10, <1>a, <1>b, <1>d, LeaveMoves DEF LeaveLoop, KeptWork, Others
<1>11. CASE WorkToDeadline
  BY <1>11, <1>a, <1>b, <1>d, DeadlineMoves DEF WorkToDeadline, KeptWork, Others
<1>12. CASE StageCheckpoint
  BY <1>12, <1>a, <1>b, <1>d, StageMoves DEF StageCheckpoint, KeptWork, Others
<1>13. CASE WriteCheckpoint
  BY <1>13, <1>a, <1>b, <1>d, WriteMoves DEF WriteCheckpoint, KeptWork, Others
<1>14. CASE PublishCheckpoint
  BY <1>14, <1>a, <1>b, <1>d, PublishMoves DEF PublishCheckpoint, KeptWork, Others
<1>15. CASE WriteIndex
  BY <1>15, <1>a, <1>b, <1>d, IndexMoves DEF WriteIndex, KeptWork, Others
<1>16. CASE PruneCheckpoints
  BY <1>16, <1>a, <1>b, <1>d, PruneMoves DEF PruneCheckpoints, KeptWork, Others
<1>17. CASE CheckpointFails
  BY <1>17, <1>a, <1>b, <1>d, CheckpointFailsMoves DEF CheckpointFails, KeptWork, Others
<1>18. CASE TrainerKilled
  BY <1>18, <1>a, <1>b, <1>d, NoWorkTyped DEF TrainerKilled, NoWork
<1>19. CASE UNCHANGED budgetVars
  BY <1>19, <1>a, <1>b, <1>d DEF budgetVars
<1> QED BY <1>1, <1>2, <1>3, <1>4, <1>5, <1>6, <1>7, <1>8, <1>9, <1>10, <1>11, <1>12, <1>13,
   <1>14, <1>15, <1>16, <1>17, <1>18, <1>19 DEF BudgetNext

\* The save reserve covers a late step, its periodic save and the final save: inside the
\* lock the time used never exceeds the time reserved.
LEMMA ReserveStep ==
    ASSUME BudgetInv, [BudgetNext]_budgetVars
    PROVE  Reserve'
<1>a. work \in Works /\ shelf \in [Experiments -> Shelves]
  BY DEF BudgetInv, BudgetTypeOK
<1>b. PhaseFits
  BY DEF BudgetInv
<1>e. Reserve
  BY DEF BudgetInv
<1> USE DEF WorkAt, Reserve, Works
<1>1. ASSUME NEW kind \in {"train", "check"}, NEW e \in Experiments,
             NEW resume \in BOOLEAN, NEW stopAfter \in StopSteps,
             EnterBudget(kind, e, resume, stopAfter)
      PROVE  Reserve'
  <2>1. work'.pc \in {"reserve", "reconcile"}
    BY <1>1, EnterMoves, Zenon
  <2> QED BY <2>1
<1>2. CASE Reconcile
  BY <1>2, <1>a, <1>b, <1>e, ReconcileMoves DEF Reconcile, KeptWork, Others
<1>3. CASE ReserveTime
  <2>1. CASE work' = NoWork
    BY <2>1 DEF NoWork
  <2>2. CASE work' # NoWork
    <3>1. work'.pc = "load" /\ work'.reserved \in Nat \ {0} /\ work'.elapsed = work.elapsed
      BY <1>3, <2>2, ReserveMoves DEF KeptWork, Others
    <3>2. work.elapsed = 0
      BY <1>3, <1>b DEF ReserveTime, PhaseFits
    <3> QED BY <3>1, <3>2
  <2> QED BY <2>1, <2>2
<1>4. CASE ExitBudget
  BY <1>4, <1>a, <1>b, <1>e, NoWorkTyped DEF ExitBudget, NoWork
<1>5. CASE PersistFails
  BY <1>5, <1>a, <1>b, <1>e, NoWorkTyped DEF PersistFails, NoWork, BudgetFault
<1>6. CASE LoadSession
  <2>1. work'.pc \in {"check", "exit", "train"} /\ work'.elapsed = work.elapsed
        /\ work'.reserved = work.reserved
    BY <1>6, <1>a, <1>b, LoadMoves DEF KeptWork, PhaseFits, LoadSession
  <2>2. work.elapsed = 0 /\ work.reserved > 0 /\ work.reserved \in Nat
    BY <1>6, <1>a, <1>e DEF LoadSession
  <2> HIDE DEF Works
  <2> QED BY <2>1, <2>2
<1>7. CASE SessionFails
  BY <1>7, <1>a, <1>b, <1>e, FailsMoves DEF SessionFails, KeptWork, Others
<1>8. CASE StopSignal
  BY <1>8, <1>a, <1>b, <1>e, SignalMoves DEF StopSignal, KeptWork, Others
<1>9. CASE TrainStep
  <2>1. PICK d \in 1..LongestStep :
               /\ work'.pc \in {"stage", "train"}
               /\ work'.then \in {"measured", "timed"}
               /\ work'.elapsed = work.elapsed + d
               /\ work'.reserved = work.reserved
    BY <1>9, <1>a, TrainMoves DEF KeptWork
  <2>2. work.elapsed \in Nat /\ work.reserved \in Nat
    BY <1>a
  <2>3. work.reserved - work.elapsed > SaveReserve
    BY <1>9 DEF TrainStep, TrainingRemaining
  <2> HIDE DEF Works
  <2> QED BY <2>1, <2>2, <2>3, BudgetAssumption
<1>10. CASE LeaveLoop
  BY <1>10, <1>a, <1>b, <1>e, LeaveMoves DEF LeaveLoop, KeptWork, Others
<1>11. CASE WorkToDeadline
  BY <1>11, <1>a, <1>b, <1>e, DeadlineMoves DEF WorkToDeadline, KeptWork, Others
<1>12. CASE StageCheckpoint
  BY <1>12, <1>a, <1>b, <1>e, StageMoves DEF StageCheckpoint, KeptWork, Others
<1>13. CASE WriteCheckpoint
  BY <1>13, <1>a, <1>b, <1>e, WriteMoves DEF WriteCheckpoint, KeptWork, Others
<1>14. CASE PublishCheckpoint
  BY <1>14, <1>a, <1>b, <1>e, PublishMoves DEF PublishCheckpoint, KeptWork, Others
<1>15. CASE WriteIndex
  BY <1>15, <1>a, <1>b, <1>e, IndexMoves DEF WriteIndex, KeptWork, Others
<1>16. CASE PruneCheckpoints
  <2>1. /\ work.pc = "prune" /\ work.then \in {"measured", "timed", "final"}
        /\ work.elapsed + (IF work.then = "final" THEN 0 ELSE 1) <= work.reserved
        /\ work.elapsed \in Nat /\ work.reserved \in Nat
    BY <1>16, <1>a, <1>e DEF PruneCheckpoints
  <2>2. /\ work'.pc = "prune" \/ work'.pc = IF work.then = "final" THEN "exit" ELSE "train"
        /\ work'.elapsed = work.elapsed /\ work'.reserved = work.reserved
        /\ work'.then = work.then
    BY <1>16, <1>a, PruneMoves DEF KeptWork, Others
  <2> HIDE DEF Works
  <2> QED BY <2>1, <2>2
<1>17. CASE CheckpointFails
  BY <1>17, <1>a, <1>b, <1>e, CheckpointFailsMoves DEF CheckpointFails, KeptWork, Others
<1>18. CASE TrainerKilled
  BY <1>18, <1>a, <1>b, <1>e, NoWorkTyped DEF TrainerKilled, NoWork
<1>19. CASE UNCHANGED budgetVars
  BY <1>19, <1>a, <1>b, <1>e DEF budgetVars
<1> QED BY <1>1, <1>2, <1>3, <1>4, <1>5, <1>6, <1>7, <1>8, <1>9, <1>10, <1>11, <1>12, <1>13,
   <1>14, <1>15, <1>16, <1>17, <1>18, <1>19 DEF BudgetNext


\* Charging one experiment adds the charge to the sum.
LEMMA ChargeSum ==
    ASSUME NEW R, IsFiniteSet(R), NEW f \in [R -> Nat], NEW e \in R, NEW c \in Nat
    PROVE  SumFunctionOnSet([f EXCEPT ![e] = @ + c], R) = SumFunctionOnSet(f, R) + c
<1> DEFINE g == [f EXCEPT ![e] = @ + c]
           rest == R \ {e}
<1>1. /\ \A x \in R : f[x] \in Int /\ g[x] \in Int
      /\ \A x \in rest : g[x] = f[x]
      /\ g[e] = f[e] + c
  OBVIOUS
<1>2. IsFiniteSet(rest)
  BY FS_RemoveElement
<1> HIDE DEF g
<1>3. SumFunctionOnSet(g, R) = g[e] + SumFunctionOnSet(g, rest)
  BY <1>1, SumRemove
<1>4. SumFunctionOnSet(f, R) = f[e] + SumFunctionOnSet(f, rest)
  BY <1>1, SumRemove
<1>5. SumFunctionOnSet(g, rest) = SumFunctionOnSet(f, rest)
  <2>1. \A x \in rest : g[x] \in Int /\ g[x] = f[x]
    BY <1>1
  <2> HIDE DEF rest
  <2> QED BY <2>1, <1>2, SumSame
<1>6. SumFunctionOnSet(f, rest) \in Int
  <2>1. \A x \in rest : f[x] \in Int
    BY <1>1
  <2> HIDE DEF rest
  <2> QED BY <2>1, <1>2, SumType
<1>7. SumFunctionOnSet(g, R) = SumFunctionOnSet(f, R) + c
  BY <1>1, <1>3, <1>4, <1>5, <1>6
<1> QED BY <1>7 DEF g

\* A charge, as Reconcile and ExitBudget write it.
LEMMA ChargeEffects ==
    ASSUME LedgerTyped, NEW e \in RegisteredExperiments, NEW c \in Nat,
           ledger' = [total |-> ledger.total + c,
                      spent |-> [ledger.spent EXCEPT ![e] = @ + c], active |-> Nothing]
    PROVE  /\ RegisteredExperiments' = RegisteredExperiments
           /\ ledger'.total = ledger.total + c /\ ledger'.active = Nothing
           /\ ledger'.spent = [ledger.spent EXCEPT ![e] = @ + c]
           /\ \A x \in Experiments :
                  SpentBy(x)' = SpentBy(x) + (IF x = e THEN c ELSE 0)
BY DEF LedgerTyped, RegisteredExperiments, SpentBy

\* what Reconcile and ExitBudget charge
LEMMA Charged ==
    ASSUME BudgetInv
    PROVE  /\ Reconcile => /\ ledger.active # Nothing
                           /\ ledger.active.exp \in RegisteredExperiments
                           /\ ledger.active.reserved \in Nat
                           /\ ledger' = [total |-> ledger.total + ledger.active.reserved,
                                         spent |-> [ledger.spent EXCEPT ![ledger.active.exp] =
                                                        @ + ledger.active.reserved],
                                         active |-> Nothing]
           /\ ExitBudget => /\ ledger.active = [exp |-> work.exp, reserved |-> work.reserved]
                            /\ ledger.active # Nothing
                            /\ work.exp \in RegisteredExperiments
                            /\ work.elapsed \in Nat /\ work.reserved \in Nat
                            /\ work.elapsed <= work.reserved
                            /\ ledger' = [total |-> ledger.total + work.elapsed,
                                          spent |-> [ledger.spent EXCEPT ![work.exp] =
                                                         @ + work.elapsed],
                                          active |-> Nothing]
<1>1. LedgerTyped /\ work \in Works /\ PhaseFits /\ Reserve
  BY DEF BudgetInv, BudgetTypeOK
<1>2. ASSUME Reconcile
      PROVE  /\ ledger.active # Nothing
             /\ ledger.active.exp \in RegisteredExperiments
             /\ ledger.active.reserved \in Nat
  BY <1>1, <1>2 DEF Reconcile, WorkAt, PhaseFits, LedgerTyped
<1>3. ASSUME ExitBudget
      PROVE  /\ ledger.active = [exp |-> work.exp, reserved |-> work.reserved]
             /\ ledger.active # Nothing /\ work.exp \in RegisteredExperiments
  <2>1. /\ ledger.active = [exp |-> work.exp, reserved |-> work.reserved]
        /\ work.exp \in RegisteredExperiments /\ work.exp \in Experiments
    BY <1>1, <1>3 DEF ExitBudget, WorkAt, PhaseFits, Inside
  <2>2. work.reserved \in Nat
    BY <1>1 DEF Works
  <2> QED BY <2>1, <2>2, BudgetAssumption
<1>4. ExitBudget => work.elapsed <= work.reserved
  BY <1>1 DEF ExitBudget, WorkAt, Reserve
<1>5. work.elapsed \in Nat /\ work.reserved \in Nat
  BY <1>1 DEF Works
<1> QED BY <1>2, <1>3, <1>4, <1>5 DEF Reconcile, ExitBudget

\* A reservation, as ReserveTime writes it: the new experiment has used nothing.
LEMMA ReserveEffects ==
    ASSUME BudgetInv, ReserveTime, ~ UNCHANGED ledger
    PROVE  /\ work.exp \in Experiments /\ ledger.active = Nothing
           /\ RegisteredExperiments' = RegisteredExperiments \cup {work.exp}
           /\ work.exp \in RegisteredExperiments
              \/ Cardinality(RegisteredExperiments) < MaximumExperiments
           /\ ledger'.total = ledger.total
           /\ ledger'.active = [exp |-> work.exp, reserved |-> Allowance(work.exp)]
           /\ ledger'.active # Nothing
           /\ Allowance(work.exp) \in Nat
           /\ \A x \in Experiments : SpentBy(x)' = SpentBy(x)
           /\ ledger'.spent = [e \in RegisteredExperiments \cup {work.exp} |-> SpentBy(e)]
<1>1. LedgerTyped /\ PhaseFits /\ BudgetTypeOK
  BY DEF BudgetInv, BudgetTypeOK
<1>2. work.exp \in Experiments /\ ledger.active = Nothing
  BY <1>1 DEF ReserveTime, PhaseFits, WorkAt
<1> DEFINE R == RegisteredExperiments \cup {work.exp}
           spent == [e \in R |-> SpentBy(e)]
           active == [exp |-> work.exp, reserved |-> Allowance(work.exp)]
<1>3. /\ ledger' = [ledger EXCEPT !.spent = spent, !.active = active]
      /\ work.exp \in RegisteredExperiments
         \/ Cardinality(RegisteredExperiments) < MaximumExperiments
  BY DEF ReserveTime, SlotAdmitted
<1>4. Allowance(work.exp) \in Nat
  BY <1>1, <1>2, AllowanceFits
<1>5. ledger'.total = ledger.total /\ ledger'.spent = spent /\ ledger'.active = active
  <2> HIDE DEF spent, active
  <2> QED BY <1>1, <1>3 DEF LedgerTyped
<1>6. RegisteredExperiments' = R
  <2>1. DOMAIN spent = R
    OBVIOUS
  <2> HIDE DEF spent, R, active
  <2> QED BY <1>5, <2>1 DEF RegisteredExperiments
<1>7. active # Nothing
  BY <1>2, <1>4, BudgetAssumption
<1>8. ASSUME NEW x \in Experiments PROVE SpentBy(x)' = SpentBy(x)
  <2>1. CASE x \in R
    <3>1. SpentBy(x)' = ledger'.spent[x]
      BY <2>1, <1>6, Zenon DEF SpentBy
    <3>2. spent[x] = SpentBy(x)
      BY <2>1
    <3> QED BY <3>1, <3>2, <1>5
  <2>2. CASE x \notin R
    <3>1. SpentBy(x)' = 0
      BY <2>2, <1>6, Zenon DEF SpentBy
    <3>2. SpentBy(x) = 0
      BY <2>2 DEF SpentBy
    <3> QED BY <3>1, <3>2
  <2> QED BY <2>1, <2>2
<1> HIDE DEF Allowance
<1> QED BY <1>2, <1>3, <1>4, <1>5, <1>6, <1>7, <1>8

\* The total stays the sum of what the experiments spent, and the slots are bounded.
LEMMA LedgerAddsStep ==
    ASSUME BudgetInv, [BudgetNext]_budgetVars
    PROVE  LedgerAdds'
<1>1. LedgerTyped /\ LedgerAdds
  BY DEF BudgetInv, BudgetTypeOK
<1>2. ASSUME NEW e \in RegisteredExperiments, NEW c \in Nat,
             ledger' = [total |-> ledger.total + c,
                        spent |-> [ledger.spent EXCEPT ![e] = @ + c], active |-> Nothing]
      PROVE  LedgerAdds'
  <2>1. /\ RegisteredExperiments' = RegisteredExperiments
        /\ ledger'.total = ledger.total + c
        /\ ledger'.spent = [ledger.spent EXCEPT ![e] = @ + c]
    BY <1>1, <1>2, ChargeEffects
  <2>2. SumFunctionOnSet([ledger.spent EXCEPT ![e] = @ + c], RegisteredExperiments)
           = SumFunctionOnSet(ledger.spent, RegisteredExperiments) + c
    <3>1. ledger.spent \in [RegisteredExperiments -> Nat] /\ IsFiniteSet(RegisteredExperiments)
      BY <1>1 DEF LedgerTyped, LedgerAdds
    <3> QED BY <3>1, ChargeSum
  <2> QED BY <2>1, <2>2, <1>1, Zenon DEF LedgerAdds
<1>3. CASE Reconcile
  BY <1>3, <1>2, Charged
<1>4. CASE ExitBudget
  BY <1>4, <1>2, Charged
<1>5. CASE ReserveTime /\ ~ UNCHANGED ledger
  <2> DEFINE R == RegisteredExperiments
             e == work.exp
             new == [x \in R \cup {e} |-> SpentBy(x)]
  <2>1. /\ e \in Experiments /\ RegisteredExperiments' = R \cup {e}
        /\ e \in R \/ Cardinality(R) < MaximumExperiments
        /\ ledger'.total = ledger.total /\ ledger'.spent = new
    BY <1>5, ReserveEffects
  <2>2. /\ IsFiniteSet(R) /\ Cardinality(R) <= MaximumExperiments
        /\ ledger.total = SumFunctionOnSet(ledger.spent, R)
    BY <1>1 DEF LedgerAdds
  <2>3. R \subseteq Experiments /\ ledger.spent \in [R -> Nat]
    BY <1>1 DEF LedgerTyped
  <2>4. /\ \A x \in R : ledger.spent[x] \in Int /\ new[x] = ledger.spent[x]
        /\ e \notin R => new[e] = 0
        /\ \A x \in R \cup {e} : new[x] \in Int
    BY <2>1, <2>3 DEF SpentBy
  <2> HIDE DEF R, e, new
  <2>5. SumFunctionOnSet(ledger.spent, R) = SumFunctionOnSet(new, R)
    BY <2>2, <2>4, SumSame
  <2>6. CASE e \in R
    <3>1. R \cup {e} = R
      BY <2>6
    <3> QED BY <3>1, <2>1, <2>2, <2>5 DEF LedgerAdds, R
  <2>7. CASE e \notin R
    <3>1. SumFunctionOnSet(new, R \cup {e}) = new[e] + SumFunctionOnSet(new, R)
      BY <2>2, <2>4, <2>7, SumAdd
    <3>2. SumFunctionOnSet(new, R) \in Int
      BY <2>2, <2>4, SumType
    <3>3. IsFiniteSet(R \cup {e}) /\ Cardinality(R \cup {e}) = Cardinality(R) + 1
      BY <2>2, <2>7, FS_AddElement
    <3>4. Cardinality(R) \in Nat /\ MaximumExperiments \in Nat
      BY <2>2, FS_CardinalityType, BudgetAssumption
    <3>5. Cardinality(R \cup {e}) <= MaximumExperiments
      BY <3>3, <3>4, <2>1, <2>7
    <3>6. ledger'.total = SumFunctionOnSet(ledger'.spent, R \cup {e})
      BY <3>1, <3>2, <2>1, <2>2, <2>4, <2>5, <2>7
    <3> QED BY <3>3, <3>5, <3>6, <2>1, Zenon DEF LedgerAdds
  <2> QED BY <2>6, <2>7
<1>6. CASE UNCHANGED ledger
  BY <1>6, <1>1, Zenon DEF LedgerAdds, RegisteredExperiments
<1> QED BY <1>3, <1>4, <1>5, <1>6, LedgerEffects

\* What is spent and what is reserved stay within the limits together.
LEMMA WithinLimitsStep ==
    ASSUME BudgetInv, [BudgetNext]_budgetVars
    PROVE  WithinLimits'
<1>1. LedgerTyped /\ WithinLimits /\ BudgetTypeOK
  BY DEF BudgetInv, BudgetTypeOK
<1>2. \A x \in Experiments : SpentBy(x) \in Nat
  BY <1>1 DEF LedgerTyped, SpentBy
<1>3. /\ ledger.total \in Nat /\ MaximumTotal \in Nat /\ MaximumExperiment \in Nat
      /\ RegisteredExperiments \subseteq Experiments
  BY <1>1, BudgetAssumption DEF LedgerTyped
<1>4. ASSUME NEW e \in RegisteredExperiments, NEW c \in Nat, ledger.active # Nothing,
             ledger.active.exp = e, ledger.active.reserved \in Nat,
             c <= ledger.active.reserved,
             ledger' = [total |-> ledger.total + c,
                        spent |-> [ledger.spent EXCEPT ![e] = @ + c], active |-> Nothing]
      PROVE  WithinLimits'
  <2>1. /\ ledger'.total = ledger.total + c /\ ledger'.active = Nothing
        /\ \A x \in Experiments : SpentBy(x)' = SpentBy(x) + (IF x = e THEN c ELSE 0)
    BY <1>1, <1>4, ChargeEffects
  <2>2. ledger.total + ledger.active.reserved <= MaximumTotal
    BY <1>1, <1>4 DEF WithinLimits
  <2>3. \A x \in Experiments :
           SpentBy(x) + (IF x = e THEN ledger.active.reserved ELSE 0) <= MaximumExperiment
    BY <1>1, <1>4 DEF WithinLimits, ReservedNow
  <2>4. ASSUME NEW x \in Experiments PROVE SpentBy(x)' <= MaximumExperiment
    BY <2>1, <2>3, <1>2, <1>3, <1>4
  <2>5. ASSUME NEW x \in Experiments PROVE SpentBy(x)' + ReservedNow(x)' <= MaximumExperiment
    <3>1. ReservedNow(x)' = 0
      BY <2>1 DEF ReservedNow
    <3>2. SpentBy(x)' \in Nat
      BY <2>1, <1>2, <1>4
    <3> QED BY <2>4, <3>1, <3>2, <1>3
  <2>6. ledger'.total <= MaximumTotal
    BY <2>1, <2>2, <1>3, <1>4
  <2>7. (ledger.total + (IF ledger.active # Nothing THEN ledger.active.reserved ELSE 0))'
           <= MaximumTotal
    BY <2>1, <2>6, <1>3, <1>4
  <2> QED BY <2>5, <2>7 DEF WithinLimits
<1>5. CASE Reconcile
  BY <1>5, <1>4, Charged
<1>6. CASE ExitBudget
  BY <1>6, <1>4, Charged
<1>7. CASE ReserveTime /\ ~ UNCHANGED ledger
  <2>1. /\ work.exp \in Experiments /\ ledger.active = Nothing
        /\ ledger'.total = ledger.total
        /\ ledger'.active = [exp |-> work.exp, reserved |-> Allowance(work.exp)]
        /\ ledger'.active # Nothing /\ Allowance(work.exp) \in Nat
        /\ \A x \in Experiments : SpentBy(x)' = SpentBy(x)
    BY <1>7, ReserveEffects
  <2>2. ledger.total <= MaximumTotal /\ \A x \in Experiments : SpentBy(x) <= MaximumExperiment
    BY <2>1, <1>1, <1>2, <1>3 DEF WithinLimits, ReservedNow
  <2>3. /\ ledger.total + Allowance(work.exp) <= MaximumTotal
        /\ SpentBy(work.exp) + Allowance(work.exp) <= MaximumExperiment
    BY <2>1, <2>2, <1>1, AllowanceFits
  <2> HIDE DEF Allowance
  <2>4. (ledger.total + (IF ledger.active # Nothing THEN ledger.active.reserved ELSE 0))'
           <= MaximumTotal
    BY <2>1, <2>3
  <2>5. ASSUME NEW x \in Experiments PROVE SpentBy(x)' + ReservedNow(x)' <= MaximumExperiment
    <3>1. ReservedNow(x)' = IF work.exp = x THEN Allowance(work.exp) ELSE 0
      BY <2>1 DEF ReservedNow
    <3> QED BY <2>1, <2>2, <2>3, <3>1, <1>2, <1>3
  <2> QED BY <2>4, <2>5 DEF WithinLimits
<1>8. CASE UNCHANGED ledger
  BY <1>8, <1>1 DEF WithinLimits, RegisteredExperiments, SpentBy, ReservedNow
<1> QED BY <1>5, <1>6, <1>7, <1>8, LedgerEffects

\* The history variables keep their type.
LEMMA HistoryTypedStep ==
    ASSUME BudgetInv, [BudgetNext]_budgetVars
    PROVE  trueTime' \in [Experiments -> Nat] /\ crashes' \in Nat
<1>1. /\ trueTime \in [Experiments -> Nat] /\ crashes \in Nat /\ work \in Works
  BY DEF BudgetInv, BudgetTypeOK
<1>2. ~ WorkAt("rest") => work.exp \in Experiments
  BY DEF BudgetInv, PhaseFits
<1>3. ASSUME NEW d \in Nat, trueTime' = [trueTime EXCEPT ![work.exp] = @ + d]
      PROVE  trueTime' \in [Experiments -> Nat]
  <2>1. \A x \in Experiments : trueTime[x] + d \in Nat
    BY <1>1
  <2> QED BY <1>1, <1>3, <2>1
<1>4. CASE TrainStep
  <2>1. LongestStep \in Nat
    BY BudgetAssumption
  <2>2. trueTime' \in [Experiments -> Nat]
    BY <1>1, <1>3, <1>4, <2>1, TrainMoves
  <2> QED BY <1>1, <1>4, <2>2 DEF TrainStep
<1>5. CASE WorkToDeadline
  <2>1. trueTime' \in [Experiments -> Nat]
    BY <1>1, <1>3, <1>5, DeadlineMoves
  <2> QED BY <1>1, <1>5, <2>1 DEF WorkToDeadline
<1>6. CASE WriteCheckpoint
  <2>1. trueTime' \in [Experiments -> Nat]
    BY <1>1, <1>3, <1>6, WriteMoves
  <2> QED BY <1>1, <1>6, <2>1 DEF WriteCheckpoint
<1>7. CASE UNCHANGED trueTime /\ crashes' \in {crashes, crashes + 1}
  BY <1>1, <1>7
<1>8. \/ TrainStep \/ WorkToDeadline \/ WriteCheckpoint
      \/ UNCHANGED trueTime /\ crashes' \in {crashes, crashes + 1}
  BY DEF BudgetNext, budgetVars, EnterBudget, Reconcile, ReserveTime, ExitBudget, PersistFails,
         LoadSession, SessionFails, StopSignal, LeaveLoop, StageCheckpoint, PublishCheckpoint,
         WriteIndex, PruneCheckpoints, CheckpointFails, TrainerKilled, BudgetFault
<1> QED BY <1>4, <1>5, <1>6, <1>7, <1>8

\* what a step does to the time that is under way
LEMMA TimeMoves ==
    ASSUME BudgetInv, [BudgetNext]_budgetVars
    PROVE  \/ Reconcile \/ ExitBudget
           \/ ReserveTime /\ UNCHANGED trueTime /\ ~ UNCHANGED ledger
           \/ \* the process leaves, enters, or works outside the reservation
              /\ UNCHANGED <<ledger, trueTime>>
              /\ work'.pc \notin Inside
           \/ /\ UNCHANGED ledger
              /\ work.pc \in Inside /\ work.exp \in Experiments
              /\ work'.exp = work.exp
              /\ \E d \in Nat : /\ work'.elapsed = work.elapsed + d
                                /\ \/ trueTime' = [trueTime EXCEPT ![work.exp] = @ + d]
                                   \/ d = 0 /\ UNCHANGED trueTime
<1>1. work \in Works /\ shelf \in [Experiments -> Shelves] /\ PhaseFits
  BY DEF BudgetInv, BudgetTypeOK
<1>2. /\ ~ WorkAt("rest") => work.exp \in Experiments
      /\ WorkAt("rest") => work = NoWork
  BY <1>1 DEF PhaseFits
<1>3. work.elapsed \in Nat
  BY <1>1 DEF Works
<1> DEFINE Quiet == /\ UNCHANGED ledger
                    /\ work.pc \in Inside /\ work.exp \in Experiments
                    /\ work'.exp = work.exp
                    /\ work'.elapsed = work.elapsed /\ UNCHANGED trueTime
           Timed(d) == /\ UNCHANGED ledger
                       /\ work.pc \in Inside /\ work.exp \in Experiments
                       /\ work'.exp = work.exp /\ work'.elapsed = work.elapsed + d
                       /\ trueTime' = [trueTime EXCEPT ![work.exp] = @ + d]
           Away == UNCHANGED <<ledger, trueTime>> /\ work'.pc \notin Inside
<1>4. Quiet => \E d \in Nat : /\ work'.elapsed = work.elapsed + d
                              /\ d = 0 /\ UNCHANGED trueTime
  BY <1>3
<1>5. ASSUME NEW kind \in {"train", "check"}, NEW e \in Experiments,
             NEW resume \in BOOLEAN, NEW stopAfter \in StopSteps,
             EnterBudget(kind, e, resume, stopAfter)
      PROVE  Away
  <2>1. UNCHANGED <<ledger, trueTime>>
    BY <1>5 DEF EnterBudget
  <2>2. work'.pc = IF ledger.active = Nothing THEN "reserve" ELSE "reconcile"
    BY <1>5, EnterMoves
  <2> QED BY <2>1, <2>2 DEF Inside
<1>6. CASE PersistFails \/ TrainerKilled
  BY <1>6 DEF PersistFails, TrainerKilled, NoWork, Inside
<1>7. CASE ReserveTime
  <2>1. CASE ~ UNCHANGED ledger
    BY <1>7, <2>1 DEF ReserveTime
  <2>2. CASE work' = NoWork /\ UNCHANGED ledger
    BY <1>7, <2>2 DEF ReserveTime, NoWork, Inside
  <2>3. CASE ledger' = [ledger EXCEPT
                 !.spent = [e \in RegisteredExperiments \cup {work.exp} |-> SpentBy(e)],
                 !.active = [exp |-> work.exp, reserved |-> Allowance(work.exp)]]
    <3>1. ledger.active = Nothing /\ work.exp \in Experiments
      BY <1>2, <1>7, <1>1 DEF ReserveTime, PhaseFits, WorkAt
    <3>2. Allowance(work.exp) \in Nat
      BY <3>1, AllowanceFits DEF BudgetInv
    <3>3. ledger'.active = [exp |-> work.exp, reserved |-> Allowance(work.exp)]
      BY <2>3 DEF BudgetInv, BudgetTypeOK, LedgerTyped
    <3>4. ledger'.active # ledger.active
      BY <3>1, <3>2, <3>3, BudgetAssumption
    <3> QED BY <3>4, <2>1
  <2> QED BY <1>7, <2>2, <2>3 DEF ReserveTime
<1>8. CASE LoadSession
  <2>1. work'.exp = work.exp /\ work'.elapsed = work.elapsed
    BY <1>1, <1>2, <1>8, LoadMoves DEF LoadSession, WorkAt, KeptWork, Others
  <2> QED BY <1>2, <1>4, <1>8, <2>1 DEF LoadSession, WorkAt, Inside
<1>9. CASE SessionFails
  <2>1. work'.exp = work.exp /\ work'.elapsed = work.elapsed
    BY <1>1, <1>2, <1>9, FailsMoves DEF SessionFails, WorkAt, KeptWork, Others
  <2> QED BY <1>2, <1>4, <1>9, <2>1 DEF SessionFails, WorkAt, Inside
<1>10. CASE StopSignal
  <2>1. work'.exp = work.exp /\ work'.elapsed = work.elapsed /\ UNCHANGED <<ledger, trueTime>>
    BY <1>1, <1>10, SignalMoves DEF StopSignal, KeptWork, Others
  <2>2. work.pc # "rest"
    <3>1. NoWork.kind = Nothing /\ Nothing # "train"
      BY BudgetAssumption DEF NoWork
    <3>2. work.kind = "train"
      BY <1>10 DEF StopSignal
    <3> QED BY <3>1, <3>2, <1>2 DEF WorkAt
  <2>3. work.pc \in Inside
    BY <1>1, <1>10, <2>2 DEF StopSignal, Works
  <2> QED BY <1>2, <1>4, <2>1, <2>2, <2>3 DEF WorkAt
<1>11. CASE TrainStep
  <2>1. \E d \in 1..LongestStep : Timed(d)
    BY <1>1, <1>2, <1>11, TrainMoves DEF TrainStep, WorkAt, KeptWork, Inside
  <2>2. 1..LongestStep \subseteq Nat
    OBVIOUS
  <2>3. \E d \in Nat : Timed(d)
    <3> HIDE DEF Timed
    <3> QED BY <2>1, <2>2
  <2> QED BY <2>3
<1>12. CASE LeaveLoop
  <2>1. work'.exp = work.exp /\ work'.elapsed = work.elapsed
    BY <1>1, <1>2, <1>12, LeaveMoves DEF LeaveLoop, WorkAt, KeptWork, Others
  <2> QED BY <1>2, <1>4, <1>12, <2>1 DEF LeaveLoop, WorkAt, Inside
<1>13. CASE WorkToDeadline
  <2>1. work'.exp = work.exp
    BY <1>1, <1>13, DeadlineMoves DEF KeptWork
  <2>2. work.pc \in Inside /\ work.exp \in Experiments /\ UNCHANGED ledger
    BY <1>2, <1>13 DEF WorkToDeadline, WorkAt, Inside
  <2> QED BY <1>1, <1>4, <1>13, <2>1, <2>2, DeadlineMoves
<1>14. CASE StageCheckpoint
  <2>1. work'.exp = work.exp /\ work'.elapsed = work.elapsed
    BY <1>1, <1>2, <1>14, StageMoves DEF StageCheckpoint, WorkAt, KeptWork, Others
  <2> QED BY <1>2, <1>4, <1>14, <2>1 DEF StageCheckpoint, WorkAt, Inside
<1>15. CASE WriteCheckpoint
  <2>1. Timed(1)
    BY <1>1, <1>2, <1>15, WriteMoves DEF WriteCheckpoint, WorkAt, KeptWork, Others, Inside
  <2> QED BY <2>1
<1>16. CASE PublishCheckpoint
  <2>1. work'.exp = work.exp /\ work'.elapsed = work.elapsed
    BY <1>1, <1>2, <1>16, PublishMoves DEF PublishCheckpoint, WorkAt, KeptWork, Others
  <2> QED BY <1>2, <1>4, <1>16, <2>1 DEF PublishCheckpoint, WorkAt, Inside
<1>17. CASE WriteIndex
  <2>1. work'.exp = work.exp /\ work'.elapsed = work.elapsed
    BY <1>1, <1>2, <1>17, IndexMoves DEF WriteIndex, WorkAt, KeptWork, Others
  <2> QED BY <1>2, <1>4, <1>17, <2>1 DEF WriteIndex, WorkAt, Inside
<1>18. CASE PruneCheckpoints
  <2>1. work'.exp = work.exp /\ work'.elapsed = work.elapsed
    BY <1>1, <1>18, PruneMoves DEF KeptWork, Others
  <2> QED BY <1>2, <1>4, <1>18, <2>1 DEF PruneCheckpoints, WorkAt, Inside
<1>19. CASE CheckpointFails
  <2>1. work'.exp = work.exp /\ work'.elapsed = work.elapsed
    BY <1>1, <1>19, CheckpointFailsMoves DEF KeptWork
  <2> QED BY <1>2, <1>4, <1>19, <2>1 DEF CheckpointFails, WorkAt, Inside
<1>20. CASE UNCHANGED budgetVars
  <2>1. work.pc \in Inside => work.exp \in Experiments
    BY <1>2 DEF WorkAt, Inside
  <2> QED BY <1>3, <1>4, <1>20, <2>1 DEF budgetVars
<1> QED
  BY <1>5, <1>6, <1>7, <1>8, <1>9, <1>10, <1>11, <1>12, <1>13, <1>14, <1>15, <1>16, <1>17,
     <1>18, <1>19, <1>20 DEF BudgetNext

\* Time that was used is charged or still reserved.
LEMMA UsedCoveredStep ==
    ASSUME BudgetInv, [BudgetNext]_budgetVars
    PROVE  UsedCovered'
<1>1. /\ LedgerTyped /\ UsedCovered /\ work \in Works /\ PhaseFits /\ Reserve /\ WithinLimits
      /\ trueTime \in [Experiments -> Nat]
  BY DEF BudgetInv, BudgetTypeOK
<1>2. \A x \in Experiments : SpentBy(x) \in Nat
  BY <1>1 DEF LedgerTyped, SpentBy
<1>3. /\ work.elapsed \in Nat /\ work.reserved \in Nat
      /\ ledger.active # Nothing => ledger.active.reserved \in Nat
      /\ RegisteredExperiments \subseteq Experiments
  BY <1>1 DEF Works, LedgerTyped
<1>4. work.pc \in Inside =>
         /\ work.elapsed <= work.reserved /\ work.exp \in Experiments
         /\ ledger.active = [exp |-> work.exp, reserved |-> work.reserved]
         /\ ledger.active # Nothing
  <2>1. work.pc \in Inside => work.elapsed <= work.reserved
    BY <1>1, <1>3 DEF Reserve, Inside
  <2>2. work.pc \in Inside =>
           /\ work.exp \in Experiments
           /\ ledger.active = [exp |-> work.exp, reserved |-> work.reserved]
    BY <1>1 DEF PhaseFits, WorkAt, Inside
  <2> QED BY <2>1, <2>2, <1>3, BudgetAssumption
<1>5. \A x \in Experiments : trueTime[x] \in Nat /\ trueTime[x] <= SpentBy(x) + Usable(x)
  BY <1>1 DEF UsedCovered
<1>6. CASE Reconcile
  <2> DEFINE c == ledger.active.reserved
             e == ledger.active.exp
  <2>1. /\ ledger.active # Nothing /\ e \in RegisteredExperiments /\ c \in Nat
        /\ ledger' = [total |-> ledger.total + c,
                      spent |-> [ledger.spent EXCEPT ![e] = @ + c], active |-> Nothing]
    BY <1>6, Charged
  <2>2. /\ ledger'.active = Nothing
        /\ \A x \in Experiments : SpentBy(x)' = SpentBy(x) + (IF x = e THEN c ELSE 0)
    BY <2>1, <1>1, ChargeEffects
  <2>3. \A x \in Experiments : Usable(x) = IF x = e THEN c ELSE 0
    BY <1>6, <2>1 DEF Usable, Inside, Reconcile, WorkAt
  <2>4. \A x \in Experiments : Usable(x)' = 0
    BY <2>2 DEF Usable
  <2>5. trueTime' = trueTime
    BY <1>6 DEF Reconcile
  <2> HIDE DEF c, e
  <2> QED BY <1>2, <1>5, <2>1, <2>2, <2>3, <2>4, <2>5 DEF UsedCovered
<1>7. CASE ExitBudget
  <2>1. /\ ledger.active = [exp |-> work.exp, reserved |-> work.reserved]
        /\ ledger.active # Nothing /\ work.exp \in RegisteredExperiments
        /\ ledger' = [total |-> ledger.total + work.elapsed,
                      spent |-> [ledger.spent EXCEPT ![work.exp] = @ + work.elapsed],
                      active |-> Nothing]
    BY <1>7, Charged
  <2>2. /\ ledger'.active = Nothing
        /\ \A x \in Experiments :
               SpentBy(x)' = SpentBy(x) + (IF x = work.exp THEN work.elapsed ELSE 0)
    BY <2>1, <1>1, <1>3, ChargeEffects
  <2>3. \A x \in Experiments : Usable(x) = IF x = work.exp THEN work.elapsed ELSE 0
    BY <1>7, <2>1 DEF Usable, Inside, ExitBudget, WorkAt
  <2>4. \A x \in Experiments : Usable(x)' = 0
    BY <2>2 DEF Usable
  <2>5. trueTime' = trueTime
    BY <1>7 DEF ExitBudget
  <2> QED BY <1>2, <1>3, <1>5, <2>2, <2>3, <2>4, <2>5 DEF UsedCovered
<1>8. CASE ReserveTime /\ UNCHANGED trueTime /\ ~ UNCHANGED ledger
  <2>1. /\ work.exp \in Experiments /\ ledger.active = Nothing
        /\ ledger'.active = [exp |-> work.exp, reserved |-> Allowance(work.exp)]
        /\ Allowance(work.exp) \in Nat
        /\ \A x \in Experiments : SpentBy(x)' = SpentBy(x)
    BY <1>8, ReserveEffects
  <2>2. \A x \in Experiments : Usable(x) = 0
    BY <2>1 DEF Usable
  <2>3. work'.elapsed \in Nat
    BY WorkTyped DEF Works
  <2>4. \A x \in Experiments : Usable(x)' \in Nat
    <3> HIDE DEF Allowance
    <3> QED BY <2>1, <2>3 DEF Usable
  <2> QED BY <1>2, <1>5, <1>8, <2>1, <2>2, <2>4 DEF UsedCovered
<1>9. CASE UNCHANGED <<ledger, trueTime>> /\ work'.pc \notin Inside
  <2>1. \A x \in Experiments : SpentBy(x)' = SpentBy(x) /\ trueTime'[x] = trueTime[x]
    BY <1>9 DEF SpentBy, RegisteredExperiments
  <2>2. \A x \in Experiments : Usable(x) \in Nat /\ Usable(x)' \in Nat /\ Usable(x) <= Usable(x)'
    BY <1>3, <1>4, <1>9 DEF Usable
  <2> QED BY <1>2, <1>5, <2>1, <2>2 DEF UsedCovered
<1>10. CASE /\ UNCHANGED ledger /\ work.pc \in Inside /\ work.exp \in Experiments
            /\ work'.exp = work.exp
            /\ \E d \in Nat : /\ work'.elapsed = work.elapsed + d
                              /\ \/ trueTime' = [trueTime EXCEPT ![work.exp] = @ + d]
                                 \/ d = 0 /\ UNCHANGED trueTime
  <2>1. PICK d \in Nat : /\ work'.elapsed = work.elapsed + d
                         /\ \/ trueTime' = [trueTime EXCEPT ![work.exp] = @ + d]
                            \/ d = 0 /\ UNCHANGED trueTime
    BY <1>10
  <2>2. /\ work.elapsed <= work.reserved
        /\ ledger.active = [exp |-> work.exp, reserved |-> work.reserved]
        /\ ledger.active # Nothing
    BY <1>4, <1>10
  <2>3. \A x \in Experiments :
           /\ SpentBy(x)' = SpentBy(x)
           /\ trueTime'[x] = trueTime[x] + (IF x = work.exp THEN d ELSE 0)
           /\ Usable(x) = IF x = work.exp THEN work.elapsed ELSE 0
    BY <1>1, <1>10, <2>1, <2>2 DEF SpentBy, RegisteredExperiments, Usable
  <2>4. work.elapsed + d <= work.reserved \/ work'.pc \in Inside
    <3>1. CASE work'.pc \in Inside
      BY <3>1
    <3>2. CASE work'.pc \notin Inside /\ d = 0
      BY <3>2, <2>2, <1>3
    <3>3. CASE work'.pc \notin Inside /\ d # 0
      <4>1. TrainStep \/ WriteCheckpoint \/ WorkToDeadline
        <5>1. trueTime' # trueTime
          BY <3>3, <2>1, <1>1, <1>10
        <5> QED BY <5>1 DEF BudgetNext, budgetVars, EnterBudget, Reconcile, ReserveTime,
                   ExitBudget, PersistFails, LoadSession, SessionFails, StopSignal, LeaveLoop,
                   StageCheckpoint, PublishCheckpoint, WriteIndex, PruneCheckpoints,
                   CheckpointFails, TrainerKilled
      <4>2. work'.pc \in Inside
        BY <4>1, <1>1, TrainMoves, WriteMoves, DeadlineMoves DEF Inside
      <4> QED BY <3>3, <4>2
    <3> QED BY <3>1, <3>2, <3>3
  <2>5. \A x \in Experiments : x = work.exp => work.elapsed + d <= Usable(x)'
    BY <1>3, <1>10, <2>1, <2>2, <2>4 DEF Usable
  <2>6. \A x \in Experiments : x # work.exp => Usable(x)' = 0
    BY <1>10, <2>2 DEF Usable
  <2>7. \A x \in Experiments : Usable(x)' \in Nat
    BY <1>3, <1>10, <2>1, <2>2 DEF Usable
  <2>8. ASSUME NEW x \in Experiments PROVE trueTime'[x] <= SpentBy(x)' + Usable(x)'
    BY <1>2, <1>3, <1>5, <2>1, <2>3, <2>5, <2>6, <2>7
  <2> QED BY <2>8 DEF UsedCovered
<1> QED BY <1>6, <1>7, <1>8, <1>9, <1>10, TimeMoves

\* what a step does to the directories of an experiment
LEMMA ShelfMoves ==
    ASSUME BudgetInv, [BudgetNext]_budgetVars
    PROVE  \/ UNCHANGED shelf
           \/ /\ work.exp \in Experiments /\ work'.exp = work.exp /\ MyShelf \in Shelves
              /\ \/ StageCheckpoint /\ \E c \in Checkpoint :
                       SetMyShelf([MyShelf EXCEPT !.lock = TRUE, !.pending = @ \cup {c}])
                 \/ /\ PublishCheckpoint /\ work.saving \in Checkpoint
                    /\ SetMyShelf([MyShelf EXCEPT !.pending = @ \ {work.saving},
                                                  !.done = @ \cup {work.saving}])
                 \/ /\ WriteIndex /\ work.saving \in MyShelf.done
                    /\ SetMyShelf([MyShelf EXCEPT
                           !.index = Retained(MyShelf.index, work.saving),
                           !.latest = work.saving])
                 \/ PruneCheckpoints /\ \E c \in work.dropped :
                       SetMyShelf([MyShelf EXCEPT !.done = @ \ {c}])
                 \/ /\ CheckpointFails
                    /\ SetMyShelf([MyShelf EXCEPT !.pending = @ \ {work.saving}])
<1>1. work \in Works /\ shelf \in [Experiments -> Shelves] /\ PhaseFits /\ SavingFits
  BY DEF BudgetInv, BudgetTypeOK
<1>2. ~ WorkAt("rest") => work.exp \in Experiments /\ MyShelf \in Shelves
  BY <1>1 DEF PhaseFits, MyShelf
<1>3. CASE StageCheckpoint
  <2>1. work'.exp = work.exp
    BY <1>3, StageMoves DEF KeptWork, Others
  <2>2. \E c \in Checkpoint :
            SetMyShelf([MyShelf EXCEPT !.lock = TRUE, !.pending = @ \cup {c}])
    BY <1>3, StageMoves
  <2> QED BY <1>2, <1>3, <2>1, <2>2 DEF StageCheckpoint, WorkAt
<1>4. CASE PublishCheckpoint
  BY <1>1, <1>2, <1>4, PublishMoves DEF PublishCheckpoint, WorkAt, SavingFits, KeptWork, Others
<1>5. CASE WriteIndex
  <2>1. work'.exp = work.exp
    BY <1>1, <1>2, <1>5, IndexMoves DEF WriteIndex, WorkAt, KeptWork, Others
  <2>2. SetMyShelf([MyShelf EXCEPT !.index = Retained(MyShelf.index, work.saving),
                                   !.latest = work.saving])
    BY <1>5 DEF WriteIndex
  <2>3. work.saving \in MyShelf.done
    BY <1>1, <1>5 DEF WriteIndex, SavingFits
  <2> QED BY <1>2, <1>5, <2>1, <2>2, <2>3 DEF WriteIndex, WorkAt
<1>6. CASE PruneCheckpoints
  <2>1. work'.exp = work.exp
    BY <1>1, <1>6, PruneMoves DEF KeptWork, Others
  <2>2. \/ UNCHANGED shelf
        \/ \E c \in work.dropped : SetMyShelf([MyShelf EXCEPT !.done = @ \ {c}])
    BY <1>6 DEF PruneCheckpoints
  <2> QED BY <1>2, <1>6, <2>1, <2>2 DEF PruneCheckpoints, WorkAt
<1>7. CASE CheckpointFails
  <2>1. work'.exp = work.exp
    BY <1>1, <1>7, CheckpointFailsMoves DEF KeptWork
  <2> QED BY <1>2, <1>7, <2>1 DEF CheckpointFails, WorkAt
<1> QED BY <1>3, <1>4, <1>5, <1>6, <1>7, ShelfEffects

\* A directory never holds more than finitely many checkpoints.
LEMMA ShelvesFiniteStep ==
    ASSUME BudgetInv, [BudgetNext]_budgetVars
    PROVE  ShelvesFinite'
<1> DEFINE all(s) == s.pending \cup s.done \cup s.index
<1>1. /\ shelf \in [Experiments -> Shelves]
      /\ \A e \in Experiments : IsFiniteSet(all(shelf[e]))
  BY DEF BudgetInv, BudgetTypeOK, ShelvesFinite
<1>2. ASSUME NEW s, SetMyShelf(s), work.exp \in Experiments,
             NEW c, all(s) \subseteq all(MyShelf) \cup {c}
      PROVE  ShelvesFinite'
  <2>1. IsFiniteSet(all(MyShelf) \cup {c})
    <3>1. IsFiniteSet(all(MyShelf))
      BY <1>1, <1>2 DEF MyShelf
    <3> HIDE DEF all
    <3> QED BY <3>1, FS_AddElement
  <2>2. IsFiniteSet(all(s))
    <3> HIDE DEF all
    <3> QED BY <1>2, <2>1, FS_Subset
  <2>3. \A e \in Experiments : shelf'[e] = IF e = work.exp THEN s ELSE shelf[e]
    BY <1>1, <1>2 DEF SetMyShelf
  <2>4. \A e \in Experiments : IsFiniteSet(all(shelf'[e]))
    <3> HIDE DEF all
    <3> QED BY <1>1, <2>2, <2>3
  <2> QED BY <2>4 DEF ShelvesFinite
<1>3. CASE UNCHANGED shelf
  BY <1>1, <1>3 DEF ShelvesFinite
<1>4. ASSUME NEW c, work.exp \in Experiments, MyShelf \in Shelves,
             \/ SetMyShelf([MyShelf EXCEPT !.lock = TRUE, !.pending = @ \cup {c}])
             \/ SetMyShelf([MyShelf EXCEPT !.pending = @ \ {c}, !.done = @ \cup {c}])
             \/ SetMyShelf([MyShelf EXCEPT !.done = @ \ {c}])
             \/ SetMyShelf([MyShelf EXCEPT !.pending = @ \ {c}])
      PROVE  ShelvesFinite'
  <2> DEFINE s1 == [MyShelf EXCEPT !.lock = TRUE, !.pending = @ \cup {c}]
             s2 == [MyShelf EXCEPT !.pending = @ \ {c}, !.done = @ \cup {c}]
             s3 == [MyShelf EXCEPT !.done = @ \ {c}]
             s4 == [MyShelf EXCEPT !.pending = @ \ {c}]
  <2>1. /\ all(s1) \subseteq all(MyShelf) \cup {c}
        /\ all(s2) \subseteq all(MyShelf) \cup {c}
        /\ all(s3) \subseteq all(MyShelf) \cup {c}
        /\ all(s4) \subseteq all(MyShelf) \cup {c}
    BY <1>4 DEF Shelves
  <2>2. SetMyShelf(s1) \/ SetMyShelf(s2) \/ SetMyShelf(s3) \/ SetMyShelf(s4)
    BY <1>4
  <2> HIDE DEF all, s1, s2, s3, s4
  <2>3. ASSUME NEW s, SetMyShelf(s), all(s) \subseteq all(MyShelf) \cup {c}
        PROVE  ShelvesFinite'
    BY <1>2, <1>4, <2>3
  <2> QED BY <2>1, <2>2, <2>3
<1>5. ASSUME NEW c, work.exp \in Experiments, MyShelf \in Shelves,
             SetMyShelf([MyShelf EXCEPT !.index = Retained(MyShelf.index, c), !.latest = c])
      PROVE  ShelvesFinite'
  <2> DEFINE kept == Retained(MyShelf.index, c)
             s == [MyShelf EXCEPT !.index = kept, !.latest = c]
  <2>1. kept \subseteq MyShelf.index \cup {c}
    BY DEF Retained
  <2>2. all(s) \subseteq all(MyShelf) \cup {c}
    <3> HIDE DEF kept
    <3> QED BY <1>5, <2>1 DEF Shelves
  <2> HIDE DEF all, kept
  <2> QED BY <1>5, <2>2, <1>2 DEF kept
<1> HIDE DEF all
<1> QED BY <1>3, <1>4, <1>5, ShelfMoves

\* The index never names a checkpoint that is not published, or is already pruned.
LEMMA IndexesWholeStep ==
    ASSUME BudgetInv, [BudgetNext]_budgetVars
    PROVE  IndexesWhole'
<1> DEFINE Whole(s) == /\ s.index \subseteq s.done
                       /\ s.latest \in s.index \cup {Nothing}
                       /\ s.index # {} => s.latest # Nothing
<1>1. shelf \in [Experiments -> Shelves] /\ \A e \in Experiments : Whole(shelf[e])
  BY DEF BudgetInv, BudgetTypeOK, IndexesWhole
<1>2. ASSUME NEW s, SetMyShelf(s), work.exp \in Experiments, Whole(s)
      PROVE  IndexesWhole'
  <2>1. \A e \in Experiments : shelf'[e] = IF e = work.exp THEN s ELSE shelf[e]
    BY <1>1, <1>2 DEF SetMyShelf
  <2>2. \A e \in Experiments : Whole(shelf'[e])
    <3> HIDE DEF Whole
    <3> QED BY <1>1, <1>2, <2>1
  <2> QED BY <2>2 DEF IndexesWhole
<1>3. CASE UNCHANGED shelf
  BY <1>1, <1>3 DEF IndexesWhole
<1>4. work.exp \in Experiments => Whole(MyShelf)
  BY <1>1 DEF MyShelf
<1>5. ASSUME NEW c, work.exp \in Experiments, MyShelf \in Shelves,
             \/ SetMyShelf([MyShelf EXCEPT !.lock = TRUE, !.pending = @ \cup {c}])
             \/ SetMyShelf([MyShelf EXCEPT !.pending = @ \ {c}, !.done = @ \cup {c}])
             \/ SetMyShelf([MyShelf EXCEPT !.pending = @ \ {c}])
      PROVE  IndexesWhole'
  <2> DEFINE s1 == [MyShelf EXCEPT !.lock = TRUE, !.pending = @ \cup {c}]
             s2 == [MyShelf EXCEPT !.pending = @ \ {c}, !.done = @ \cup {c}]
             s4 == [MyShelf EXCEPT !.pending = @ \ {c}]
  <2>1. Whole(s1) /\ Whole(s2) /\ Whole(s4)
    BY <1>4, <1>5 DEF Shelves
  <2> HIDE DEF Whole
  <2> QED BY <1>5, <2>1, <1>2
<1>6. ASSUME work.exp \in Experiments, MyShelf \in Shelves, WriteIndex,
             work.saving \in MyShelf.done,
             SetMyShelf([MyShelf EXCEPT !.index = Retained(MyShelf.index, work.saving),
                                        !.latest = work.saving])
      PROVE  IndexesWhole'
  <2> DEFINE kept == Retained(MyShelf.index, work.saving)
             s == [MyShelf EXCEPT !.index = kept, !.latest = work.saving]
  <2>1. kept \subseteq MyShelf.index \cup {work.saving} /\ work.saving \in kept
    BY DEF Retained
  <2>2. work.saving # Nothing
    BY <1>6, BudgetAssumption DEF Shelves, Checkpoint
  <2>3. Whole(s)
    <3> HIDE DEF kept
    <3> QED BY <1>4, <1>6, <2>1, <2>2 DEF Shelves
  <2> HIDE DEF Whole, kept
  <2> QED BY <1>6, <2>3, <1>2 DEF kept
<1>7. ASSUME work.exp \in Experiments, MyShelf \in Shelves, PruneCheckpoints,
             NEW c \in work.dropped, SetMyShelf([MyShelf EXCEPT !.done = @ \ {c}])
      PROVE  IndexesWhole'
  <2> DEFINE s == [MyShelf EXCEPT !.done = @ \ {c}]
  <2>1. c \notin MyShelf.index
    BY <1>7 DEF BudgetInv, SavingFits, PruneCheckpoints
  <2>2. Whole(s)
    BY <1>4, <1>7, <2>1 DEF Shelves
  <2> HIDE DEF Whole
  <2> QED BY <1>7, <2>2, <1>2
<1> HIDE DEF Whole
<1> QED BY <1>3, <1>5, <1>6, <1>7, ShelfMoves

\* The checkpoint under way is the one of the last step.
LEMMA SavingFitsStep ==
    ASSUME BudgetInv, [BudgetNext]_budgetVars
    PROVE  SavingFits'
<1>1. /\ work \in Works /\ shelf \in [Experiments -> Shelves] /\ PhaseFits /\ SavingFits
      /\ Reserve
  BY DEF BudgetInv, BudgetTypeOK
<1>2. ~ WorkAt("rest") => work.exp \in Experiments /\ MyShelf \in Shelves
  BY <1>1 DEF PhaseFits, MyShelf
<1>3. ASSUME work'.pc \notin {"write", "rename", "index", "prune", "exit"}
      PROVE  SavingFits'
  BY <1>3 DEF SavingFits, WorkAt
<1>4. ASSUME work'.pc = "exit", work'.then # "final"
      PROVE  SavingFits'
  BY <1>4 DEF SavingFits, WorkAt
<1>5. ASSUME NEW kind \in {"train", "check"}, NEW e \in Experiments,
             NEW resume \in BOOLEAN, NEW stopAfter \in StopSteps,
             EnterBudget(kind, e, resume, stopAfter)
      PROVE  SavingFits'
  BY <1>3, <1>5, EnterMoves
<1>6. CASE Reconcile
  BY <1>1, <1>3, <1>6, ReconcileMoves
<1>7. CASE ReserveTime
  <2>1. CASE work' = NoWork
    BY <2>1, <1>3 DEF NoWork
  <2>2. CASE work' # NoWork
    BY <2>2, <1>3, <1>7, ReserveMoves
  <2> QED BY <2>1, <2>2
<1>8. CASE ExitBudget \/ PersistFails \/ TrainerKilled
  <2>1. work' = NoWork
    BY <1>8 DEF ExitBudget, PersistFails, TrainerKilled
  <2> QED BY <2>1, <1>3 DEF NoWork
<1>9. CASE LoadSession
  <2>1. work'.pc \in {"check", "exit", "train"} /\ (work'.pc = "exit" => work'.then = "failed")
    BY <1>1, <1>2, <1>9, LoadMoves DEF LoadSession, WorkAt
  <2> QED BY <2>1, <1>3, <1>4
<1>10. CASE SessionFails
  BY <1>1, <1>4, <1>10, FailsMoves
<1>11. CASE StopSignal
  <2>1. /\ work'.pc = work.pc /\ work'.saving = work.saving /\ work'.step = work.step
        /\ work'.dropped = work.dropped /\ work'.then = work.then /\ work'.exp = work.exp
    BY <1>1, <1>11, SignalMoves DEF KeptWork, Others
  <2>2. MyShelf' = MyShelf
    BY <1>11, <2>1 DEF StopSignal, MyShelf
  <2> QED BY <2>1, <2>2, <1>1 DEF SavingFits, WorkAt
<1>12. CASE TrainStep
  <2>1. work'.pc \in {"stage", "train"}
    BY <1>1, <1>12, TrainMoves
  <2> QED BY <2>1, <1>3
<1>13. CASE LeaveLoop
  BY <1>1, <1>3, <1>13, LeaveMoves
<1>14. CASE WorkToDeadline
  BY <1>1, <1>3, <1>4, <1>14, DeadlineMoves
<1>15. CASE StageCheckpoint
  <2>1. PICK score \in Scores \cup {Nothing} :
           LET c == [name |-> FreshName(MyShelf), step |-> work.step, score |-> score] IN
           /\ c \in Checkpoint /\ work'.pc = "write" /\ work'.saving = c
           /\ KeptWork(Others \ {"saving"})
    BY <1>15, StageMoves
  <2>2. /\ work'.saving \in Checkpoint /\ work'.pc = "write"
        /\ work'.saving.step = work.step /\ work'.step = work.step
    BY <2>1 DEF KeptWork, Others
  <2> QED BY <2>2 DEF SavingFits, WorkAt
<1>16. CASE WriteCheckpoint
  <2>1. /\ work'.pc = "rename" /\ work'.saving = work.saving /\ work'.step = work.step
    BY <1>1, <1>16, WriteMoves DEF KeptWork, Others
  <2>2. work.saving \in Checkpoint /\ work.saving.step = work.step
    BY <1>1, <1>16 DEF SavingFits, WriteCheckpoint, WorkAt
  <2> QED BY <2>1, <2>2 DEF SavingFits, WorkAt
<1>17. CASE PublishCheckpoint
  <2>1. /\ work'.pc = "index" /\ work'.saving = work.saving /\ work'.step = work.step
        /\ work'.exp = work.exp
    BY <1>1, <1>17, PublishMoves DEF KeptWork, Others
  <2>2. work.saving \in Checkpoint /\ work.saving.step = work.step
    BY <1>1, <1>17 DEF SavingFits, PublishCheckpoint, WorkAt
  <2>3. work.exp \in Experiments /\ MyShelf \in Shelves
    BY <1>2, <1>17 DEF PublishCheckpoint, WorkAt
  <2> DEFINE s == [MyShelf EXCEPT !.pending = @ \ {work.saving}, !.done = @ \cup {work.saving}]
  <2>4. work.saving \in s.done
    BY <2>3 DEF Shelves
  <2>5. MyShelf' = s
    <3>1. SetMyShelf(s)
      BY <1>17 DEF PublishCheckpoint
    <3> HIDE DEF s
    <3> QED BY <3>1, <2>1, <2>3, <1>1 DEF SetMyShelf, MyShelf
  <2> HIDE DEF s
  <2> QED BY <2>1, <2>2, <2>4, <2>5 DEF SavingFits, WorkAt
<1>18. CASE WriteIndex
  <2>1. /\ work'.pc = "prune" /\ work'.step = work.step /\ work'.exp = work.exp
        /\ work'.dropped = MyShelf.index \ Retained(MyShelf.index, work.saving)
    BY <1>1, <1>2, <1>18, IndexMoves DEF KeptWork, Others, WriteIndex, WorkAt
  <2>2. work.saving \in Checkpoint /\ work.saving.step = work.step
    BY <1>1, <1>18 DEF SavingFits, WriteIndex, WorkAt
  <2>3. work.exp \in Experiments /\ MyShelf \in Shelves /\ work.saving # Nothing
    BY <1>2, <1>18, <2>2, BudgetAssumption DEF WriteIndex, WorkAt, Checkpoint
  <2> DEFINE kept == Retained(MyShelf.index, work.saving)
             s == [MyShelf EXCEPT !.index = kept, !.latest = work.saving]
  <2>4. SetMyShelf(s)
    BY <1>18 DEF WriteIndex
  <2> HIDE DEF kept
  <2>5. s.index = kept /\ s.latest = work.saving
    BY <2>3 DEF Shelves
  <2>6. MyShelf' = s
    <3> HIDE DEF s
    <3> QED BY <2>4, <2>1, <2>3, <1>1 DEF SetMyShelf, MyShelf
  <2>7. (MyShelf.index \ kept) \cap kept = {}
    OBVIOUS
  <2>8. work'.dropped = MyShelf.index \ kept
    BY <2>1 DEF kept
  <2> HIDE DEF s
  <2> QED BY <2>1, <2>2, <2>3, <2>5, <2>6, <2>7, <2>8 DEF SavingFits, WorkAt
<1>19. CASE PruneCheckpoints
  <2>1. /\ work.dropped \cap MyShelf.index = {} /\ MyShelf.latest # Nothing
        /\ MyShelf.latest.step = work.step
    BY <1>1, <1>19 DEF SavingFits, PruneCheckpoints, WorkAt
  <2>2. work.exp \in Experiments /\ MyShelf \in Shelves
    BY <1>2, <1>19 DEF PruneCheckpoints, WorkAt
  <2>3. CASE \E c \in work.dropped :
                 /\ SetMyShelf([MyShelf EXCEPT !.done = @ \ {c}])
                 /\ work' \in Works /\ work'.pc = "prune"
                 /\ work'.dropped = work.dropped \ {c} /\ KeptWork(Others \ {"dropped"})
    <3>1. PICK c \in work.dropped :
                 /\ SetMyShelf([MyShelf EXCEPT !.done = @ \ {c}])
                 /\ work'.pc = "prune"
                 /\ work'.dropped = work.dropped \ {c} /\ KeptWork(Others \ {"dropped"})
      BY <2>3
    <3>2. work'.exp = work.exp /\ work'.step = work.step
      BY <3>1 DEF KeptWork, Others
    <3> DEFINE s == [MyShelf EXCEPT !.done = @ \ {c}]
    <3>3. s.index = MyShelf.index /\ s.latest = MyShelf.latest
      BY <2>2 DEF Shelves
    <3>4. SetMyShelf(s)
      BY <3>1
    <3> HIDE DEF s
    <3>5. MyShelf' = s
      BY <3>2, <3>4, <2>2, <1>1 DEF SetMyShelf, MyShelf
    <3> QED BY <3>1, <3>2, <3>3, <3>5, <2>1 DEF SavingFits, WorkAt
  <2>4. CASE /\ UNCHANGED shelf /\ KeptWork(Others)
             /\ work'.pc = IF work.then = "final" THEN "exit" ELSE "train"
    <3>1. work'.exp = work.exp /\ work'.step = work.step
      BY <2>4 DEF KeptWork, Others
    <3>2. MyShelf' = MyShelf
      BY <2>4, <3>1 DEF MyShelf
    <3> QED BY <3>1, <3>2, <2>1, <2>4 DEF SavingFits, WorkAt
  <2> QED BY <1>1, <1>19, <2>3, <2>4, PruneMoves
<1>20. CASE CheckpointFails
  BY <1>1, <1>4, <1>20, CheckpointFailsMoves
<1>21. CASE UNCHANGED budgetVars
  BY <1>1, <1>21 DEF budgetVars, SavingFits, WorkAt, MyShelf
<1> QED
  BY <1>5, <1>6, <1>7, <1>8, <1>9, <1>10, <1>11, <1>12, <1>13, <1>14, <1>15, <1>16, <1>17,
     <1>18, <1>19, <1>20, <1>21 DEF BudgetNext

\* The empty ledger satisfies the invariant.
LEMMA BudgetInvInit == BudgetInit => BudgetInv
<1> SUFFICES ASSUME BudgetInit PROVE BudgetInv
  OBVIOUS
<1>1. /\ ledger = [total |-> 0, spent |-> <<>>, active |-> Nothing]
      /\ shelf = [e \in Experiments |-> NoShelf]
      /\ work = NoWork /\ trueTime = [e \in Experiments |-> 0] /\ crashes = 0
  BY DEF BudgetInit
<1>2. DOMAIN ledger.spent = {}
  BY <1>1
<1>3. LedgerTyped
  BY <1>1, <1>2 DEF LedgerTyped, RegisteredExperiments
<1>4. BudgetTypeOK
  <2>1. NoShelf \in Shelves
    BY DEF NoShelf, Shelves
  <2>2. shelf \in [Experiments -> Shelves]
    BY <1>1, <2>1
  <2> QED BY <1>1, <1>3, <2>2, NoWorkTyped DEF BudgetTypeOK
<1>5. ShelvesFinite
  <2>1. \A e \in Experiments : shelf[e].pending \cup shelf[e].done \cup shelf[e].index = {}
    BY <1>1 DEF NoShelf
  <2> QED BY <2>1, FS_EmptySet DEF ShelvesFinite
<1>6. PhaseFits /\ Reserve /\ SavingFits
  BY <1>1 DEF PhaseFits, Reserve, SavingFits, WorkAt, NoWork, Inside
<1>7. LedgerAdds
  <2>1. Cardinality({}) = 0 /\ IsFiniteSet({})
    BY FS_EmptySet
  <2>2. SumFunctionOnSet(ledger.spent, {}) = 0
    BY SumEmpty
  <2> QED BY <1>1, <1>2, <2>1, <2>2, BudgetAssumption DEF LedgerAdds, RegisteredExperiments
<1>8. WithinLimits
  BY <1>1, <1>2, BudgetAssumption DEF WithinLimits, SpentBy, ReservedNow, RegisteredExperiments
<1>9. UsedCovered
  BY <1>1, <1>2 DEF UsedCovered, SpentBy, Usable, RegisteredExperiments
<1>10. IndexesWhole
  BY <1>1 DEF IndexesWhole, NoShelf
<1> QED BY <1>4, <1>5, <1>6, <1>7, <1>8, <1>9, <1>10 DEF BudgetInv

\* Every step of the lock holder, and every crash, preserves the invariant.
LEMMA BudgetInvStep == BudgetInv /\ [BudgetNext]_budgetVars => BudgetInv'
<1> SUFFICES ASSUME BudgetInv, [BudgetNext]_budgetVars PROVE BudgetInv'
  OBVIOUS
<1>1. BudgetTypeOK'
  BY LedgerTypedStep, ShelfTypedStep, WorkTyped, HistoryTypedStep DEF BudgetTypeOK
<1> QED BY <1>1, ShelvesFiniteStep, PhaseStep, LedgerAddsStep, WithinLimitsStep,
           UsedCoveredStep, ReserveStep, IndexesWholeStep, SavingFitsStep DEF BudgetInv

\* The inductive invariant holds in every state: the ledger, the directories and the process
\* stay consistent over any number of operations, crashes, signals and failed writes.
THEOREM BudgetInvariant == BudgetSpec => []BudgetInv
BY BudgetInvInit, BudgetInvStep, PTL DEF BudgetSpec

\* Type correctness of the training budget.
THEOREM BudgetTyped == BudgetSpec => []BudgetTypeOK
<1>1. BudgetInv => BudgetTypeOK
  BY DEF BudgetInv
<1> QED BY <1>1, BudgetInvariant, PTL

\* The invariant implies the accounting property: the part of a reservation that may have
\* been used is never more than the reservation.
LEMMA InvAccounts == BudgetInv => TimeAccounted
<1> SUFFICES ASSUME BudgetInv PROVE TimeAccounted
  OBVIOUS
<1>1. LedgerTyped /\ LedgerAdds /\ WithinLimits /\ UsedCovered /\ work \in Works /\ PhaseFits
      /\ Reserve /\ trueTime \in [Experiments -> Nat]
  BY DEF BudgetInv, BudgetTypeOK
<1>2. ledger.total = MapThenSumSet(LAMBDA e : ledger.spent[e], RegisteredExperiments)
  <2>1. SumFunctionOnSet(ledger.spent, RegisteredExperiments)
           = MapThenSumSet(LAMBDA e : ledger.spent[e], RegisteredExperiments)
    BY Zenon DEF SumFunctionOnSet, FoldFunctionOnSet, MapThenSumSet
  <2> QED BY <1>1, <2>1, Zenon DEF LedgerAdds
<1>3. ledger.total <= MaximumTotal
  BY <1>1, BudgetAssumption DEF WithinLimits, LedgerTyped
<1>4. ASSUME NEW e \in Experiments
      PROVE  /\ Usable(e) \in Nat /\ ReservedNow(e) \in Nat /\ Usable(e) <= ReservedNow(e)
             /\ SpentBy(e) \in Nat
  <2>1. /\ work.elapsed \in Nat /\ work.reserved \in Nat
        /\ work.pc \in Inside =>
               /\ work.elapsed <= work.reserved
               /\ ledger.active = [exp |-> work.exp, reserved |-> work.reserved]
        /\ ledger.active # Nothing => ledger.active.reserved \in Nat
    BY <1>1 DEF Works, Reserve, PhaseFits, LedgerTyped, Inside
  <2>2. SpentBy(e) \in Nat
    BY <1>1 DEF LedgerTyped, SpentBy
  <2> QED BY <2>1, <2>2 DEF Usable, ReservedNow
<1>5. ASSUME NEW e \in Experiments
      PROVE  /\ trueTime[e] <= SpentBy(e) + ReservedNow(e)
             /\ SpentBy(e) + ReservedNow(e) <= MaximumExperiment
  <2>1. trueTime[e] \in Nat /\ trueTime[e] <= SpentBy(e) + Usable(e)
    BY <1>1 DEF UsedCovered
  <2>2. SpentBy(e) + ReservedNow(e) <= MaximumExperiment
    BY <1>1 DEF WithinLimits
  <2> QED BY <2>1, <2>2, <1>4
<1>6. Cardinality(RegisteredExperiments) <= MaximumExperiments
  BY <1>1 DEF LedgerAdds
<1> QED BY <1>2, <1>3, <1>5, <1>6, Zenon DEF TimeAccounted, ReservedNow

\* No training time is forgotten or given twice and no limit is exceeded, whatever the
\* limits, the save reserve and the number of crashes (ProofBudget, train).
THEOREM TimeIsAccounted == BudgetSpec => []TimeAccounted
BY BudgetInvariant, InvAccounts, PTL

\* What the index names is published, at every moment of a save and after every crash, and a
\* run that reached its normal end has saved its last step (save_checkpoint).
THEOREM CheckpointsAreRestorable == BudgetSpec => []CheckpointsRestorable
<1>1. BudgetInv => CheckpointsRestorable
  BY DEF BudgetInv, IndexesWhole, SavingFits, CheckpointsRestorable
<1> QED BY <1>1, BudgetInvariant, PTL

\* The preflight and the reservation judge alike: the one never lets a run start that the
\* other refuses (training_preflight, _slot).  The two decisions agree in any state.
THEOREM PreflightKeeps == BudgetSpec => []PreflightKeepsItsWord
<1>1. PreflightKeepsItsWord
  BY DEF PreflightKeepsItsWord, PreflightAllows, SlotAdmitted
<1> QED BY <1>1, PTL

-----------------------------------------------------------------------------
(* The invariant of the rented time *)

Session == [id : SessionIds, stage : Stages, kind : {"observed", "attested"}, started : Int,
            deadline : Int, observed : Int, stopped : Int \cup {Running}]
Books == [sessions : Seq(Session), allocations : [Stages -> Int], transfers : Nat]
Guards == [pc : {"none", "watch", "poweroff"}, id : SessionIds \cup {Running},
           checkpoint : Int, stop : Int, requested : BOOLEAN, due : BOOLEAN,
           read : BOOLEAN, promise : Int]

PilotTypeOK ==
    /\ book \in Books
    /\ wall \in Int
    /\ guard \in Guards
    /\ operation \in BOOLEAN
    /\ jumps \in Nat

\* the session a guard watches stays known, its deadlines are in order and within the time
\* that it started with, and what it last read of the ledger still holds
GuardFits ==
    /\ guard.pc = "watch" =>
           /\ Known(book, guard.id)
           /\ 0 <= guard.checkpoint /\ guard.checkpoint <= guard.stop
           /\ guard.stop <= guard.promise
           /\ ~ guard.due => 0 < guard.stop
           /\ guard.read /\ ActiveSession(book, guard.id) =>
                  guard.stop = 0 \/ guard.stop <= PoweroffAt(Last(book.sessions)) - wall
    /\ guard.pc = "poweroff" => guard.requested

PilotInv == PilotTypeOK /\ Consistent(book) /\ GuardFits

\* The smaller of two integers.
LEMMA MinOfInts == ASSUME NEW a \in Int, NEW b \in Int
                   PROVE  Min({a, b}) = IF a <= b THEN a ELSE b
<1>1. \E x \in {a, b} : \A y \in {a, b} : x =< y
  OBVIOUS
<1>2. Min({a, b}) \in {a, b} /\ \A y \in {a, b} : Min({a, b}) =< y
  BY <1>1, Zenon DEF Min
<1> QED BY <1>2

\* The last session of a ledger that has one.
LEMMA LastSession ==
    ASSUME NEW b \in Books, b.sessions # <<>>
    PROVE  /\ Len(b.sessions) \in Nat /\ Len(b.sessions) >= 1
           /\ Len(b.sessions) \in DOMAIN b.sessions
           /\ Last(b.sessions) = b.sessions[Len(b.sessions)]
           /\ Last(b.sessions) \in Session
BY DEF Books, Last

\* A ledger whose last session was rewritten (observe_session, confirm_stopped).
LEMMA Rewritten ==
    ASSUME NEW b \in Books, b.sessions # <<>>, NEW s \in Session
    PROVE  LET c == [b EXCEPT !.sessions[Len(b.sessions)] = s]
           IN  /\ c \in Books
               /\ Len(c.sessions) = Len(b.sessions) /\ DOMAIN c.sessions = DOMAIN b.sessions
               /\ Last(c.sessions) = s /\ c.sessions # <<>>
               /\ \A k \in DOMAIN b.sessions :
                      c.sessions[k] = IF k = Len(b.sessions) THEN s ELSE b.sessions[k]
               /\ c.allocations = b.allocations
<1> DEFINE n == Len(b.sessions)
           q == [b.sessions EXCEPT ![n] = s]
           c == [b EXCEPT !.sessions[Len(b.sessions)] = s]
<1>1. b.sessions \in Seq(Session) /\ n \in Nat /\ n >= 1
  BY DEF Books
<1>2. /\ q \in Seq(Session) /\ Len(q) = n /\ DOMAIN q = DOMAIN b.sessions
      /\ \A k \in DOMAIN b.sessions : q[k] = IF k = n THEN s ELSE b.sessions[k]
  BY <1>1
<1>3. c = [b EXCEPT !.sessions = q]
  BY DEF Books
<1>4. c \in Books /\ c.sessions = q /\ c.allocations = b.allocations
  <2> HIDE DEF q
  <2> QED BY <1>2, <1>3 DEF Books
<1>5. Last(q) = s /\ q # <<>>
  BY <1>1, <1>2 DEF Last
<1> HIDE DEF q, c
<1> QED BY <1>2, <1>4, <1>5 DEF c

\* The numbers of a session.
LEMMA SessionNumbers ==
    ASSUME NEW s \in Session
    PROVE  /\ Promised(s) \in Int
           /\ Ended(s) => s.stopped \in Int /\ Used(s) \in Int
           /\ ~ Ended(s) => s.stopped = Running
BY PilotAssumption DEF Session, Promised, Used, Ended

\* What sessions count.
LEMMA ChargeNumbers ==
    ASSUME NEW b \in Books
    PROVE  /\ \A k \in DOMAIN b.sessions :
                  /\ Charges(b)[k] \in Int
                  /\ Charges(b)[k] = IF Ended(b.sessions[k]) THEN Used(b.sessions[k])
                                     ELSE Promised(b.sessions[k])
           /\ IsFiniteSet(DOMAIN b.sessions)
           /\ DOMAIN b.sessions = 1..Len(b.sessions) /\ Len(b.sessions) \in Nat
<1>1. b.sessions \in Seq(Session)
  BY DEF Books
<1>2. DOMAIN b.sessions = 1..Len(b.sessions) /\ Len(b.sessions) \in Nat
  BY <1>1
<1>3. IsFiniteSet(DOMAIN b.sessions)
  BY <1>2, FS_Interval
<1>4. ASSUME NEW k \in DOMAIN b.sessions
      PROVE  /\ Charges(b)[k] \in Int
             /\ Charges(b)[k] = IF Ended(b.sessions[k]) THEN Used(b.sessions[k])
                                ELSE Promised(b.sessions[k])
  <2>1. b.sessions[k] \in Session
    BY <1>1
  <2> QED BY <2>1, SessionNumbers DEF Charges
<1> QED BY <1>2, <1>3, <1>4

-----------------------------------------------------------------------------
(* What the validators give *)

\* one session as the validator sees it
SessionFits(b, k) ==
    LET s == b.sessions[k]
        charged == IF Ended(s) THEN Min({Promised(s), Used(s)}) ELSE Promised(s)
    IN /\ ConsistentSession(s)
       /\ k > 1 => LET before == b.sessions[k - 1] IN
                   s.started >= IF Ended(before) THEN before.stopped ELSE before.started
       /\ ~Ended(s) => k = Len(b.sessions)
       /\ charged <= MaximumSeconds - UsedBefore(b, k, Stages)
       /\ charged <= b.allocations[s.stage] - UsedBefore(b, k, {s.stage})

LEMMA ConsistentBySession ==
    ASSUME NEW b
    PROVE  Consistent(b) <=> /\ \A stage \in Stages : b.allocations[stage] >= 0
                             /\ \A k \in DOMAIN b.sessions : SessionFits(b, k)
BY Zenon DEF Consistent, SessionFits

\* What was used before a session does not depend on the session.
LEMMA UsedBeforeSame ==
    ASSUME NEW b \in Books, NEW c \in Books, NEW k \in DOMAIN b.sessions, NEW stages,
           DOMAIN c.sessions = DOMAIN b.sessions,
           \A j \in DOMAIN b.sessions : j < k => c.sessions[j] = b.sessions[j]
    PROVE  UsedBefore(c, k, stages) = UsedBefore(b, k, stages) /\ UsedBefore(b, k, stages) \in Int
<1> DEFINE S == {j \in 1..(k - 1) : Ended(b.sessions[j]) /\ b.sessions[j].stage \in stages}
<1>1. /\ DOMAIN b.sessions = 1..Len(b.sessions) /\ Len(b.sessions) \in Nat
      /\ IsFiniteSet(DOMAIN b.sessions)
  BY ChargeNumbers
<1>2. S = {j \in 1..(k - 1) : Ended(c.sessions[j]) /\ c.sessions[j].stage \in stages}
  BY <1>1
<1>3. S \subseteq DOMAIN b.sessions /\ \A j \in S : j < k
  BY <1>1
<1>4. IsFiniteSet(S)
  BY <1>1, <1>3, FS_Subset
<1>5. \A j \in S : Charges(b)[j] \in Int /\ Charges(b)[j] = Charges(c)[j]
  BY <1>3, ChargeNumbers
<1>6. UsedBefore(b, k, stages) = SumFunctionOnSet(Charges(b), S)
  BY Zenon DEF UsedBefore
<1>7. UsedBefore(c, k, stages) = SumFunctionOnSet(Charges(c), S)
  BY <1>2, Zenon DEF UsedBefore
<1> HIDE DEF S
<1>8. SumFunctionOnSet(Charges(b), S) = SumFunctionOnSet(Charges(c), S)
  BY <1>4, <1>5, SumSame
<1>9. SumFunctionOnSet(Charges(b), S) \in Int
  BY <1>4, <1>5, SumType
<1> QED BY <1>6, <1>7, <1>8, <1>9

\* The stop that is recorded.
LEMMA ClosedLast ==
    ASSUME NEW b \in Books, b.sessions # <<>>, NEW now \in Int
    PROVE  LET s == Last(b.sessions)
               r == [s EXCEPT !.stopped = IF now < s.observed THEN Later(s.observed, s.deadline)
                                          ELSE now]
           IN  /\ Closed(b, now) = [b EXCEPT !.sessions[Len(b.sessions)] = r]
               /\ r \in Session /\ Ended(r) /\ r.stopped >= s.observed /\ r.stopped \in Int
               /\ Promised(r) = Promised(s) /\ r.stage = s.stage
               /\ r.started = s.started /\ r.observed = s.observed /\ r.kind = s.kind
               /\ r.deadline = s.deadline
<1> DEFINE s == Last(b.sessions)
           t == IF now < s.observed THEN Later(s.observed, s.deadline) ELSE now
           r == [s EXCEPT !.stopped = t]
<1>1. s \in Session /\ s = b.sessions[Len(b.sessions)]
  BY LastSession
<1>2. t \in Int /\ t >= s.observed
  BY <1>1 DEF Session, Later
<1>3. /\ r \in Session /\ r.stopped = t /\ r.started = s.started /\ r.observed = s.observed
      /\ r.kind = s.kind /\ r.deadline = s.deadline /\ r.stage = s.stage
  <2> HIDE DEF t, s
  <2> QED BY <1>1, <1>2 DEF Session
<1>4. Closed(b, now) = [b EXCEPT !.sessions[Len(b.sessions)] = r]
  <2>1. Closed(b, now) = [b EXCEPT !.sessions[Len(b.sessions)].stopped = t]
    BY Zenon DEF Closed
  <2>2. b.sessions \in Seq(Session) /\ Len(b.sessions) \in DOMAIN b.sessions
    BY LastSession DEF Books
  <2> HIDE DEF t
  <2> QED BY <2>1, <2>2, <1>1 DEF Books
<1>5. Ended(r) /\ Promised(r) = Promised(s)
  BY <1>2, <1>3, PilotAssumption DEF Ended, Promised
<1> QED BY <1>2, <1>3, <1>4, <1>5, Zenon

\* The validators accept the stop of the open session of a ledger that they accepted.
LEMMA StopAccepted ==
    ASSUME NEW b \in Books, Consistent(b), AnyOpen(b), NEW now \in Int
    PROVE  Consistent(Closed(b, now)) /\ Closed(b, now) \in Books
<1> DEFINE s == Last(b.sessions)
           r == [s EXCEPT !.stopped = IF now < s.observed THEN Later(s.observed, s.deadline)
                                      ELSE now]
           n == Len(b.sessions)
           c == Closed(b, now)
<1>0. b.sessions # <<>> /\ ~ Ended(s)
  BY DEF AnyOpen
<1>1. /\ n \in Nat /\ n >= 1 /\ n \in DOMAIN b.sessions /\ s = b.sessions[n] /\ s \in Session
      /\ DOMAIN b.sessions = 1..n
  BY <1>0, LastSession, ChargeNumbers
<1>2. /\ c = [b EXCEPT !.sessions[n] = r]
      /\ r \in Session /\ Ended(r) /\ r.stopped >= s.observed /\ r.stopped \in Int
      /\ Promised(r) = Promised(s) /\ r.stage = s.stage
      /\ r.started = s.started /\ r.observed = s.observed /\ r.kind = s.kind
      /\ r.deadline = s.deadline
  BY <1>0, ClosedLast, Zenon
<1>3. /\ c \in Books /\ Len(c.sessions) = n /\ DOMAIN c.sessions = DOMAIN b.sessions
      /\ \A k \in DOMAIN b.sessions : c.sessions[k] = IF k = n THEN r ELSE b.sessions[k]
      /\ c.allocations = b.allocations
  <2> HIDE DEF r, c
  <2> QED BY <1>0, <1>2, Rewritten
<1> HIDE DEF c, r, s, n
<1>4. ASSUME NEW k \in DOMAIN b.sessions PROVE SessionFits(c, k)
  <2>1. SessionFits(b, k)
    BY ConsistentBySession
  <2>2. /\ UsedBefore(c, k, Stages) = UsedBefore(b, k, Stages)
        /\ UsedBefore(c, k, {b.sessions[k].stage}) = UsedBefore(b, k, {b.sessions[k].stage})
        /\ UsedBefore(b, k, Stages) \in Int
        /\ UsedBefore(b, k, {b.sessions[k].stage}) \in Int
    <3>1. \A j \in DOMAIN b.sessions : j < k => c.sessions[j] = b.sessions[j]
      BY <1>1, <1>3
    <3> QED BY <3>1, <1>3, UsedBeforeSame
  <2>3. k > 1 => k - 1 \in DOMAIN b.sessions /\ c.sessions[k - 1] = b.sessions[k - 1]
    BY <1>1, <1>3
  <2>4. CASE k # n
    <3>1. c.sessions[k] = b.sessions[k]
      BY <2>4, <1>3
    <3> QED BY <2>1, <2>2, <2>3, <3>1, <1>3 DEF SessionFits, n
  <2>5. CASE k = n
    <3>1. c.sessions[k] = r /\ b.sessions[k] = s
      BY <2>5, <1>3, <1>1
    <3>2. ConsistentSession(s)
      BY <2>1, <3>1 DEF SessionFits
    <3>3. ConsistentSession(r)
      BY <1>2, <3>2 DEF ConsistentSession, CheckpointAt
    <3>4. Min({Promised(r), Used(r)}) \in Int /\ Min({Promised(r), Used(r)}) <= Promised(s)
      <4>1. Promised(r) \in Int /\ Used(r) \in Int
        BY <1>2, SessionNumbers
      <4> QED BY <4>1, <1>2, MinOfInts
    <3>5. /\ Promised(s) <= MaximumSeconds - UsedBefore(b, k, Stages)
          /\ Promised(s) <= b.allocations[s.stage] - UsedBefore(b, k, {s.stage})
      BY <2>1, <3>1, <1>0 DEF SessionFits, s
    <3>6. Promised(s) \in Int /\ MaximumSeconds \in Int /\ b.allocations[s.stage] \in Int
      <4>1. MaximumSeconds \in Int
        BY PilotAssumption
      <4>2. b.allocations[s.stage] \in Int
        BY <1>1 DEF Books, Session
      <4> QED BY <4>1, <4>2, <1>1, SessionNumbers
    <3>7. /\ Min({Promised(r), Used(r)}) <= MaximumSeconds - UsedBefore(c, k, Stages)
          /\ Min({Promised(r), Used(r)}) <= c.allocations[r.stage] - UsedBefore(c, k, {r.stage})
      BY <3>4, <3>5, <3>6, <2>2, <3>1, <1>2, <1>3
    <3>8. k > 1 => r.started >= IF Ended(c.sessions[k-1]) THEN c.sessions[k-1].stopped
                                ELSE c.sessions[k-1].started
      BY <2>1, <2>3, <3>1, <1>2 DEF SessionFits
    <3> QED BY <3>1, <3>3, <3>7, <3>8, <1>2, Zenon DEF SessionFits
  <2> QED BY <2>4, <2>5
<1>5. \A stage \in Stages : c.allocations[stage] >= 0
  BY <1>3, ConsistentBySession
<1>6. Consistent(c)
  BY <1>3, <1>4, <1>5, ConsistentBySession
<1> QED BY <1>6, <1>3 DEF c

-----------------------------------------------------------------------------
(* Sessions one after the other, and what stages are charged *)

\* A session that ended before another one started, in the order of the ledger.
LEMMA SessionsApart ==
    ASSUME NEW b \in Books, Consistent(b),
           NEW j \in DOMAIN b.sessions, NEW k \in DOMAIN b.sessions, j < k, Ended(b.sessions[j])
    PROVE  b.sessions[j].stopped <= b.sessions[k].started
<1> DEFINE F == {m \in DOMAIN b.sessions :
                    j < m /\ ~ (b.sessions[j].stopped <= b.sessions[m].started)}
<1>1. DOMAIN b.sessions = 1..Len(b.sessions) /\ Len(b.sessions) \in Nat
  BY ChargeNumbers
<1>2. SUFFICES ASSUME F # {} PROVE FALSE
  OBVIOUS
<1> DEFINE m == Min(F)
<1>3. m \in F /\ \A y \in F : m <= y
  <2>1. F \in SUBSET Nat
    BY <1>1
  <2> HIDE DEF F
  <2> QED BY <1>2, <2>1, SmallestNat
<1> HIDE DEF m
<1>4. /\ m \in 1..Len(b.sessions) /\ j \in 1..Len(b.sessions) /\ j < m
      /\ m - 1 \in DOMAIN b.sessions /\ m - 1 # Len(b.sessions) /\ m > 1
  BY <1>1, <1>3
<1>5. SessionFits(b, m) /\ SessionFits(b, m - 1)
  BY <1>3, <1>4, ConsistentBySession
<1>6. /\ b.sessions[m] \in Session /\ b.sessions[m - 1] \in Session /\ b.sessions[j] \in Session
  BY <1>3, <1>4 DEF Books
<1>7. Ended(b.sessions[m - 1])
  BY <1>4, <1>5 DEF SessionFits
<1>8. b.sessions[m].started >= b.sessions[m - 1].stopped
  BY <1>4, <1>5, <1>7 DEF SessionFits
<1>9. /\ b.sessions[m - 1].observed >= b.sessions[m - 1].started
      /\ b.sessions[m - 1].stopped >= b.sessions[m - 1].observed
  BY <1>5, <1>7 DEF SessionFits, ConsistentSession
<1>10. b.sessions[j].stopped \in Int /\ b.sessions[m - 1].stopped \in Int
  BY <1>6, <1>7, SessionNumbers
<1>11. /\ b.sessions[m].started \in Int /\ b.sessions[m - 1].started \in Int
       /\ b.sessions[m - 1].observed \in Int
  BY <1>6 DEF Session
<1>12. j = m - 1 \/ b.sessions[j].stopped <= b.sessions[m - 1].started
  <2>1. m - 1 \notin F
    BY <1>1, <1>3
  <2> QED BY <2>1, <1>4, <1>1
<1>13. ~ (b.sessions[j].stopped <= b.sessions[m].started)
  BY <1>3
<1> QED BY <1>8, <1>9, <1>10, <1>11, <1>12, <1>13

\* A term of a sum of numbers that are not negative.
LEMMA SumAtLeastTerm ==
    ASSUME NEW S, IsFiniteSet(S), NEW f, \A x \in S : f[x] \in Nat, NEW y \in S
    PROVE  f[y] <= SumFunctionOnSet(f, S) /\ 0 <= SumFunctionOnSet(f, S)
           /\ SumFunctionOnSet(f, S) \in Int
<1> DEFINE r == S \ {y}
           z == [x \in S |-> 0]
<1>1. SumFunctionOnSet(f, S) = f[y] + SumFunctionOnSet(f, r)
  BY SumRemove
<1>2. IsFiniteSet(r) /\ \A x \in r : f[x] \in Int /\ z[x] = 0 /\ 0 <= f[x]
  BY FS_RemoveElement
<1>3. SumFunctionOnSet(z, r) <= SumFunctionOnSet(f, r)
  <2> HIDE DEF r, z
  <2> QED BY <1>2, SumMonotone
<1>4. SumFunctionOnSet(z, r) = 0
  <2> DEFINE G == {s \in SUBSET r : SumFunctionOnSet(z, s) # 0}
  <2>1. SUFFICES ASSUME G # {} PROVE FALSE
    OBVIOUS
  <2>2. PICK T \in G : \A u \in G : u \subseteq T => u = T
    <3>1. G \in SUBSET SUBSET r
      OBVIOUS
    <3> HIDE DEF G, r
    <3> QED BY <2>1, <3>1, <1>2, SmallestSubset
  <2>3. T # {}
    BY <2>2, SumEmpty
  <2>4. PICK x \in T : TRUE
    BY <2>3
  <2>5. IsFiniteSet(T) /\ T \subseteq r /\ \A t \in T : z[t] \in Int
    BY <2>2, <1>2, FS_Subset
  <2>6. SumFunctionOnSet(z, T) = z[x] + SumFunctionOnSet(z, T \ {x})
    <3> HIDE DEF z
    <3> QED BY <2>5, SumRemove
  <2>7. T \ {x} \notin G
    BY <2>2
  <2>8. SumFunctionOnSet(z, T \ {x}) = 0
    BY <2>7, <2>5
  <2> QED BY <2>2, <2>5, <2>6, <2>8, <1>2
<1>5. SumFunctionOnSet(f, r) \in Int
  <2> HIDE DEF r
  <2> QED BY <1>2, SumType
<1> QED BY <1>1, <1>3, <1>4, <1>5

\* A finite set of numbers that is not empty has a largest one.
LEMMA LargestIndex ==
    ASSUME NEW n \in Nat, NEW S \in SUBSET (1..n), S # {}
    PROVE  \E m \in S : \A y \in S : y <= m
<1> DEFINE F == {d \in 0..n : n - d \in S}
<1>1. F # {} /\ F \in SUBSET Nat
  <2>1. PICK x \in S : TRUE
    OBVIOUS
  <2>2. x \in 1..n /\ n - x \in 0..n /\ n - (n - x) = x
    OBVIOUS
  <2>3. n - x \in F
    BY <2>1, <2>2
  <2>4. F \in SUBSET Nat
    OBVIOUS
  <2> HIDE DEF F
  <2> QED BY <2>3, <2>4
<1> DEFINE d == Min(F)
<1>2. d \in F /\ \A y \in F : d <= y
  <2> HIDE DEF F
  <2> QED BY <1>1, SmallestNat
<1> HIDE DEF d
<1>3. ASSUME NEW y \in S PROVE y <= n - d
  <2>1. y \in 1..n /\ n - y \in 0..n /\ n - (n - y) = y
    OBVIOUS
  <2>2. d <= n - y
    BY <2>1, <1>2
  <2> QED BY <2>1, <2>2, <1>2
<1> QED BY <1>2, <1>3

\* How far one session overran.
LEMMA OverrunNumbers ==
    ASSUME NEW b \in Books
    PROVE  /\ \A k \in DOMAIN b.sessions : Overruns(b)[k] \in Nat
           /\ \A k \in DOMAIN b.sessions :
                  Charges(b)[k] = Overruns(b)[k] +
                      (IF Ended(b.sessions[k])
                       THEN Min({Promised(b.sessions[k]), Used(b.sessions[k])})
                       ELSE Promised(b.sessions[k]))
<1>1. ASSUME NEW k \in DOMAIN b.sessions
      PROVE  /\ Overruns(b)[k] \in Nat
             /\ Charges(b)[k] = Overruns(b)[k] +
                      (IF Ended(b.sessions[k])
                       THEN Min({Promised(b.sessions[k]), Used(b.sessions[k])})
                       ELSE Promised(b.sessions[k]))
  <2> DEFINE s == b.sessions[k]
  <2>1. s \in Session
    BY DEF Books
  <2>2. Promised(s) \in Int /\ (Ended(s) => Used(s) \in Int)
    BY <2>1, SessionNumbers
  <2>3. Charges(b)[k] = IF Ended(s) THEN Used(s) ELSE Promised(s)
    BY DEF Charges
  <2>4. Overruns(b)[k] = IF Ended(s) THEN Later(0, Used(s) - Promised(s)) ELSE 0
    BY DEF Overruns
  <2> HIDE DEF s
  <2>5. CASE Ended(s)
    BY <2>2, <2>3, <2>4, <2>5, MinOfInts DEF Later, s
  <2>6. CASE ~ Ended(s)
    BY <2>2, <2>3, <2>4, <2>6 DEF s
  <2> QED BY <2>5, <2>6
<1> QED BY <1>1

\* A stage is charged no more than its allocation and what its last session overran.
LEMMA StageWithinAllocation ==
    ASSUME NEW b \in Books, Consistent(b), NEW stage \in Stages
    PROVE  ReservedFor(b, stage) <=
               b.allocations[stage] + SumFunctionOnSet(Overruns(b), DOMAIN b.sessions)
<1> DEFINE S == SessionsOf(b, {stage})
           over == SumFunctionOnSet(Overruns(b), DOMAIN b.sessions)
<1>1. /\ DOMAIN b.sessions = 1..Len(b.sessions) /\ Len(b.sessions) \in Nat
      /\ IsFiniteSet(DOMAIN b.sessions)
      /\ \A k \in DOMAIN b.sessions : Charges(b)[k] \in Int
  BY ChargeNumbers
<1>2. S \subseteq DOMAIN b.sessions /\ IsFiniteSet(S)
  <2>1. S \subseteq DOMAIN b.sessions
    BY DEF SessionsOf
  <2> QED BY <2>1, <1>1, FS_Subset
<1>3. b.allocations[stage] \in Int /\ b.allocations[stage] >= 0
  BY ConsistentBySession DEF Books
<1>4. ReservedFor(b, stage) = SumFunctionOnSet(Charges(b), S)
  BY DEF ReservedFor
<1>5. CASE S = {}
  <2>1. ReservedFor(b, stage) = 0
    BY <1>4, <1>5, SumEmpty
  <2>2. over \in Int /\ 0 <= over
    <3>1. CASE DOMAIN b.sessions = {}
      BY <3>1, SumEmpty
    <3>2. CASE DOMAIN b.sessions # {}
      <4>1. PICK y \in DOMAIN b.sessions : TRUE
        BY <3>2
      <4> HIDE DEF over
      <4> QED BY <4>1, <1>1, OverrunNumbers, SumAtLeastTerm DEF over
    <3> QED BY <3>1, <3>2
  <2> QED BY <2>1, <2>2, <1>3
<1>6. CASE S # {}
  <2>1. PICK k \in S : \A y \in S : y <= k
    <3>1. S \in SUBSET (1..Len(b.sessions))
      BY <1>1, <1>2
    <3> HIDE DEF S
    <3> QED BY <3>1, <1>6, <1>1, LargestIndex
  <2>2. k \in DOMAIN b.sessions /\ b.sessions[k].stage = stage
    BY <2>1 DEF SessionsOf
  <2>3. SumFunctionOnSet(Charges(b), S) = Charges(b)[k] + SumFunctionOnSet(Charges(b), S \ {k})
    <3> HIDE DEF S
    <3> QED BY <2>1, <1>1, <1>2, SumRemove
  <2>4. S \ {k} = {j \in 1..(k - 1) : Ended(b.sessions[j]) /\ b.sessions[j].stage \in {stage}}
    <3>1. ASSUME NEW j \in S, j # k PROVE j \in 1..(k - 1) /\ Ended(b.sessions[j])
      <4>1. j \in 1..Len(b.sessions) /\ k \in 1..Len(b.sessions) /\ j <= k
        BY <2>1, <1>1, <1>2
      <4>2. SessionFits(b, j) /\ j # Len(b.sessions)
        BY <4>1, <3>1, <1>1, ConsistentBySession
      <4> QED BY <4>1, <4>2, <3>1 DEF SessionFits
    <3>2. ASSUME NEW j \in 1..(k - 1), b.sessions[j].stage \in {stage} PROVE j \in S \ {k}
      BY <3>2, <2>2, <1>1 DEF SessionsOf
    <3>3. \A j \in S : b.sessions[j].stage \in {stage}
      BY DEF SessionsOf
    <3> HIDE DEF S
    <3> QED BY <3>1, <3>2, <3>3
  <2>5. SumFunctionOnSet(Charges(b), S \ {k}) = UsedBefore(b, k, {stage})
    BY <2>4, Zenon DEF UsedBefore
  <2>6. SessionFits(b, k)
    BY <2>2, ConsistentBySession
  <2> DEFINE s == b.sessions[k]
             charged == IF Ended(s) THEN Min({Promised(s), Used(s)}) ELSE Promised(s)
  <2>7. charged <= b.allocations[stage] - UsedBefore(b, k, {stage})
    BY <2>6, <2>2 DEF SessionFits
  <2>8. Charges(b)[k] = Overruns(b)[k] + charged
    BY <2>2, OverrunNumbers, Zenon
  <2>9. UsedBefore(b, k, {stage}) \in Int
    BY <2>2, UsedBeforeSame
  <2>10. Overruns(b)[k] \in Nat /\ Overruns(b)[k] <= over /\ over \in Int
    <3> HIDE DEF over
    <3> QED BY <2>2, <1>1, OverrunNumbers, SumAtLeastTerm DEF over
  <2>11. charged \in Int
    <3>1. s \in Session
      BY <2>2 DEF Books
    <3>2. Promised(s) \in Int /\ (Ended(s) => Used(s) \in Int)
      BY <3>1, SessionNumbers
    <3> HIDE DEF s
    <3> QED BY <3>2, MinOfInts
  <2> HIDE DEF charged, over, S
  <2> QED BY <1>3, <1>4, <2>3, <2>5, <2>7, <2>8, <2>9, <2>10, <2>11 DEF over
<1> QED BY <1>5, <1>6

-----------------------------------------------------------------------------
(* What each command does to the ledger *)

\* InsertAt of the community modules: what was there is still there, and the last element.
LEMMA Inserted ==
    ASSUME NEW s \in Seq(Session), NEW e \in Session, NEW p \in 1..(Len(s) + 1)
    PROVE  /\ InsertAt(s, p, e) \in Seq(Session) /\ InsertAt(s, p, e) # <<>>
           /\ \A k \in DOMAIN s : \E m \in DOMAIN InsertAt(s, p, e) : InsertAt(s, p, e)[m] = s[k]
           /\ Last(InsertAt(s, p, e)) = IF p = Len(s) + 1 THEN e ELSE Last(s)
<1> DEFINE a == SubSeq(s, 1, p - 1)
           c == SubSeq(s, p, Len(s))
           q1 == a \o <<e>>
           q == q1 \o c
<1>0. p \in Nat /\ Len(s) \in Nat /\ 1 <= p /\ p <= Len(s) + 1
  OBVIOUS
<1>1. a \in Seq(Session) /\ Len(a) = p - 1 /\ \A k \in 1..(p - 1) : a[k] = s[k]
  OBVIOUS
<1>2. c \in Seq(Session) /\ Len(c) = Len(s) - p + 1 /\ \A k \in 1..Len(c) : c[k] = s[p + k - 1]
  OBVIOUS
<1> HIDE DEF a, c
<1>b. /\ q1 \in Seq(Session) /\ Len(q1) = p /\ q1[p] = e
      /\ \A k \in 1..(p - 1) : q1[k] = a[k]
  BY <1>0, <1>1
<1> HIDE DEF q1
<1>3. /\ q \in Seq(Session) /\ Len(q) = Len(s) + 1
      /\ \A k \in 1..(p - 1) : q[k] = a[k]
      /\ q[p] = e
      /\ \A k \in 1..Len(c) : q[p + k] = c[k]
  BY <1>0, <1>b, <1>2
<1> HIDE DEF q
<1>4. ASSUME NEW k \in DOMAIN s PROVE \E m \in DOMAIN q : q[m] = s[k]
  <2>1. k \in 1..Len(s)
    OBVIOUS
  <2>2. CASE k < p
    BY <2>1, <2>2, <1>1, <1>3
  <2>3. CASE k >= p
    <3>1. k - p + 1 \in 1..Len(c) /\ p + (k - p + 1) = k + 1 /\ p + (k - p + 1) - 1 = k
      BY <2>1, <2>3, <1>0, <1>2
    <3> DEFINE n == k - p + 1
    <3> HIDE DEF n
    <3>a. q[p + n] = c[n]
      BY <3>1, <1>3 DEF n
    <3>b. c[n] = s[p + n - 1]
      BY <3>1, <1>2 DEF n
    <3>2. q[k + 1] = s[k]
      BY <3>1, <3>a, <3>b, Zenon DEF n
    <3> QED BY <3>2, <2>1, <1>3
  <2> QED BY <2>1, <2>2, <2>3
<1>5. q[Len(q)] = IF p = Len(s) + 1 THEN e ELSE s[Len(s)]
  <2>1. CASE p = Len(s) + 1
    BY <2>1, <1>3
  <2>2. CASE p # Len(s) + 1
    <3>1. Len(c) \in 1..Len(c) /\ p + Len(c) = Len(s) + 1 /\ p + Len(c) - 1 = Len(s)
      BY <2>2, <1>0, <1>2
    <3> DEFINE n == Len(c)
    <3> HIDE DEF n
    <3>a. q[p + n] = c[n]
      BY <3>1, <1>3 DEF n
    <3>b. c[n] = s[p + n - 1]
      BY <3>1, <1>2 DEF n
    <3>2. q[Len(s) + 1] = s[Len(s)]
      BY <3>1, <3>a, <3>b, Zenon DEF n
    <3> QED BY <3>2, <2>2, <1>3
  <2> QED BY <2>1, <2>2
<1>6. q = InsertAt(s, p, e)
  BY Zenon DEF InsertAt, q, q1, a, c
<1>7. q # <<>>
  BY <1>3
<1> QED BY <1>3, <1>4, <1>5, <1>6, <1>7 DEF Last

\* what a command leaves of the sessions, as far as the guard's session is concerned
Keeps(b, c) ==
    \A id \in SessionIds :
        Known(b, id) =>
            /\ Known(c, id)
            /\ ActiveSession(c, id) =>
                   /\ ActiveSession(b, id)
                   /\ PoweroffAt(Last(c.sessions)) = PoweroffAt(Last(b.sessions))

\* A new session is another one than the guard's (start_session).
LEMMA StartKeeps ==
    ASSUME PilotTypeOK,
           NEW id \in SessionIds, NEW stage \in Stages, NEW started \in Int, NEW allowance \in Int,
           StartSession(id, stage, started, allowance)
    PROVE  book' \in Books /\ Consistent(book') /\ Keeps(book, book')
<1> DEFINE s == [id |-> id, stage |-> stage, kind |-> "observed", started |-> started,
                 deadline |-> started + allowance, observed |-> wall, stopped |-> Running]
           q == Append(book.sessions, s)
<1>1. s \in Session /\ s.id = id
  BY DEF Session, PilotTypeOK
<1>2. book' = [book EXCEPT !.sessions = q] /\ Consistent(book') /\ ~ Known(book, id)
  BY DEF StartSession, SaveBook
<1> HIDE DEF s
<1>3. book \in Books /\ book.sessions \in Seq(Session)
  BY DEF PilotTypeOK, Books
<1>4. /\ q \in Seq(Session) /\ Len(q) = Len(book.sessions) + 1 /\ q # <<>>
      /\ \A k \in DOMAIN book.sessions : k \in DOMAIN q /\ q[k] = book.sessions[k]
      /\ q[Len(q)] = s
  BY <1>1, <1>3
<1> HIDE DEF q
<1>5. book' \in Books /\ book'.sessions = q
  BY <1>2, <1>3, <1>4 DEF Books
<1>6. Keeps(book, book')
  BY <1>1, <1>2, <1>4, <1>5 DEF Keeps, Known, ActiveSession, Last
<1> QED BY <1>2, <1>5, <1>6

\* The rewritten last session keeps its name and its deadline.
LEMMA RewriteKeeps ==
    ASSUME NEW b \in Books, b.sessions # <<>>, NEW s \in Session,
           s.id = Last(b.sessions).id, s.deadline = Last(b.sessions).deadline,
           Ended(s) \/ ~ Ended(Last(b.sessions))
    PROVE  LET c == [b EXCEPT !.sessions[Len(b.sessions)] = s]
           IN  c \in Books /\ Keeps(b, c)
<1> DEFINE c == [b EXCEPT !.sessions[Len(b.sessions)] = s]
<1>1. /\ c \in Books
      /\ Len(c.sessions) = Len(b.sessions) /\ DOMAIN c.sessions = DOMAIN b.sessions
      /\ Last(c.sessions) = s /\ c.sessions # <<>>
      /\ \A k \in DOMAIN b.sessions :
             c.sessions[k] = IF k = Len(b.sessions) THEN s ELSE b.sessions[k]
  BY Rewritten, Zenon
<1>2. Last(b.sessions) = b.sessions[Len(b.sessions)]
  BY LastSession
<1> HIDE DEF c
<1>3. ASSUME NEW id \in SessionIds, Known(b, id)
      PROVE  /\ Known(c, id)
             /\ ActiveSession(c, id) =>
                   /\ ActiveSession(b, id)
                   /\ PoweroffAt(Last(c.sessions)) = PoweroffAt(Last(b.sessions))
  <2>1. PICK k \in DOMAIN b.sessions : b.sessions[k].id = id
    BY <1>3 DEF Known
  <2>2. c.sessions[k].id = id
    BY <2>1, <1>1, <1>2
  <2>3. Known(c, id)
    BY <2>1, <2>2, <1>1 DEF Known
  <2>4. ActiveSession(c, id) => ActiveSession(b, id)
    BY <1>1 DEF ActiveSession, AnyOpen
  <2>5. PoweroffAt(Last(c.sessions)) = PoweroffAt(Last(b.sessions))
    BY <1>1 DEF PoweroffAt
  <2> QED BY <2>3, <2>4, <2>5
<1>4. Keeps(b, c)
  BY <1>3 DEF Keeps
<1> QED BY <1>1, <1>4 DEF c

\* After the stop is confirmed (confirm_stopped).
LEMMA ConfirmKeeps ==
    ASSUME PilotTypeOK, ConfirmStopped
    PROVE  book' \in Books /\ Consistent(book') /\ Keeps(book, book')
<1> DEFINE s == Last(book.sessions)
           r == [s EXCEPT !.stopped = IF wall < s.observed THEN Later(s.observed, s.deadline)
                                      ELSE wall]
<1>1. /\ book.sessions # <<>> /\ book' = Closed(book, wall) /\ Consistent(book')
      /\ book \in Books /\ wall \in Int
  BY DEF ConfirmStopped, SaveBook, AnyOpen, PilotTypeOK
<1>2. /\ Closed(book, wall) = [book EXCEPT !.sessions[Len(book.sessions)] = r]
      /\ r \in Session /\ Ended(r) /\ r.deadline = s.deadline
  BY <1>1, ClosedLast, Zenon
<1>3. r.id = s.id
  <2>1. s \in Session
    BY <1>1, LastSession
  <2> HIDE DEF s
  <2> QED BY <2>1 DEF Session
<1> HIDE DEF r
<1>4. [book EXCEPT !.sessions[Len(book.sessions)] = r] \in Books
      /\ Keeps(book, [book EXCEPT !.sessions[Len(book.sessions)] = r])
  BY <1>1, <1>2, <1>3, RewriteKeeps
<1> QED BY <1>1, <1>2, <1>4

\* After an observation by the guard or the work (observe_session).
LEMMA ObserveKeeps ==
    ASSUME PilotTypeOK, AnyOpen(book), Observe
    PROVE  /\ book' \in Books /\ Consistent(book') /\ Keeps(book, book')
           /\ book'.sessions # <<>>
           /\ Last(book'.sessions) \in Session
           /\ Last(book'.sessions).observed = wall
           /\ PoweroffAt(Last(book'.sessions)) = PoweroffAt(Last(book.sessions))
           /\ Last(book'.sessions).deadline = Last(book.sessions).deadline
<1> DEFINE s == Last(book.sessions)
           r == [s EXCEPT !.observed = wall]
           c == [book EXCEPT !.sessions[Len(book.sessions)] = r]
<1>1. /\ book.sessions # <<>> /\ ~ Ended(s) /\ book \in Books /\ wall \in Int
      /\ book' = [book EXCEPT !.sessions[Len(book.sessions)].observed = wall]
      /\ Consistent(book')
  BY DEF AnyOpen, Observe, SaveBook, PilotTypeOK
<1>2. s \in Session /\ s = book.sessions[Len(book.sessions)]
  BY <1>1, LastSession
<1>3. /\ r \in Session /\ r.id = s.id /\ r.deadline = s.deadline /\ r.stopped = s.stopped
      /\ r.observed = wall
  <2> HIDE DEF s
  <2> QED BY <1>1, <1>2 DEF Session
<1>4. book' = c
  <2>1. book.sessions \in Seq(Session) /\ Len(book.sessions) \in DOMAIN book.sessions
    BY <1>1, LastSession DEF Books
  <2> QED BY <1>1, <1>2, <2>1 DEF Books
<1> HIDE DEF r, s
<1>5. ~ Ended(r)
  BY <1>1, <1>3 DEF Ended
<1>6. c \in Books /\ Keeps(book, c)
  BY <1>1, <1>3, <1>5, RewriteKeeps DEF s
<1>7. Last(c.sessions) = r /\ c.sessions # <<>>
  BY <1>1, <1>3, Rewritten, Zenon
<1> HIDE DEF c
<1> QED BY <1>1, <1>3, <1>4, <1>6, <1>7 DEF PoweroffAt, s

\* After an attested session was entered (attest_closed_session).
LEMMA AttestKeeps ==
    ASSUME PilotTypeOK,
           NEW id \in SessionIds, NEW stage \in Stages, NEW started \in Int, NEW stopped \in Int,
           AttestClosedSession(id, stage, started, stopped)
    PROVE  book' \in Books /\ Consistent(book') /\ Keeps(book, book')
<1> DEFINE s == [id |-> id, stage |-> stage, kind |-> "attested", started |-> started,
                 deadline |-> stopped, observed |-> stopped, stopped |-> stopped]
           earlier == {k \in DOMAIN book.sessions : book.sessions[k].started < started}
           p == Cardinality(earlier) + 1
           q == InsertAt(book.sessions, p, s)
<1>1. s \in Session /\ Ended(s)
  BY PilotAssumption DEF Session, Ended
<1>2. /\ book' = [book EXCEPT !.sessions = q] /\ Consistent(book')
      /\ ~ AnyOpen(book) /\ ~ Known(book, id)
  BY DEF AttestClosedSession, SaveBook
<1>3. /\ book \in Books /\ book.sessions \in Seq(Session)
      /\ DOMAIN book.sessions = 1..Len(book.sessions) /\ Len(book.sessions) \in Nat
  BY ChargeNumbers DEF PilotTypeOK, Books
<1>4. p \in 1..(Len(book.sessions) + 1)
  <2>1. /\ IsFiniteSet(1..Len(book.sessions))
        /\ Cardinality(1..Len(book.sessions)) = Len(book.sessions)
    BY <1>3, FS_Interval
  <2>2. earlier \subseteq 1..Len(book.sessions)
    BY <1>3
  <2> HIDE DEF earlier
  <2>3. IsFiniteSet(earlier) /\ Cardinality(earlier) <= Len(book.sessions)
    BY <2>1, <2>2, FS_Subset
  <2>4. Cardinality(earlier) \in Nat
    BY <2>3, FS_CardinalityType
  <2> QED BY <2>3, <2>4, <1>3
<1> HIDE DEF s, p
<1>5. /\ q \in Seq(Session) /\ q # <<>>
      /\ \A k \in DOMAIN book.sessions : \E m \in DOMAIN q : q[m] = book.sessions[k]
      /\ Last(q) = IF p = Len(book.sessions) + 1 THEN s ELSE Last(book.sessions)
  BY <1>1, <1>3, <1>4, Inserted, Zenon
<1> HIDE DEF q
<1>6. book' \in Books /\ book'.sessions = q
  BY <1>2, <1>3, <1>5 DEF Books
<1>7. ~ AnyOpen(book')
  <2>1. p # Len(book.sessions) + 1 => book.sessions # <<>>
    BY <1>3, <1>4
  <2> QED BY <2>1, <1>1, <1>2, <1>5, <1>6 DEF AnyOpen
<1>8. Keeps(book, book')
  BY <1>5, <1>6, <1>7 DEF Keeps, Known, ActiveSession
<1> QED BY <1>2, <1>6, <1>8

\* A transfer touches no session (transfer_allocation).
LEMMA TransferKeeps ==
    ASSUME PilotTypeOK, NEW from \in Stages, NEW to \in Stages, NEW seconds \in Int,
           TransferAllocation(from, to, seconds)
    PROVE  book' \in Books /\ Consistent(book') /\ Keeps(book, book')
<1> DEFINE a == [book.allocations EXCEPT ![from] = @ - seconds, ![to] = @ + seconds]
<1>1. /\ book' = [book EXCEPT !.allocations = a, !.transfers = @ + 1]
      /\ Consistent(book') /\ book \in Books
  BY DEF TransferAllocation, SaveBook, PilotTypeOK
<1>2. a \in [Stages -> Int]
  BY <1>1 DEF Books
<1>3. book' = [sessions |-> book.sessions, allocations |-> a, transfers |-> book.transfers + 1]
  <2> HIDE DEF a
  <2> QED BY <1>1 DEF Books
<1> HIDE DEF a
<1>4. book' \in Books /\ book'.sessions = book.sessions
  BY <1>1, <1>2, <1>3 DEF Books
<1>5. Keeps(book, book')
  BY <1>4 DEF Keeps, Known, ActiveSession, AnyOpen
<1> QED BY <1>1, <1>4, <1>5

-----------------------------------------------------------------------------
(* The invariant holds *)

\* Names and numbers of the guard.
LEMMA GuardNumbers ==
    ASSUME PilotTypeOK
    PROVE  /\ guard.checkpoint \in Int /\ guard.stop \in Int /\ guard.promise \in Int
           /\ guard.id \in SessionIds \cup {Running}
           /\ {guard.requested, guard.due, guard.read} \subseteq BOOLEAN
BY DEF PilotTypeOK, Guards

\* No guard, and a guard that gave up.
LEMMA GuardEnds ==
    /\ NoGuard \in Guards /\ NoGuard.pc = "none"
    /\ LET g == [NoGuard EXCEPT !.pc = "poweroff", !.requested = TRUE]
       IN  g \in Guards /\ g.pc = "poweroff" /\ g.requested
<1>1. NoGuard \in Guards /\ NoGuard.pc = "none"
  BY DEF NoGuard, Guards
<1> DEFINE g == [NoGuard EXCEPT !.pc = "poweroff", !.requested = TRUE]
<1>2. g \in Guards
  BY <1>1 DEF Guards
<1>3. g.pc = "poweroff" /\ g.requested
  BY DEF NoGuard
<1> QED BY <1>1, <1>2, <1>3

\* A command that leaves clock and guard alone leaves the guard fitting.
LEMMA CommandStep ==
    ASSUME PilotTypeOK, GuardFits, book' \in Books, Keeps(book, book'),
           wall' = wall, guard' = guard
    PROVE  GuardFits'
<1>1. CASE guard.pc = "watch"
  <2>1. Known(book, guard.id)
    BY <1>1 DEF GuardFits
  <2>2. guard.id \in SessionIds
    <3>1. PICK k \in DOMAIN book.sessions : book.sessions[k].id = guard.id
      BY <2>1 DEF Known
    <3>2. book.sessions[k] \in Session
      BY <3>1 DEF PilotTypeOK, Books
    <3> QED BY <3>1, <3>2 DEF Session
  <2>3. /\ Known(book', guard.id)
        /\ ActiveSession(book', guard.id) =>
               /\ ActiveSession(book, guard.id)
               /\ PoweroffAt(Last(book'.sessions)) = PoweroffAt(Last(book.sessions))
    BY <2>1, <2>2 DEF Keeps
  <2> QED BY <1>1, <2>3 DEF GuardFits
<1>2. CASE guard.pc # "watch"
  BY <1>2 DEF GuardFits
<1> QED BY <1>1, <1>2

\* The deadlines that a guard takes from the session.
LEMMA DeadlinesInOrder ==
    ASSUME NEW s \in Session, wall \in Int, wall >= s.observed
    PROVE  LET d == FromSession(s)
           IN  /\ d.checkpoint \in Int /\ d.stop \in Int
               /\ 0 <= d.checkpoint /\ d.checkpoint <= d.stop
               /\ d.stop = 0 \/ d.stop = PoweroffAt(s) - wall
<1>1. s.observed \in Int /\ s.deadline \in Int
  BY DEF Session
<1>2. CheckpointReserve \in Int /\ ShutdownReserve \in Int /\ ShutdownReserve < CheckpointReserve
  BY PilotAssumption
<1>3. Later(wall, s.observed) = wall
  BY <1>1 DEF Later
<1>4. /\ FromSession(s).checkpoint = Later(0, CheckpointAt(s) - wall)
      /\ FromSession(s).stop = Later(0, PoweroffAt(s) - wall)
  BY <1>3 DEF FromSession
<1>5. CheckpointAt(s) \in Int /\ PoweroffAt(s) \in Int /\ CheckpointAt(s) < PoweroffAt(s)
  BY <1>1, <1>2 DEF CheckpointAt, PoweroffAt
<1> HIDE DEF FromSession
<1> QED BY <1>4, <1>5 DEF Later

\* The guard begins to watch, or gives up (run_guard).
LEMMA StartGuardStep ==
    ASSUME PilotInv, NEW id \in SessionIds, StartGuard(id)
    PROVE  guard' \in Guards /\ GuardFits'
<1>1. book \in Books /\ wall \in Int /\ book' = book /\ wall' = wall
  BY DEF PilotInv, PilotTypeOK, StartGuard
<1>2. CASE Observable(id)
  <2> DEFINE s == Last(book.sessions)
             d == FromSession(s)
  <2>1. guard' = [NoGuard EXCEPT !.pc = "watch", !.id = id, !.due = TRUE,
                     !.checkpoint = d.checkpoint, !.stop = d.stop, !.promise = d.stop]
    BY <1>2 DEF StartGuard
  <2>2. book.sessions # <<>> /\ s.id = id /\ wall >= s.observed
    BY <1>2 DEF Observable, ActiveSession, AnyOpen
  <2>3. s \in Session /\ Known(book, id)
    BY <1>1, <2>2, LastSession DEF Known
  <2>4. /\ d.checkpoint \in Int /\ d.stop \in Int
        /\ 0 <= d.checkpoint /\ d.checkpoint <= d.stop
    BY <1>1, <2>2, <2>3, DeadlinesInOrder
  <2> HIDE DEF d, s
  <2>5. /\ guard' \in Guards
        /\ guard'.pc = "watch" /\ guard'.id = id /\ guard'.due = TRUE /\ guard'.read = FALSE
        /\ guard'.checkpoint = d.checkpoint /\ guard'.stop = d.stop /\ guard'.promise = d.stop
    BY <2>1, <2>4 DEF NoGuard, Guards
  <2> QED BY <1>1, <2>3, <2>4, <2>5 DEF GuardFits
<1>3. CASE ~ Observable(id)
  <2>1. guard' = [NoGuard EXCEPT !.pc = "poweroff", !.requested = TRUE]
    BY <1>3 DEF StartGuard, StopEarly
  <2> QED BY <2>1, GuardEnds DEF GuardFits
<1> QED BY <1>2, <1>3

\* One round of the guard (run_guard).
LEMMA RoundStep ==
    ASSUME PilotInv, GuardRound
    PROVE  guard' \in Guards /\ GuardFits' /\ book' \in Books /\ Consistent(book')
<1> DEFINE requested == guard.requested \/ guard.checkpoint = 0
<1>0. /\ PilotTypeOK /\ book \in Books /\ guard \in Guards /\ wall \in Int /\ wall' = wall
      /\ guard.pc = "watch" /\ guard.stop > 0 /\ Consistent(book)
      /\ Known(book, guard.id)
      /\ 0 <= guard.checkpoint /\ guard.checkpoint <= guard.stop
      /\ guard.stop <= guard.promise
  BY DEF PilotInv, PilotTypeOK, GuardRound, GuardFits
<1>1. CASE /\ guard' = [guard EXCEPT !.requested = requested, !.due = FALSE, !.read = FALSE]
           /\ UNCHANGED book
  <2>1. requested \in BOOLEAN
    BY <1>0 DEF Guards
  <2> HIDE DEF requested
  <2>2. /\ guard' \in Guards /\ guard'.pc = "watch" /\ guard'.id = guard.id
        /\ guard'.read = FALSE /\ guard'.checkpoint = guard.checkpoint
        /\ guard'.stop = guard.stop /\ guard'.promise = guard.promise
    BY <1>0, <1>1, <2>1 DEF Guards
  <2> QED BY <1>0, <1>1, <2>2 DEF GuardFits
<1>2. CASE /\ Observable(guard.id)
           /\ Observe
           /\ LET d == Shorten(guard, FromSession(Last(book'.sessions)))
              IN  guard' = [guard EXCEPT !.requested = requested, !.read = TRUE,
                               !.checkpoint = d.checkpoint, !.stop = d.stop,
                               !.due = (IF requested THEN d.stop ELSE d.checkpoint) = 0]
  <2> DEFINE s == Last(book'.sessions)
             f == FromSession(s)
             d == Shorten(guard, f)
             due == (IF requested THEN d.stop ELSE d.checkpoint) = 0
  <2>1. AnyOpen(book) /\ Observe
    BY <1>2 DEF Observable, ActiveSession
  <2>2. /\ book' \in Books /\ Consistent(book') /\ Keeps(book, book')
        /\ book'.sessions # <<>>
        /\ s \in Session /\ s.observed = wall
    BY <1>0, <2>1, ObserveKeeps
  <2>3. /\ f.checkpoint \in Int /\ f.stop \in Int
        /\ 0 <= f.checkpoint /\ f.checkpoint <= f.stop
        /\ f.stop = 0 \/ f.stop = PoweroffAt(s) - wall
    <3>1. wall >= s.observed
      BY <1>0, <2>2
    <3> HIDE DEF s
    <3> QED BY <1>0, <2>2, <3>1, DeadlinesInOrder
  <2>4. guard.checkpoint \in Int /\ guard.stop \in Int /\ guard.promise \in Int
    BY <1>0 DEF Guards
  <2> HIDE DEF f
  <2>5. /\ d.checkpoint = IF guard.checkpoint <= f.checkpoint THEN guard.checkpoint
                          ELSE f.checkpoint
        /\ d.stop = IF guard.stop <= f.stop THEN guard.stop ELSE f.stop
    <3>1. /\ Min({guard.checkpoint, f.checkpoint}) =
                 IF guard.checkpoint <= f.checkpoint THEN guard.checkpoint ELSE f.checkpoint
          /\ Min({guard.stop, f.stop}) = IF guard.stop <= f.stop THEN guard.stop ELSE f.stop
      BY <2>3, <2>4, MinOfInts
    <3> QED BY <3>1 DEF Shorten
  <2> HIDE DEF d
  <2>6. /\ d.checkpoint \in Int /\ d.stop \in Int
        /\ 0 <= d.checkpoint /\ d.checkpoint <= d.stop /\ d.stop <= guard.promise
        /\ d.stop = 0 \/ d.stop <= PoweroffAt(s) - wall
    <3>1. PoweroffAt(s) \in Int
      BY <2>2, PilotAssumption DEF PoweroffAt, Session
    <3> HIDE DEF s
    <3> QED BY <1>0, <2>3, <2>4, <2>5, <3>1
  <2>7. requested \in BOOLEAN /\ due \in BOOLEAN /\ (~ due => 0 < d.stop)
    BY <1>0, <2>6 DEF Guards
  <2>8. guard' = [guard EXCEPT !.requested = requested, !.read = TRUE,
                     !.checkpoint = d.checkpoint, !.stop = d.stop, !.due = due]
    BY <1>2, Zenon DEF d, f
  <2> HIDE DEF due, requested
  <2>9. /\ guard' \in Guards /\ guard'.pc = "watch" /\ guard'.id = guard.id
        /\ guard'.due = due /\ guard'.checkpoint = d.checkpoint
        /\ guard'.stop = d.stop /\ guard'.promise = guard.promise
    BY <1>0, <2>6, <2>7, <2>8 DEF Guards
  <2>10. Known(book', guard.id)
    <3>1. guard.id \in SessionIds
      <4>1. Last(book.sessions) \in Session /\ guard.id = Last(book.sessions).id
        BY <1>2, <1>0, LastSession DEF Observable, ActiveSession, AnyOpen
      <4> QED BY <4>1 DEF Session
    <3> QED BY <1>0, <2>2, <3>1 DEF Keeps
  <2>11. GuardFits'
    BY <1>0, <2>6, <2>7, <2>9, <2>10 DEF GuardFits, s
  <2> QED BY <2>2, <2>9, <2>11
<1>3. CASE ~ Observable(guard.id) /\ StopEarly /\ UNCHANGED book
  <2>1. guard' = [NoGuard EXCEPT !.pc = "poweroff", !.requested = TRUE]
    BY <1>3 DEF StopEarly
  <2>2. guard' \in Guards /\ guard'.pc = "poweroff" /\ guard'.requested
    BY <2>1, GuardEnds
  <2> QED BY <1>0, <1>3, <2>2 DEF GuardFits
<1> QED BY <1>1, <1>2, <1>3, Zenon DEF GuardRound

\* Time passes; the guard sleeps no longer than a unit (run_guard).
LEMMA TickStep ==
    ASSUME PilotInv, Tick
    PROVE  guard' \in Guards /\ GuardFits' /\ wall' \in Int
<1>0. /\ book \in Books /\ guard \in Guards /\ wall \in Int /\ wall' = wall + 1 /\ book' = book
      /\ ~ guard.due
  BY DEF PilotInv, PilotTypeOK, Tick
<1>1. CASE guard.pc = "watch"
  <2> DEFINE checkpoint == Later(0, guard.checkpoint - 1)
             stop == Later(0, guard.stop - 1)
             promise == guard.promise - 1
  <2>1. guard' = [guard EXCEPT !.due = TRUE, !.checkpoint = checkpoint, !.stop = stop,
                                   !.promise = promise]
    BY <1>1 DEF Tick
  <2>2. /\ guard.checkpoint \in Int /\ guard.stop \in Int /\ guard.promise \in Int
        /\ checkpoint \in Int /\ stop \in Int /\ promise \in Int
    BY <1>0 DEF Guards, Later
  <2>3. /\ guard' \in Guards /\ guard'.pc = "watch" /\ guard'.id = guard.id /\ guard'.due = TRUE
        /\ guard'.checkpoint = checkpoint /\ guard'.stop = stop
        /\ guard'.promise = promise /\ guard'.read = guard.read
    <3> HIDE DEF checkpoint, stop, promise
    <3> QED BY <1>0, <1>1, <2>1, <2>2 DEF Guards
  <2>4. /\ Known(book, guard.id)
        /\ 0 <= guard.checkpoint /\ guard.checkpoint <= guard.stop
        /\ guard.stop <= guard.promise /\ 0 < guard.stop
        /\ guard.read /\ ActiveSession(book, guard.id) =>
              guard.stop <= PoweroffAt(Last(book.sessions)) - wall
    BY <1>0, <1>1, <2>2 DEF PilotInv, GuardFits
  <2>5. ActiveSession(book, guard.id) => PoweroffAt(Last(book.sessions)) \in Int
    <3>1. ActiveSession(book, guard.id) => Last(book.sessions) \in Session
      BY <1>0, LastSession DEF ActiveSession, AnyOpen
    <3>2. ShutdownReserve \in Int
      BY PilotAssumption
    <3> QED BY <3>1, <3>2 DEF PoweroffAt, Session
  <2>6. /\ 0 <= guard'.checkpoint /\ guard'.checkpoint <= guard'.stop
        /\ guard'.stop <= guard'.promise
        /\ guard'.read /\ ActiveSession(book', guard'.id) =>
              guard'.stop = 0 \/ guard'.stop <= PoweroffAt(Last(book'.sessions)) - wall'
    BY <1>0, <2>2, <2>3, <2>4, <2>5 DEF Later
  <2>7. GuardFits'
    BY <1>0, <2>3, <2>4, <2>6 DEF GuardFits
  <2> QED BY <1>0, <2>3, <2>7
<1>2. CASE guard.pc # "watch"
  <2>1. guard' = guard
    BY <1>2 DEF Tick
  <2>2. GuardFits'
    BY <1>2, <2>1 DEF PilotInv, GuardFits
  <2> QED BY <1>0, <2>1, <2>2
<1> QED BY <1>1, <1>2

\* The wall clock is set.
LEMMA ClockStep ==
    ASSUME PilotInv, NEW t \in Int, SetClock(t)
    PROVE  guard' \in Guards /\ GuardFits'
<1>1. /\ guard' = [guard EXCEPT !.read = FALSE] /\ book' = book /\ guard \in Guards
  BY DEF SetClock, PilotInv, PilotTypeOK
<1>2. /\ guard' \in Guards /\ guard'.pc = guard.pc /\ guard'.id = guard.id
      /\ guard'.read = FALSE /\ guard'.due = guard.due /\ guard'.checkpoint = guard.checkpoint
      /\ guard'.stop = guard.stop /\ guard'.promise = guard.promise
      /\ guard'.requested = guard.requested
  BY <1>1 DEF Guards
<1> QED BY <1>1, <1>2 DEF PilotInv, GuardFits

\* The invariant holds at first.
LEMMA PilotStarts == PilotInit => PilotInv
<1> SUFFICES ASSUME PilotInit PROVE PilotInv
  OBVIOUS
<1>1. /\ book = [sessions |-> <<>>, allocations |-> StageSeconds, transfers |-> 0]
      /\ wall \in Int /\ guard = NoGuard /\ operation \in BOOLEAN /\ jumps \in Nat
  <2>1. FirstTime \in Int
    BY PilotAssumption
  <2> QED BY <2>1 DEF PilotInit
<1>2. StageSeconds \in [Stages -> Nat]
  BY PilotAssumption
<1>3. book \in Books
  BY <1>1, <1>2 DEF Books
<1>4. Consistent(book)
  BY <1>1, <1>2 DEF Consistent
<1>5. PilotTypeOK
  BY <1>1, <1>3, GuardEnds DEF PilotTypeOK
<1>6. GuardFits
  BY <1>1, GuardEnds DEF GuardFits
<1> QED BY <1>4, <1>5, <1>6 DEF PilotInv

\* Every step keeps it.
LEMMA PilotSteps == PilotInv /\ [PilotNext]_pilotVars => PilotInv'
<1> SUFFICES ASSUME PilotInv, [PilotNext]_pilotVars PROVE PilotInv'
  OBVIOUS
<1>0. /\ PilotTypeOK /\ GuardFits /\ Consistent(book) /\ book \in Books /\ wall \in Int
      /\ guard \in Guards /\ operation \in BOOLEAN /\ jumps \in Nat
  BY DEF PilotInv, PilotTypeOK
<1>a. ASSUME book' \in Books, Consistent(book'), Keeps(book, book'),
             wall' = wall, guard' = guard, operation' \in BOOLEAN, jumps' \in Nat
      PROVE  PilotInv'
  <2>1. GuardFits'
    BY <1>0, <1>a, CommandStep
  <2>2. PilotTypeOK'
    BY <1>0, <1>a DEF PilotTypeOK
  <2> QED BY <2>1, <2>2, <1>a DEF PilotInv
<1>b. ASSUME book' \in Books, Consistent(book'), wall' \in Int, guard' \in Guards, GuardFits',
             operation' \in BOOLEAN, jumps' \in Nat
      PROVE  PilotInv'
  BY <1>b DEF PilotInv, PilotTypeOK
<1>1. ASSUME NEW id \in SessionIds, NEW stage \in Stages, NEW started \in FirstTime..wall,
             NEW allowance \in 1..MaximumSeconds, StartSession(id, stage, started, allowance)
      PROVE  PilotInv'
  <2>1. started \in Int /\ allowance \in Int
    BY <1>0, PilotAssumption
  <2>2. book' \in Books /\ Consistent(book') /\ Keeps(book, book')
    BY <1>0, <1>1, <2>1, StartKeeps
  <2> QED BY <1>0, <1>1, <1>a, <2>2 DEF StartSession
<1>2. ASSUME NEW id \in SessionIds, NEW stage \in Stages, NEW started \in FirstTime..wall,
             NEW stopped \in FirstTime..wall, AttestClosedSession(id, stage, started, stopped)
      PROVE  PilotInv'
  <2>1. started \in Int /\ stopped \in Int
    BY <1>0, PilotAssumption
  <2>2. book' \in Books /\ Consistent(book') /\ Keeps(book, book')
    BY <1>0, <1>2, <2>1, AttestKeeps
  <2> QED BY <1>0, <1>2, <1>a, <2>2 DEF AttestClosedSession
<1>3. ASSUME NEW from \in Stages, NEW to \in Stages, NEW seconds \in 1..MaximumTransfer,
             TransferAllocation(from, to, seconds)
      PROVE  PilotInv'
  <2>1. seconds \in Int
    BY PilotAssumption
  <2>2. book' \in Books /\ Consistent(book') /\ Keeps(book, book')
    BY <1>0, <1>3, <2>1, TransferKeeps
  <2> QED BY <1>0, <1>3, <1>a, <2>2 DEF TransferAllocation
<1>4. ASSUME ConfirmStopped PROVE PilotInv'
  <2>1. book' \in Books /\ Consistent(book') /\ Keeps(book, book')
    BY <1>0, <1>4, ConfirmKeeps
  <2> QED BY <1>0, <1>4, <1>a, <2>1 DEF ConfirmStopped
<1>5. ASSUME NEW id \in SessionIds, BeginOperation(id) PROVE PilotInv'
  <2>1. AnyOpen(book) /\ Observe
    BY <1>5 DEF BeginOperation, Observable, ActiveSession
  <2>2. book' \in Books /\ Consistent(book') /\ Keeps(book, book')
    BY <1>0, <2>1, ObserveKeeps
  <2> QED BY <1>0, <1>5, <1>a, <2>2 DEF BeginOperation
<1>6. ASSUME NEW id \in SessionIds, StartGuard(id) PROVE PilotInv'
  <2>1. guard' \in Guards /\ GuardFits'
    BY <1>6, StartGuardStep
  <2> QED BY <1>0, <1>6, <1>b, <2>1 DEF StartGuard
<1>7. ASSUME EndOperation PROVE PilotInv'
  BY <1>0, <1>7 DEF EndOperation, PilotInv, PilotTypeOK, GuardFits
<1>8. ASSUME GuardDeadline PROVE PilotInv'
  <2>1. guard' = [NoGuard EXCEPT !.pc = "poweroff", !.requested = TRUE]
    BY <1>8 DEF GuardDeadline, StopEarly
  <2>2. guard' \in Guards /\ GuardFits'
    BY <2>1, GuardEnds DEF GuardFits
  <2> QED BY <1>0, <1>8, <1>b, <2>2 DEF GuardDeadline
<1>9. ASSUME GuardRound PROVE PilotInv'
  <2>1. guard' \in Guards /\ GuardFits' /\ book' \in Books /\ Consistent(book')
    BY <1>9, RoundStep
  <2> QED BY <1>0, <1>9, <1>b, <2>1 DEF GuardRound
<1>10. ASSUME GuardGone PROVE PilotInv'
  <2>1. guard' \in Guards /\ GuardFits'
    BY <1>10, GuardEnds DEF GuardGone, GuardFits
  <2> QED BY <1>0, <1>10, <1>b, <2>1 DEF GuardGone
<1>11. ASSUME Tick PROVE PilotInv'
  <2>1. guard' \in Guards /\ GuardFits' /\ wall' \in Int
    BY <1>11, TickStep
  <2> QED BY <1>0, <1>11, <1>b, <2>1 DEF Tick
<1>12. ASSUME NEW t \in FirstTime..LastTime, SetClock(t) PROVE PilotInv'
  <2>1. t \in Int
    BY PilotAssumption
  <2>2. guard' \in Guards /\ GuardFits'
    BY <1>12, <2>1, ClockStep
  <2> QED BY <1>0, <1>12, <1>b, <2>1, <2>2 DEF SetClock
<1>13. ASSUME UNCHANGED pilotVars PROVE PilotInv'
  BY <1>0, <1>13 DEF pilotVars, PilotInv, PilotTypeOK, GuardFits
<1> QED
  BY <1>1, <1>2, <1>3, <1>4, <1>5, <1>6, <1>7, <1>8, <1>9, <1>10, <1>11, <1>12, <1>13
     DEF PilotNext

\* The ledger is always one that its validators accept, and the guard's deadlines fit it,
\* for any stages, reserves, clocks and commands (save_ledger, run_guard).
THEOREM PilotInvariant == PilotSpec => []PilotInv
BY PilotStarts, PilotSteps, PTL DEF PilotSpec

\* The stop of the open session can always be entered, whatever the clock shows
\* (confirm_stopped): the validators never refuse it.
THEOREM StopsAreConfirmable == PilotSpec => []StopAlwaysConfirmable
<1>1. PilotInv => StopAlwaysConfirmable
  <2> SUFFICES ASSUME PilotInv, AnyOpen(book) PROVE Consistent(Closed(book, wall))
    BY DEF StopAlwaysConfirmable
  <2>1. book \in Books /\ Consistent(book) /\ wall \in Int
    BY DEF PilotInv, PilotTypeOK
  <2> QED BY <2>1, StopAccepted
<1> QED BY <1>1, PilotInvariant, PTL

\* Sessions never overlap and a stage is charged no more than its allocation and what
\* its sessions overran, after any transfers and attested runs (consistent_sessions).
THEOREM SpendingIsWithin == PilotSpec => []SpendingWithinAllocations
<1>1. PilotInv => SpendingWithinAllocations
  <2> SUFFICES ASSUME PilotInv PROVE SpendingWithinAllocations
    OBVIOUS
  <2>1. book \in Books /\ Consistent(book)
    BY DEF PilotInv, PilotTypeOK
  <2> QED BY <2>1, SessionsApart, StageWithinAllocation DEF SpendingWithinAllocations
<1> QED BY <1>1, PilotInvariant, PTL

\* The guard powers the host off within the time it started with and before the deadline
\* that it last read, and only after a save request (run_guard).
THEOREM GuardIsInTime == PilotSpec => []GuardStopsInTime
<1>1. PilotInv => GuardStopsInTime
  <2> SUFFICES ASSUME PilotInv PROVE GuardStopsInTime
    OBVIOUS
  <2>1. PilotTypeOK /\ GuardFits /\ book \in Books /\ wall \in Int
    BY DEF PilotInv, PilotTypeOK
  <2>2. guard.stop \in Int /\ guard.promise \in Int
    BY <2>1, GuardNumbers
  <2>3. ActiveSession(book, guard.id) => PoweroffAt(Last(book.sessions)) \in Int
    <3>1. ActiveSession(book, guard.id) => Last(book.sessions) \in Session
      BY <2>1, LastSession DEF ActiveSession, AnyOpen
    <3>2. ShutdownReserve \in Int
      BY PilotAssumption
    <3> QED BY <3>1, <3>2 DEF PoweroffAt, Session
  <2> QED BY <2>1, <2>2, <2>3 DEF GuardFits, GuardStopsInTime
<1> QED BY <1>1, PilotInvariant, PTL

-----------------------------------------------------------------------------
(* The models and the images of the inference jobs *)

JobStates == {"absent", "queued", "running", "completed", "failed", "cancelled", "interrupted"}
Requests == [status : JobStates, op : {"encode", "decode"}, image : ImageRefs \cup {Missing},
             model : ModelNames \cup {Missing}, pair : Pairs \cup {Missing},
             overtaken : BOOLEAN, result : ImageRefs \cup {Missing}]
Writers == [pc : {"none", "write", "record"}, image : ImageRefs \cup {Missing},
            by : {"upload", "runner"}, size : ImageSizes \cup {0},
            purpose : {"cover", "encoded"}]

(* What the actions on models and jobs read has its type.                  *)
AssetTypes ==
    /\ pairs \in [ModelNames -> Pairs \cup {Missing}]
    /\ installed \in [ModelNames -> Pairs \cup {Missing}]
    /\ removal \in ModelNames \cup {Missing}
    /\ inference \in [InferenceJobs -> Requests] /\ admission \in Requests
    /\ writer \in Writers
    /\ "image" \in DOMAIN running /\ running.image \in ImageRefs \cup {Missing}

(* A request that is being accepted, or was, names a model and a pair; if  *)
(* remove_model did not overlap its submission, it is not about to delete  *)
(* that model, and the model is installed as the request found it.         *)
ModelKept(request) ==
    /\ request.model \in ModelNames /\ request.pair # Missing
    /\ ~request.overtaken => /\ request.model # removal
                             /\ installed[request.model] = request.pair
RequestsFit ==
    /\ ~LockFree => ModelKept(admission)
    /\ \A j \in InferenceJobs : Active(j) => ModelKept(inference[j])

(* The strengthening of LostOnlyToOverlap that every step preserves.       *)
ModelInv == AssetTypes /\ RequestsFit

-----------------------------------------------------------------------------
(* It holds at the start.                                                  *)
LEMMA ModelStart == AssetInit => ModelInv
BY DEF AssetInit, ModelInv, AssetTypes, RequestsFit, LockFree, Active, NoInference,
       NoWriter, NoRunner, Requests, Writers, JobStates

(* A job that changes its status, or ends with a result, keeps its type.   *)
LEMMA StatusType ==
    ASSUME inference \in [InferenceJobs -> Requests], NEW j, NEW status \in JobStates
    PROVE  [inference EXCEPT ![j].status = status] \in [InferenceJobs -> Requests]
BY DEF Requests

LEMMA ResultType ==
    ASSUME inference \in [InferenceJobs -> Requests], NEW j, NEW image \in ImageRefs \cup {Missing}
    PROVE  [inference EXCEPT ![j].status = "completed", ![j].result = image]
               \in [InferenceJobs -> Requests]
<1>1. [inference EXCEPT ![j].status = "completed", ![j].result = image]
          = [inference EXCEPT ![j] = [[@ EXCEPT !.status = "completed"] EXCEPT !.result = image]]
    OBVIOUS
<1>2. ASSUME j \in InferenceJobs
      PROVE  [[inference[j] EXCEPT !.status = "completed"] EXCEPT !.result = image] \in Requests
    BY <1>2 DEF Requests, JobStates
<1> QED BY <1>1, <1>2

(* No request at all.                                                      *)
LEMMA NoRequestType == NoInference \in Requests
BY DEF NoInference, Requests, JobStates

(* Steps of jobs and of the image store keep the types.                    *)
LEMMA TypesStep ==
    ASSUME AssetTypes, [AssetNext]_assetVars
    PROVE  AssetTypes'
<1> USE AssetAssumption
<1>1. CASE UNCHANGED assetVars
    BY <1>1 DEF AssetTypes, assetVars, queue
<1>2. ASSUME NEW m \in ModelNames, NEW p \in Pairs, ExportModels(m, p) PROVE AssetTypes'
    BY <1>2 DEF AssetTypes, queue, ExportModels
<1>3. ASSUME NEW m \in ModelNames, DeleteExport(m) PROVE AssetTypes'
    BY <1>3 DEF AssetTypes, queue, DeleteExport
<1>4. ASSUME NEW m \in ModelNames, LookAtJobs(m) PROVE AssetTypes'
    BY <1>4 DEF AssetTypes, LookAtJobs, Requests
<1>5. ASSUME NEW m \in ModelNames, NEW r \in InstallRequests, Install(r, m) PROVE AssetTypes'
    BY <1>5 DEF AssetTypes, queue, Install
<1>6. CASE RemoveModel
    BY <1>6 DEF AssetTypes, queue, RemoveModel
<1>7. ASSUME NEW i \in ImageRefs, NEW size \in ImageSizes, NEW purpose \in {"cover", "encoded"},
             UploadImage(i, purpose, size)
      PROVE  AssetTypes'
    BY <1>7 DEF AssetTypes, queue, UploadImage, BeginImage, models, Writers
<1>8. ASSUME NEW i \in ImageRefs, NEW size \in ImageSizes, PublishResult(i, size) PROVE AssetTypes'
    BY <1>8 DEF AssetTypes, queue, PublishResult, BeginImage, RunnerTo, models, Writers
<1>9. CASE WriteImage
    BY <1>9 DEF AssetTypes, queue, WriteImage, models, Writers
<1>10. CASE WriteRecord
    BY <1>10 DEF AssetTypes, queue, WriteRecord, NoWriter, models, Writers
<1>11. CASE ImageFails
    BY <1>11 DEF AssetTypes, queue, ImageFails, NoWriter, models, Writers
<1>12. CASE Maintain \/ AssetTick
    BY <1>12 DEF AssetTypes, queue, Maintain, AssetTick, models
<1>13. ASSUME NEW op \in {"encode", "decode"}, NEW i \in ImageRefs, NEW m \in ModelNames,
              AdmitInference(op, i, m)
       PROVE  AssetTypes'
    BY <1>13 DEF AssetTypes, AdmitInference, NoInference, models, Requests, JobStates
<1>13a. ASSUME NEW j \in InferenceJobs, SaveInference(j) PROVE AssetTypes'
    <2>1. [admission EXCEPT !.status = "queued"] \in Requests
        BY DEF AssetTypes, Requests, JobStates
    <2> QED BY <1>13a, <2>1, NoRequestType DEF AssetTypes, SaveInference, models
<1>13b. CASE RefuseInference
    BY <1>13b, NoRequestType DEF AssetTypes, RefuseInference, models
<1>14. ASSUME NEW j \in InferenceJobs, CancelInference(j) PROVE AssetTypes'
    BY <1>14, StatusType DEF AssetTypes, CancelInference, models, JobStates
<1>15. ASSUME NEW j \in InferenceJobs, StartInference(j) PROVE AssetTypes'
    BY <1>15, StatusType DEF AssetTypes, StartInference, NoRunner, models, JobStates
<1>16. ASSUME NEW j \in InferenceJobs, DiscardText(j) PROVE AssetTypes'
    BY <1>16 DEF AssetTypes, queue, DiscardText, models
<1>17. CASE OpenInputs \/ VerifyEncoding
    BY <1>17 DEF AssetTypes, queue, OpenInputs, VerifyEncoding, RunnerTo, models
<1>18. CASE RunPackage
    BY <1>18 DEF AssetTypes, queue, RunPackage, RunnerTo, models
<1>19. CASE InferenceFails
    BY <1>19, StatusType DEF AssetTypes, InferenceFails, NoRunner, models, JobStates
<1>20. CASE CompleteInference
    BY <1>20, ResultType DEF AssetTypes, CompleteInference, NoRunner, models
<1>21. CASE RestartApplication
    BY <1>21 DEF AssetTypes, RestartApplication, NoWriter, NoRunner, NoInference, Requests,
                   JobStates, Writers
<1> QED BY <1>1, <1>2, <1>3, <1>4, <1>5, <1>6, <1>7, <1>8, <1>9, <1>10, <1>11, <1>12, <1>13,
           <1>14, <1>15, <1>16, <1>17, <1>18, <1>19, <1>20, <1>21, <1>13a, <1>13b
       DEF AssetNext

(* A step that touches no model and saves no job only ends jobs: what it   *)
(* leaves active, or in submission, is as it was.                          *)
LEMMA JobsOnlyEnd ==
    ASSUME RequestsFit, UNCHANGED <<installed, removal>>, LockFree' \/ admission' = admission,
           \A j \in InferenceJobs :
               Active(j)' => /\ Active(j)
                             /\ inference'[j].model = inference[j].model
                             /\ inference'[j].pair = inference[j].pair
                             /\ inference'[j].overtaken = inference[j].overtaken
    PROVE  RequestsFit'
BY DEF RequestsFit, ModelKept, LockFree

(* A job in the queue changes its status, and is no more active than it    *)
(* was.                                                                    *)
LEMMA StatusFits ==
    ASSUME ModelInv, NEW j \in InferenceJobs, NEW status \in JobStates \ {"queued"},
           status = "running" => Active(j), inference' = [inference EXCEPT ![j].status = status],
           UNCHANGED <<installed, removal, admission>>
    PROVE  RequestsFit'
<1>1. \A k \in InferenceJobs :
          /\ inference'[k].model = inference[k].model
          /\ inference'[k].pair = inference[k].pair
          /\ inference'[k].overtaken = inference[k].overtaken
          /\ inference'[k].status = IF k = j THEN status ELSE inference[k].status
    BY DEF ModelInv, AssetTypes, Requests
<1> QED BY <1>1, JobsOnlyEnd DEF ModelInv, Active

(* remove_model's look at the jobs: no active job uses the model, and a    *)
(* request that is being accepted for it is overtaken.                     *)
LEMMA LookFits ==
    ASSUME ModelInv, NEW m \in ModelNames, LookAtJobs(m)
    PROVE  RequestsFit'
<1>1. /\ AssetTypes /\ RequestsFit /\ removal = Missing /\ removal' = m
      /\ UNCHANGED <<inference, installed>>
      /\ \A j \in InferenceJobs : Active(j) => inference[j].model # m
      /\ admission' = IF admission.model = m
                      THEN [admission EXCEPT !.overtaken = TRUE] ELSE admission
    BY DEF LookAtJobs, ModelInv, ModelInUse
<1>2. ASSUME NEW j \in InferenceJobs, Active(j) PROVE ModelKept(inference[j])'
    BY <1>1, <1>2 DEF RequestsFit, ModelKept
<1>3. ASSUME ~LockFree' PROVE ModelKept(admission)'
    <2>1. admission.model = m =>
              admission' = [admission EXCEPT !.overtaken = TRUE] /\ admission'.model = m
              /\ admission'.pair = admission.pair /\ admission'.overtaken
        BY <1>1 DEF AssetTypes, Requests
    <2>2. admission.model # m => admission' = admission
        BY <1>1
    <2>3. admission.model = m => ~LockFree
        BY AssetAssumption DEF LockFree, NoInference
    <2> QED BY <1>1, <1>3, <2>1, <2>2, <2>3 DEF RequestsFit, ModelKept, LockFree
<1> QED BY <1>1, <1>2, <1>3 DEF RequestsFit, Active

(* An installation gives a name only the pair that it has, or had none.    *)
LEMMA InstallFits ==
    ASSUME ModelInv, NEW m \in ModelNames, NEW r \in InstallRequests, Install(r, m)
    PROVE  RequestsFit'
<1>1. /\ AssetTypes /\ RequestsFit /\ installed[m] \in {Missing, pairs[m]}
      /\ UNCHANGED <<inference, admission, removal>>
      /\ installed' = [installed EXCEPT ![m] = pairs[m]]
    BY DEF Install, ModelInv, queue
<1>2. ASSUME NEW request, ModelKept(request)
      PROVE  request.overtaken \/ installed'[request.model] = request.pair
    BY <1>1, <1>2 DEF ModelKept, AssetTypes
<1> QED BY <1>1, <1>2 DEF RequestsFit, ModelKept, LockFree, Active

(* remove_model's delete: the model is that of no request it did not       *)
(* overlap.                                                                *)
LEMMA RemovalFits ==
    ASSUME ModelInv, RemoveModel
    PROVE  RequestsFit'
<1>1. /\ AssetTypes /\ RequestsFit /\ removal' = Missing
      /\ UNCHANGED <<inference, admission>>
      /\ installed' = [installed EXCEPT ![removal] = Missing]
    BY DEF RemoveModel, ModelInv, queue
<1>2. ASSUME NEW request, ModelKept(request)
      PROVE  /\ request.overtaken \/ installed'[request.model] = request.pair
             /\ request.model # Missing
    BY <1>1, <1>2, AssetAssumption DEF ModelKept, AssetTypes
<1> QED BY <1>1, <1>2 DEF RequestsFit, ModelKept, LockFree, Active

(* The two halves of submit_inference: what it finds, and what it saves.   *)
LEMMA AdmissionFits ==
    ASSUME ModelInv, NEW op \in {"encode", "decode"}, NEW i \in ImageRefs, NEW m \in ModelNames,
           AdmitInference(op, i, m)
    PROVE  RequestsFit'
<1>1. /\ RequestsFit /\ installed[m] # Missing
      /\ UNCHANGED <<inference, installed, removal>>
      /\ admission'.model = m /\ admission'.pair = installed[m]
      /\ admission'.overtaken = (removal = m)
    BY DEF AdmitInference, ModelInv, Resolvable, models, NoInference
<1> QED BY <1>1 DEF RequestsFit, ModelKept, Active

LEMMA AcceptedFits ==
    ASSUME ModelInv, NEW j \in InferenceJobs, SaveInference(j)
    PROVE  RequestsFit'
<1>1. /\ AssetTypes /\ RequestsFit /\ ModelKept(admission) /\ LockFree'
      /\ UNCHANGED <<installed, removal>>
    BY DEF SaveInference, ModelInv, RequestsFit, LockFree, models
<1>2. /\ inference'[j].model = admission.model /\ inference'[j].pair = admission.pair
      /\ inference'[j].overtaken = admission.overtaken
      /\ \A k \in InferenceJobs \ {j} : inference'[k] = inference[k]
    BY <1>1 DEF SaveInference, AssetTypes, Requests
<1> QED BY <1>1, <1>2 DEF RequestsFit, ModelKept, Active

(* Only Install, remove_model and the submission of a job need a reason.   *)
LEMMA ModelStep ==
    ASSUME ModelInv, [AssetNext]_assetVars
    PROVE  ModelInv'
<1> SUFFICES RequestsFit'
    BY TypesStep DEF ModelInv
<1>0. AssetTypes /\ RequestsFit
    BY DEF ModelInv
<1>1. CASE UNCHANGED <<queue, installed, removal>>
    BY <1>0, <1>1, JobsOnlyEnd DEF Active, queue
<1>2. CASE RefuseInference
    BY <1>0, <1>2, JobsOnlyEnd DEF RefuseInference, models, LockFree, Active
<1>3. ASSUME NEW j \in InferenceJobs, CancelInference(j) \/ StartInference(j)
      PROVE  RequestsFit'
    BY <1>3, StatusFits DEF CancelInference, StartInference, models, JobStates, Active
<1>4. CASE InferenceFails
    <2>1. CASE running.job \in InferenceJobs
        BY <1>4, <2>1, StatusFits DEF InferenceFails, models, JobStates
    <2>2. CASE running.job \notin InferenceJobs
        <3>1. inference' = inference
            BY <1>0, <1>4, <2>2 DEF InferenceFails, AssetTypes
        <3> QED BY <1>1, <1>4, <3>1 DEF InferenceFails, models, queue
    <2> QED BY <2>1, <2>2
<1>5. CASE CompleteInference
    <2>1. \A k \in InferenceJobs : Active(k)' => inference'[k] = inference[k]
        BY <1>0, <1>5 DEF CompleteInference, AssetTypes, Requests, Active
    <2> QED BY <1>0, <1>5, <2>1, JobsOnlyEnd DEF CompleteInference, models, Active
<1>6. CASE RestartApplication
    <2>1. \A j \in InferenceJobs : ~Active(j)'
        BY <1>0, <1>6 DEF RestartApplication, AssetTypes, Requests, Active
    <2> QED BY <1>6, <2>1 DEF RequestsFit, RestartApplication, LockFree, Active
<1>7. \A m \in ModelNames :
          LookAtJobs(m) \/ (\E r \in InstallRequests : Install(r, m)) => RequestsFit'
    BY LookFits, InstallFits
<1>8. \A op \in {"encode", "decode"}, i \in ImageRefs, m \in ModelNames :
          AdmitInference(op, i, m) => RequestsFit'
    BY AdmissionFits
<1>9. \A j \in InferenceJobs : SaveInference(j) => RequestsFit'
    BY AcceptedFits
<1> QED
    BY <1>1, <1>2, <1>3, <1>4, <1>5, <1>6, <1>7, <1>8, <1>9, RemovalFits
       DEF AssetNext, assetVars, models, queue, ExportModels, DeleteExport, UploadImage,
           PublishResult, WriteImage, WriteRecord, ImageFails, Maintain, AssetTick, DiscardText,
           OpenInputs, RunPackage, VerifyEncoding

(* A job loses its model, or has it replaced by another pair, only if      *)
(* remove_model overlapped its submission: a removal that looks at the     *)
(* jobs after submit_inference saved it, or deleted before submit_inference *)
(* looked for the model, leaves every job the model it was accepted for.   *)
THEOREM ModelsLostOnlyToOverlap == AssetSpec => []LostOnlyToOverlap
<1>1. ModelInv /\ [AssetNext]_assetVars => ModelInv'
    BY ModelStep
<1>2. ModelInv => LostOnlyToOverlap
    BY DEF ModelInv, RequestsFit, ModelKept, LostOnlyToOverlap
<1> QED BY ModelStart, <1>1, <1>2, PTL DEF AssetSpec

-----------------------------------------------------------------------------
(* What the actions on jobs and on the image store read has its type, and  *)
(* only so many images are there.                                          *)
Runners == [pc : {"none", "open", "process", "verify", "publish", "saving", "failed",
                  "complete"},
            job : InferenceJobs \cup {Missing}, made : Pairs \cup {Missing},
            image : ImageRefs \cup {Missing}]
Held(files) == {i \in ImageRefs : files[i] # Missing}
FilesType(files) ==
    files \in [ImageRefs -> Images \cup {Missing}] /\ IsFiniteSet(Held(files))
StoreTypes ==
    /\ FilesType(imageFiles)
    /\ running \in Runners
    /\ texts \subseteq InferenceJobs

(* The runner's job runs; what it has made follows from how far it is; and *)
(* it waits for the writer exactly while the writer works for it.          *)
RunnerFits ==
    /\ running.pc # "none" => running.job \in InferenceJobs /\ Mine.status = "running"
    /\ running.pc \in {"verify", "publish", "saving"} => Mine.op = "encode"
    /\ running.pc # "complete" => running.image = Missing
    /\ running.pc = "complete" => (running.image = Missing <=> Mine.op = "decode")
    /\ running.pc = "saving" <=> writer.pc # "none" /\ writer.by = "runner"

(* The writer has its own directory, which has no record yet; what it      *)
(* writes for the runner was counted when the directory was made.          *)
SizeOf(files) == [i \in ImageRefs |-> IF files[i] # Missing THEN files[i].size ELSE 0]
Bytes(files, chosen) == SumFunctionOnSet(SizeOf(files), chosen)
WriterFits ==
    writer.pc # "none" =>
        /\ writer.image \in Held(imageFiles) /\ ~imageFiles[writer.image].record
        /\ writer.size \in Nat
        /\ writer.by = "runner" /\ writer.pc = "write" =>
               /\ imageFiles[writer.image].size = 0
               /\ Bytes(imageFiles, Held(imageFiles)) + writer.size <= StorageCap
        /\ writer.by = "runner" /\ writer.pc = "record" =>
               Bytes(imageFiles, Held(imageFiles)) <= StorageCap

(* An image that was published: nobody writes it any more, and its record  *)
(* goes only when its time is over.                                        *)
Published(i) ==
    /\ i \in Held(imageFiles)
    /\ imageFiles[i].record \/ Expired(imageFiles[i])
    /\ writer.pc # "none" => writer.image # i
ResultsPublished ==
    /\ running.image # Missing => Published(running.image)
    /\ \A j \in InferenceJobs : inference[j].status = "completed" =>
           IF inference[j].op = "encode"
           THEN Published(inference[j].result) ELSE inference[j].result = Missing

(* A text belongs to a decode that has it as its result.                   *)
TextsFit ==
    \A j \in texts : inference[j].op = "decode" /\
        (inference[j].status = "completed" \/ (running.job = j /\ Runner("complete")))

(* The images with a record fit, whoever writes.                           *)
Recorded(files) == {i \in Held(files) : files[i].record}
RecordedFit == Bytes(imageFiles, Recorded(imageFiles)) <= StorageCap

(* The strengthening of StoredImagesBounded that every step preserves.     *)
StoreInv ==
    /\ AssetTypes /\ RequestsFit /\ StoreTypes /\ RunnerFits /\ WriterFits
    /\ ResultsPublished /\ TextsFit /\ RecordedFit


-----------------------------------------------------------------------------
(* A sum is the sum over a part of the set and the sum over the rest.      *)
LEMMA SumParts ==
    ASSUME NEW S, IsFiniteSet(S), NEW f, \A x \in S : f[x] \in Int, NEW A \in SUBSET S
    PROVE  SumFunctionOnSet(f, S) = SumFunctionOnSet(f, A) + SumFunctionOnSet(f, S \ A)
<1> DEFINE Sum(s) == SumFunctionOnSet(f, s)
           F == {s \in SUBSET A : Sum(S \ (A \ s)) # Sum(s) + Sum(S \ A)}
<1>1. SUFFICES ASSUME F # {} PROVE FALSE
  <2>1. A \notin F
    OBVIOUS
  <2>2. Sum(S \ (A \ A)) = Sum(A) + Sum(S \ A)
    BY <2>1
  <2>3. S \ (A \ A) = S
    OBVIOUS
  <2> QED BY <2>2, <2>3
<1>2. PICK T \in F : \A u \in F : u \subseteq T => u = T
  <2>1. F \in SUBSET SUBSET A /\ IsFiniteSet(A)
    BY FS_Subset
  <2> HIDE DEF F
  <2> QED BY <1>1, <2>1, SmallestSubset
<1>a. Sum(S \ (A \ T)) # Sum(T) + Sum(S \ A)
  BY <1>2
<1>3. T \subseteq A /\ IsFiniteSet(T) /\ IsFiniteSet(S \ (A \ T)) /\ IsFiniteSet(S \ A)
  BY <1>2, FS_Subset
<1>4. Sum(S \ A) \in Int
  BY <1>3, SumType
<1>5. T # {}
  <2>1. CASE T = {}
    <3>1. S \ (A \ T) = S \ A
      BY <2>1
    <3>2. Sum(T) = 0
      BY <2>1, SumEmpty
    <3> HIDE DEF Sum
    <3> QED BY <1>a, <1>4, <3>1, <3>2
  <2> QED BY <2>1
<1>6. PICK y \in T : TRUE
  BY <1>5
<1> DEFINE U == T \ {y}
           big == S \ (A \ T)
<1>7. Sum(T) = f[y] + Sum(U)
  BY <1>3, SumRemove
<1>8. Sum(big) = f[y] + Sum(big \ {y})
  <2>1. y \in big /\ \A x \in big : f[x] \in Int
    BY <1>3
  <2> QED BY <1>3, <2>1, SumRemove
<1>9. big \ {y} = S \ (A \ U)
  BY <1>3
<1>10. U \notin F /\ U \in SUBSET A
  BY <1>2, <1>3
<1>11. Sum(S \ (A \ U)) = Sum(U) + Sum(S \ A)
  BY <1>10
<1>12. Sum(U) \in Int /\ f[y] \in Int
  <2>1. IsFiniteSet(U) /\ \A x \in U : f[x] \in Int
    BY <1>3, FS_Subset
  <2> QED BY <1>3, <2>1, SumType
<1>13. Sum(big \ {y}) = Sum(U) + Sum(S \ A)
  BY <1>9, <1>11, Zenon
<1> QED
  <2> HIDE DEF Sum, U
  <2> QED BY <1>a, <1>4, <1>7, <1>8, <1>12, <1>13

(* A part of a set of numbers that are not negative has a smaller sum.     *)
LEMMA SumOfPart ==
    ASSUME NEW S, IsFiniteSet(S), NEW f, \A x \in S : f[x] \in Nat, NEW A \in SUBSET S
    PROVE  /\ SumFunctionOnSet(f, A) <= SumFunctionOnSet(f, S)
           /\ SumFunctionOnSet(f, A) \in Int /\ SumFunctionOnSet(f, S) \in Int
<1>1. IsFiniteSet(A) /\ IsFiniteSet(S \ A)
  BY FS_Subset
<1>2. SumFunctionOnSet(f, A) \in Int /\ SumFunctionOnSet(f, S) \in Int
  BY <1>1, SumType
<1>3. SumFunctionOnSet(f, S) = SumFunctionOnSet(f, A) + SumFunctionOnSet(f, S \ A)
  BY SumParts
<1>4. SumFunctionOnSet(f, S \ A) \in Int /\ 0 <= SumFunctionOnSet(f, S \ A)
  <2>1. CASE S \ A = {}
    BY <2>1, SumEmpty
  <2>2. CASE S \ A # {}
    <3>1. PICK y \in S \ A : TRUE
      BY <2>2
    <3> QED BY <1>1, <3>1, SumAtLeastTerm
  <2> QED BY <2>1, <2>2
<1> QED BY <1>2, <1>3, <1>4

(* The bytes of some images, as the sum of a function.                     *)
LEMMA BytesAreSum ==
    ASSUME NEW files, NEW S, IsFiniteSet(S), S \subseteq Held(files)
    PROVE  MapThenSumSet(LAMBDA i : files[i].size, S) = Bytes(files, S)
<1> DEFINE f == SizeOf(files)
           Up(g) == g = [s \in SUBSET S |->
                            IF s = {} THEN 0 ELSE files[Picked(s)].size + g[s \ {Picked(s)}]]
<1>1. MapThenSumSet(LAMBDA i : files[i].size, S) = (CHOOSE g : Up(g))[S]
  BY Zenon DEF MapThenSumSet, MapThenFoldSet, Picked
<1>2. \A g : Up(g) <=> SumsUp(g, f, S)
  <2> TAKE g
  <2>1. ASSUME NEW s \in SUBSET S
        PROVE  (IF s = {} THEN 0 ELSE files[Picked(s)].size + g[s \ {Picked(s)}])
                   = SumStep(g, f, s)
    <3>1. s # {} => f[Picked(s)] = files[Picked(s)].size
      BY PickedIn DEF Held, SizeOf
    <3> QED BY <3>1 DEF SumStep
  <2>2. [s \in SUBSET S |->
            IF s = {} THEN 0 ELSE files[Picked(s)].size + g[s \ {Picked(s)}]]
            = [s \in SUBSET S |-> SumStep(g, f, s)]
    BY <2>1, Zenon
  <2> QED BY <2>2, Zenon DEF SumsUp
<1>3. Bytes(files, S) = (CHOOSE g : SumsUp(g, f, S))[S]
  BY Unfold, Zenon DEF Bytes
<1> DEFINE g == CHOOSE g : Up(g)
           h == CHOOSE h : SumsUp(h, f, S)
<1>4. SumsUp(h, f, S)
  BY SumsUpExists, Zenon
<1>5. SumsUp(g, f, S)
  BY <1>2, <1>4, Zenon
<1>6. g[S] = h[S]
  <2> HIDE DEF f, g, h
  <2> QED BY <1>4, <1>5, SumsUpUnique
<1> QED BY <1>1, <1>3, <1>6


(* Sizes are numbers, so what fewer images hold is less, and images that   *)
(* kept their sizes hold what they held.                                   *)
LEMMA SizeIsNumber ==
    ASSUME NEW files, FilesType(files)
    PROVE  /\ \A i \in ImageRefs : SizeOf(files)[i] \in Nat
           /\ \A i \in Held(files) : files[i] \in Images /\ SizeOf(files)[i] = files[i].size
           /\ Held(files) \subseteq ImageRefs /\ Recorded(files) \subseteq Held(files)
           /\ \A i \in ImageRefs \ Held(files) : SizeOf(files)[i] = 0
BY DEF FilesType, SizeOf, Images, Held, Recorded

LEMMA BytesOfPart ==
    ASSUME NEW files, FilesType(files), NEW S \in SUBSET Held(files), NEW A \in SUBSET S
    PROVE  /\ Bytes(files, A) <= Bytes(files, S)
           /\ Bytes(files, A) \in Int /\ Bytes(files, S) \in Int /\ IsFiniteSet(S)
<1>1. IsFiniteSet(S) /\ \A i \in S : SizeOf(files)[i] \in Nat
  BY SizeIsNumber, FS_Subset DEF FilesType
<1> QED BY <1>1, SumOfPart DEF Bytes

LEMMA BytesSame ==
    ASSUME NEW files, FilesType(files), NEW after, NEW S \in SUBSET Held(files),
           \A i \in S : SizeOf(after)[i] = SizeOf(files)[i]
    PROVE  Bytes(after, S) = Bytes(files, S)
<1>1. IsFiniteSet(S)
  <2>1. S \in SUBSET S
    OBVIOUS
  <2> QED BY <2>1, BytesOfPart, Zenon
<1>a. \A i \in S : SizeOf(files)[i] \in Int /\ SizeOf(files)[i] = SizeOf(after)[i]
  <2>1. \A i \in ImageRefs : SizeOf(files)[i] \in Nat
    BY SizeIsNumber
  <2> QED BY <2>1 DEF Held
<1>2. SumFunctionOnSet(SizeOf(files), S) = SumFunctionOnSet(SizeOf(after), S)
  BY <1>1, <1>a, SumSame
<1> QED BY <1>2 DEF Bytes

(* One image in and out of the count.                                      *)
LEMMA BytesWithout ==
    ASSUME NEW files, FilesType(files), NEW S \in SUBSET Held(files), NEW i \in S
    PROVE  Bytes(files, S) = SizeOf(files)[i] + Bytes(files, S \ {i})
<1>1. IsFiniteSet(S) /\ \A x \in S : SizeOf(files)[x] \in Int
  BY SizeIsNumber, BytesOfPart
<1> QED BY <1>1, SumRemove DEF Bytes

LEMMA UsedIsBytes ==
    ASSUME NEW files, FilesType(files)
    PROVE  UsedBytes(files) = Bytes(files, Held(files))
<1>1. Held(files) = {i \in ImageRefs : files[i] # Missing} /\ IsFiniteSet(Held(files))
  BY DEF Held, FilesType
<1>2. MapThenSumSet(LAMBDA i : files[i].size, Held(files)) = Bytes(files, Held(files))
  BY <1>1, BytesAreSum
<1> QED BY <1>1, <1>2, Zenon DEF UsedBytes

(* Sweeping takes the bytes and the records of expired images, and leaves  *)
(* their references taken.                                                 *)
LEMMA Sweeping ==
    ASSUME NEW files, FilesType(files)
    PROVE  /\ FilesType(Swept(files)) /\ Held(Swept(files)) = Held(files)
           /\ Recorded(Swept(files)) \subseteq Recorded(files)
           /\ \A i \in Recorded(Swept(files)) : Swept(files)[i] = files[i]
           /\ \A i \in ImageRefs :
                  \/ Swept(files)[i] = files[i]
                  \/ i \in Held(files) /\ Expired(files[i]) /\ Swept(files)[i] = SweptImage
<1> USE AssetAssumption
<1>1. SweptImage \in Images /\ ~SweptImage.record /\ SweptImage # Missing
  <2>1. RetentionTicks \in Nat /\ Missing \notin Images
    OBVIOUS
  <2>2. SweptImage \in Images /\ ~SweptImage.record
    BY <2>1 DEF SweptImage, Images
  <2> QED BY <2>1, <2>2
<1>2. \A i \in ImageRefs :
          \/ Swept(files)[i] = files[i]
          \/ i \in Held(files) /\ Expired(files[i]) /\ Swept(files)[i] = SweptImage
  BY DEF Swept, Held
<1>3. Swept(files) \in [ImageRefs -> Images \cup {Missing}] /\ Held(Swept(files)) = Held(files)
  <2>1. Swept(files) = [i \in ImageRefs |-> Swept(files)[i]]
    BY DEF Swept
  <2> QED BY <1>1, <1>2, <2>1 DEF FilesType, Held
<1>4. \A i \in Recorded(Swept(files)) : Swept(files)[i] = files[i] /\ i \in Recorded(files)
  BY <1>1, <1>2, <1>3 DEF Recorded, Held
<1> QED BY <1>2, <1>3, <1>4 DEF FilesType

(* After sweeping there are no more bytes than before.                     *)
LEMMA SweptBytes ==
    ASSUME NEW files, FilesType(files)
    PROVE  Bytes(Swept(files), Recorded(Swept(files))) <= Bytes(files, Recorded(files))
<1> DEFINE S == Recorded(Swept(files))
<1>1. S \in SUBSET Recorded(files) /\ Recorded(files) \in SUBSET Held(files)
  BY Sweeping DEF Recorded
<1>2. \A i \in S : SizeOf(Swept(files))[i] = SizeOf(files)[i]
  BY Sweeping DEF SizeOf, Recorded, Held
<1>3. Bytes(Swept(files), S) = Bytes(files, S)
  BY <1>1, <1>2, BytesSame
<1>4. Bytes(files, S) <= Bytes(files, Recorded(files))
  BY <1>1, BytesOfPart
<1> QED BY <1>3, <1>4

-----------------------------------------------------------------------------
(* The steps of the image store.                                           *)
LEMMA ImageMoves ==
    ASSUME [AssetNext]_assetVars
    PROVE  \/ UNCHANGED <<imageFiles, writer>>
           \/ imageFiles' = imageFiles /\ writer' = NoWriter
           \/ Maintain \/ AssetTick
           \/ \E i \in ImageRefs, size \in ImageSizes, purpose \in {"cover", "encoded"},
                 by \in {"upload", "runner"} : BeginImage(i, purpose, size, by)
           \/ WriteImage \/ WriteRecord \/ ImageFails
<1>1. ASSUME NEW i \in ImageRefs, NEW size \in ImageSizes, NEW purpose \in {"cover", "encoded"},
             UploadImage(i, purpose, size)
      PROVE  \E by \in {"upload", "runner"} : BeginImage(i, purpose, size, by)
  BY <1>1 DEF UploadImage
<1>2. ASSUME NEW i \in ImageRefs, NEW size \in ImageSizes, PublishResult(i, size)
      PROVE  \E purpose \in {"cover", "encoded"}, by \in {"upload", "runner"} :
                 BeginImage(i, purpose, size, by)
  BY <1>2 DEF PublishResult
<1>3. CASE UNCHANGED assetVars
  BY <1>3 DEF assetVars
<1>4. ASSUME NEW m \in ModelNames,
             \/ \E p \in Pairs : ExportModels(m, p)
             \/ DeleteExport(m) \/ LookAtJobs(m)
             \/ \E r \in InstallRequests : Install(r, m)
      PROVE  UNCHANGED <<imageFiles, writer>>
  BY <1>4 DEF ExportModels, DeleteExport, LookAtJobs, Install
<1>5. ASSUME NEW j \in InferenceJobs,
             SaveInference(j) \/ CancelInference(j) \/ StartInference(j) \/ DiscardText(j)
      PROVE  UNCHANGED <<imageFiles, writer>>
  BY <1>5 DEF SaveInference, CancelInference, StartInference, DiscardText
<1>5a. \A op, i, m : AdmitInference(op, i, m) => UNCHANGED <<imageFiles, writer>>
  BY DEF AdmitInference
<1>6. RemoveModel \/ OpenInputs \/ RunPackage \/ VerifyEncoding \/ InferenceFails
          \/ CompleteInference \/ RefuseInference => UNCHANGED <<imageFiles, writer>>
  BY DEF RefuseInference, RemoveModel, OpenInputs, RunPackage, VerifyEncoding, InferenceFails,
         CompleteInference
<1>7. RestartApplication => imageFiles' = imageFiles /\ writer' = NoWriter
  BY DEF RestartApplication
<1> QED BY <1>1, <1>2, <1>3, <1>4, <1>5, <1>6, <1>7, <1>5a, Zenon DEF AssetNext

(* A new directory is in the place of no image and holds no bytes yet.     *)
LEMMA BeginKeeps ==
    ASSUME StoreInv, NEW i \in ImageRefs, NEW size \in ImageSizes,
           NEW purpose \in {"cover", "encoded"}, NEW by \in {"upload", "runner"},
           BeginImage(i, purpose, size, by)
    PROVE  FilesType(imageFiles)' /\ WriterFits' /\ RecordedFit'
<1> USE AssetAssumption
<1> DEFINE files == Swept(imageFiles)
           fresh == [size |-> 0, age |-> 0, record |-> FALSE, purpose |-> purpose]
           held == Held(files)
<1>1. FilesType(imageFiles) /\ FilesType(files)
  BY Sweeping DEF StoreInv, StoreTypes
<1>2. /\ writer.pc = "none" /\ files[i] = Missing /\ UsedBytes(files) + size <= StorageCap
      /\ imageFiles' = [files EXCEPT ![i] = fresh]
      /\ writer' = [pc |-> "write", image |-> i, by |-> by, size |-> size, purpose |-> purpose]
  BY DEF BeginImage
<1>3. fresh \in Images /\ fresh # Missing /\ ~fresh.record /\ fresh.size = 0
  <2>1. fresh \in Images /\ ~fresh.record /\ fresh.size = 0
    BY DEF Images
  <2> QED BY <2>1
<1> HIDE DEF files, fresh
<1>4. imageFiles' \in [ImageRefs -> Images \cup {Missing}] /\ imageFiles'[i] = fresh
      /\ \A k \in ImageRefs \ {i} : imageFiles'[k] = files[k]
  BY <1>1, <1>2, <1>3 DEF FilesType
<1>5. i \notin held /\ Held(imageFiles') = held \cup {i} /\ held \subseteq ImageRefs
  BY <1>2, <1>3, <1>4 DEF Held
<1>6. FilesType(imageFiles')
  BY <1>1, <1>4, <1>5, FS_AddElement DEF FilesType
<1>7. Recorded(imageFiles') = Recorded(files)
  BY <1>3, <1>4, <1>5 DEF Recorded
<1>8. \A k \in held : SizeOf(imageFiles')[k] = SizeOf(files)[k]
  BY <1>4, <1>5 DEF SizeOf
<1>9. Bytes(imageFiles', Recorded(files)) = Bytes(files, Recorded(files))
  <2>1. Recorded(files) \in SUBSET held
    BY DEF Recorded
  <2> QED BY <1>1, <1>8, <2>1, BytesSame
<1>10. RecordedFit'
  <2>1. Bytes(files, Recorded(files)) <= Bytes(imageFiles, Recorded(imageFiles))
    BY <1>1, SweptBytes DEF files
  <2>2. /\ Bytes(files, Recorded(files)) \in Int
        /\ Bytes(imageFiles, Recorded(imageFiles)) \in Int
    BY <1>1, BytesOfPart DEF Recorded
  <2>3. Bytes(imageFiles, Recorded(imageFiles)) <= StorageCap /\ StorageCap \in Int
    BY DEF StoreInv, RecordedFit
  <2> QED BY <1>7, <1>9, <2>1, <2>2, <2>3 DEF RecordedFit
<1>11. Bytes(imageFiles', Held(imageFiles')) = Bytes(files, held)
  <2>1. /\ SizeOf(imageFiles')[i] = 0 /\ i \in Held(imageFiles')
        /\ Held(imageFiles') \ {i} = held
    BY <1>3, <1>4, <1>5 DEF SizeOf
  <2>2. Bytes(imageFiles', Held(imageFiles'))
            = SizeOf(imageFiles')[i] + Bytes(imageFiles', Held(imageFiles') \ {i})
    BY <1>6, <2>1, BytesWithout
  <2>3. Bytes(imageFiles', held) = Bytes(files, held)
    BY <1>1, <1>8, BytesSame
  <2>4. Bytes(files, held) \in Int
    BY <1>1, BytesOfPart
  <2>5. Bytes(imageFiles', Held(imageFiles')) = 0 + Bytes(files, held)
    BY ONLY <2>1, <2>2, <2>3
  <2> QED BY ONLY <2>4, <2>5
<1>12. Bytes(files, held) + size <= StorageCap /\ size \in Nat
  BY <1>1, <1>2, UsedIsBytes
<1>13. WriterFits'
  BY <1>2, <1>3, <1>4, <1>5, <1>11, <1>12 DEF WriterFits
<1> QED BY <1>6, <1>10, <1>13

(* The writer fills its own directory with what it counted.                *)
LEMMA WriteKeeps ==
    ASSUME StoreInv, WriteImage
    PROVE  FilesType(imageFiles)' /\ WriterFits' /\ RecordedFit'
<1> USE AssetAssumption
<1> DEFINE i == writer.image
           held == Held(imageFiles)
<1>1. FilesType(imageFiles) /\ writer \in Writers /\ writer.pc = "write"
  BY DEF StoreInv, StoreTypes, AssetTypes, WriteImage
<1>2. /\ i \in held /\ ~imageFiles[i].record /\ writer.size \in Nat
      /\ writer.by = "runner" =>
            imageFiles[i].size = 0 /\ Bytes(imageFiles, held) + writer.size <= StorageCap
  BY <1>1 DEF StoreInv, WriterFits
<1>3. PICK size \in Nat : /\ writer.by = "runner" => size = writer.size
                          /\ imageFiles' = [imageFiles EXCEPT ![i].size = size]
  BY <1>2 DEF WriteImage
<1>4. writer' = [writer EXCEPT !.pc = "record"]
  BY DEF WriteImage
<1>5. writer'.pc = "record" /\ writer'.image = i /\ writer'.by = writer.by
      /\ writer'.size = writer.size
  BY <1>1, <1>4 DEF Writers
<1> DEFINE after == [imageFiles[i] EXCEPT !.size = size]
<1>6. i \in ImageRefs /\ imageFiles[i] \in Images /\ held \subseteq ImageRefs
  BY <1>1, <1>2, SizeIsNumber DEF Held
<1>7. after \in Images /\ after.size = size /\ after.record = imageFiles[i].record
      /\ after # Missing
  <2>1. after \in Images /\ after.size = size /\ after.record = imageFiles[i].record
    BY <1>6 DEF Images
  <2> QED BY <2>1
<1>8. /\ imageFiles' \in [ImageRefs -> Images \cup {Missing}] /\ imageFiles'[i] = after
      /\ \A k \in ImageRefs \ {i} : imageFiles'[k] = imageFiles[k]
  <2>1. imageFiles' = [imageFiles EXCEPT ![i] = after]
    BY <1>1, <1>3, <1>6 DEF FilesType
  <2> HIDE DEF after, i
  <2> QED BY <1>1, <1>6, <1>7, <2>1 DEF FilesType
<1> HIDE DEF after, i
<1>9. Held(imageFiles') = held /\ Recorded(imageFiles') = Recorded(imageFiles)
  BY <1>2, <1>6, <1>7, <1>8 DEF Held, Recorded
<1>10. FilesType(imageFiles')
  BY <1>1, <1>8, <1>9 DEF FilesType
<1>11. \A k \in held \ {i} : SizeOf(imageFiles')[k] = SizeOf(imageFiles)[k]
  BY <1>6, <1>8 DEF SizeOf
<1>12. RecordedFit'
  <2>1. Recorded(imageFiles) \in SUBSET held /\ i \notin Recorded(imageFiles)
    BY <1>2 DEF Recorded
  <2>2. Bytes(imageFiles', Recorded(imageFiles)) = Bytes(imageFiles, Recorded(imageFiles))
    BY <1>1, <1>11, <2>1, BytesSame
  <2> QED BY <1>9, <2>2 DEF RecordedFit, StoreInv
<1>13. writer.by = "runner" => Bytes(imageFiles', held) <= StorageCap
  <2>0. SUFFICES ASSUME writer.by = "runner" PROVE Bytes(imageFiles', held) <= StorageCap
    OBVIOUS
  <2>1. SizeOf(imageFiles)[i] = 0 /\ SizeOf(imageFiles')[i] = writer.size
    BY <1>2, <1>3, <1>6, <1>7, <1>8, <1>9, <2>0 DEF SizeOf, Held
  <2>2. Bytes(imageFiles, held) = SizeOf(imageFiles)[i] + Bytes(imageFiles, held \ {i})
    BY <1>1, <1>2, BytesWithout
  <2>3. Bytes(imageFiles', held) = SizeOf(imageFiles')[i] + Bytes(imageFiles', held \ {i})
    BY <1>2, <1>9, <1>10, BytesWithout
  <2>4. Bytes(imageFiles', held \ {i}) = Bytes(imageFiles, held \ {i})
    BY <1>1, <1>11, BytesSame
  <2>5. Bytes(imageFiles, held \ {i}) \in Int /\ Bytes(imageFiles, held) \in Int
    BY <1>1, BytesOfPart
  <2> QED BY <1>2, <2>0, <2>1, <2>2, <2>3, <2>4, <2>5
<1>14. WriterFits'
  BY <1>2, <1>5, <1>7, <1>8, <1>9, <1>13 DEF WriterFits
<1> QED BY <1>10, <1>12, <1>14

(* A record is written for what still fits.                                *)
LEMMA RecordKeeps ==
    ASSUME StoreInv, WriteRecord
    PROVE  FilesType(imageFiles)' /\ WriterFits' /\ RecordedFit'
<1> USE AssetAssumption
<1> DEFINE i == writer.image
           held == Held(imageFiles)
<1>1. FilesType(imageFiles) /\ writer \in Writers /\ writer.pc = "record" /\ Fits
      /\ imageFiles' = [imageFiles EXCEPT ![i].record = TRUE] /\ writer' = NoWriter
  BY DEF StoreInv, StoreTypes, AssetTypes, WriteRecord
<1>2. /\ i \in held
      /\ writer.by = "runner" => Bytes(imageFiles, held) <= StorageCap
  BY <1>1 DEF StoreInv, WriterFits
<1>3. Bytes(imageFiles, held) <= StorageCap
  <2>1. CASE writer.by = "upload"
    BY <1>1, <2>1, UsedIsBytes DEF Fits
  <2> QED BY <1>1, <1>2, <2>1 DEF Writers
<1> DEFINE after == [imageFiles[i] EXCEPT !.record = TRUE]
<1>4. i \in ImageRefs /\ imageFiles[i] \in Images /\ held \subseteq ImageRefs
  BY <1>1, <1>2, SizeIsNumber DEF Held
<1>5. after \in Images /\ after.size = imageFiles[i].size /\ after.record /\ after # Missing
  <2>1. after \in Images /\ after.size = imageFiles[i].size /\ after.record
    BY <1>4 DEF Images
  <2> QED BY <2>1
<1>6. /\ imageFiles' \in [ImageRefs -> Images \cup {Missing}] /\ imageFiles'[i] = after
      /\ \A k \in ImageRefs \ {i} : imageFiles'[k] = imageFiles[k]
  <2>1. imageFiles' = [imageFiles EXCEPT ![i] = after]
    BY <1>1, <1>4 DEF FilesType
  <2> HIDE DEF after, i
  <2> QED BY <1>1, <1>4, <1>5, <2>1 DEF FilesType
<1> HIDE DEF after, i
<1>7. Held(imageFiles') = held
  BY <1>2, <1>4, <1>5, <1>6 DEF Held
<1>8. \A k \in held : SizeOf(imageFiles')[k] = SizeOf(imageFiles)[k]
  BY <1>2, <1>4, <1>5, <1>6 DEF SizeOf, Held
<1>9. Bytes(imageFiles', Recorded(imageFiles')) <= StorageCap
  <2> DEFINE S == Recorded(imageFiles')
  <2>1. S \in SUBSET held /\ held \in SUBSET held
    BY <1>7 DEF Recorded
  <2> HIDE DEF S
  <2>2. Bytes(imageFiles', S) = Bytes(imageFiles, S)
    BY <1>1, <1>8, <2>1, BytesSame
  <2>3. /\ Bytes(imageFiles, S) <= Bytes(imageFiles, held)
        /\ Bytes(imageFiles, S) \in Int /\ Bytes(imageFiles, held) \in Int
    BY <1>1, <2>1, BytesOfPart
  <2>4. Bytes(imageFiles', S) <= StorageCap
    BY <1>3, <2>2, <2>3
  <2> QED BY <2>4 DEF S
<1> QED BY <1>1, <1>6, <1>7, <1>9 DEF FilesType, WriterFits, RecordedFit, NoWriter

(* When the writer fails, its directory goes, which had no record.         *)
LEMMA FailKeeps ==
    ASSUME StoreInv, ImageFails
    PROVE  FilesType(imageFiles)' /\ WriterFits' /\ RecordedFit'
<1> DEFINE i == writer.image
           held == Held(imageFiles)
<1>1. FilesType(imageFiles) /\ i \in held /\ ~imageFiles[i].record
      /\ imageFiles' = [imageFiles EXCEPT ![i] = Missing] /\ writer' = NoWriter
  BY DEF StoreInv, StoreTypes, WriterFits, ImageFails
<1>2. imageFiles' \in [ImageRefs -> Images \cup {Missing}]
      /\ Held(imageFiles') = held \ {i} /\ Recorded(imageFiles') = Recorded(imageFiles)
  BY <1>1 DEF FilesType, Held, Recorded
<1>3. IsFiniteSet(held \ {i})
  BY <1>1, FS_RemoveElement DEF FilesType
<1>4. Recorded(imageFiles) \in SUBSET held
      /\ \A k \in Recorded(imageFiles) : SizeOf(imageFiles')[k] = SizeOf(imageFiles)[k]
  BY <1>1 DEF FilesType, Held, Recorded, SizeOf
<1>5. Bytes(imageFiles', Recorded(imageFiles)) = Bytes(imageFiles, Recorded(imageFiles))
  BY <1>1, <1>4, BytesSame
<1> QED BY <1>1, <1>2, <1>3, <1>5 DEF FilesType, WriterFits, RecordedFit, NoWriter, StoreInv

(* Time passes: no image gains or loses a byte.                            *)
LEMMA TickKeeps ==
    ASSUME StoreInv, AssetTick
    PROVE  FilesType(imageFiles)' /\ WriterFits' /\ RecordedFit'
<1> USE AssetAssumption
<1>1. FilesType(imageFiles) /\ writer' = writer
  BY DEF StoreInv, StoreTypes, AssetTick
<1>2. \A i \in ImageRefs :
          IF imageFiles[i] # Missing /\ ~Expired(imageFiles[i])
          THEN imageFiles'[i] = [imageFiles[i] EXCEPT !.age = @ + 1]
          ELSE imageFiles'[i] = imageFiles[i]
  BY DEF AssetTick
<1>3. ASSUME NEW f \in Images
      PROVE  /\ [f EXCEPT !.age = @ + 1] \in Images
             /\ [f EXCEPT !.age = @ + 1].size = f.size
             /\ [f EXCEPT !.age = @ + 1].record = f.record
  BY DEF Images
<1>4. \A i \in ImageRefs :
          IF imageFiles[i] = Missing THEN imageFiles'[i] = Missing
          ELSE /\ imageFiles'[i] \in Images
               /\ imageFiles'[i].size = imageFiles[i].size
               /\ imageFiles'[i].record = imageFiles[i].record
  BY <1>1, <1>2, <1>3 DEF FilesType
<1>5. Missing \notin Images
  OBVIOUS
<1>6. DOMAIN imageFiles' = ImageRefs /\ imageFiles' = [i \in ImageRefs |-> imageFiles'[i]]
  BY DEF AssetTick
<1>7. imageFiles' \in [ImageRefs -> Images \cup {Missing}]
  BY <1>4, <1>6
<1>8. /\ Held(imageFiles') = Held(imageFiles) /\ Recorded(imageFiles') = Recorded(imageFiles)
      /\ SizeOf(imageFiles') = SizeOf(imageFiles)
  BY <1>4, <1>5 DEF Held, Recorded, SizeOf
<1>9. \A i \in Held(imageFiles) : imageFiles'[i].size = imageFiles[i].size
                                   /\ imageFiles'[i].record = imageFiles[i].record
  BY <1>4 DEF Held
<1>10. \A S : Bytes(imageFiles', S) = Bytes(imageFiles, S)
  BY <1>8 DEF Bytes
<1>11. FilesType(imageFiles)'
  BY <1>1, <1>7, <1>8 DEF FilesType
<1>12. WriterFits'
  BY <1>1, <1>8, <1>9, <1>10 DEF WriterFits, StoreInv
<1>13. RecordedFit'
  BY <1>8, <1>10 DEF RecordedFit, StoreInv
<1> QED BY <1>11, <1>12, <1>13

(* What every step keeps of the images.                                    *)
LEMMA ImagesStep ==
    ASSUME StoreInv, [AssetNext]_assetVars
    PROVE  FilesType(imageFiles)' /\ WriterFits' /\ RecordedFit'
<1>1. CASE UNCHANGED <<imageFiles, writer>>
  BY <1>1 DEF StoreInv, StoreTypes, FilesType, WriterFits, RecordedFit
<1>2. CASE imageFiles' = imageFiles /\ writer' = NoWriter
  BY <1>2 DEF StoreInv, StoreTypes, FilesType, WriterFits, RecordedFit, NoWriter
<1>3. CASE Maintain
  <2>1. FilesType(imageFiles) /\ writer.pc = "none" /\ writer' = writer
        /\ imageFiles' = Swept(imageFiles)
    BY <1>3 DEF StoreInv, StoreTypes, Maintain
  <2>2. /\ Bytes(imageFiles', Recorded(imageFiles')) <= Bytes(imageFiles, Recorded(imageFiles))
        /\ FilesType(imageFiles')
    BY <2>1, SweptBytes, Sweeping
  <2>3. /\ Bytes(imageFiles', Recorded(imageFiles')) \in Int
        /\ Bytes(imageFiles, Recorded(imageFiles)) \in Int
    BY <2>1, <2>2, BytesOfPart DEF Recorded
  <2> QED BY <2>1, <2>2, <2>3, AssetAssumption DEF WriterFits, RecordedFit, StoreInv
<1> QED BY <1>1, <1>2, <1>3, ImageMoves, BeginKeeps, WriteKeeps, RecordKeeps, FailKeeps,
           TickKeeps

-----------------------------------------------------------------------------
(* A published image stays published.                                      *)
LEMMA PublishedStays ==
    ASSUME StoreInv, [AssetNext]_assetVars, NEW i, Published(i)
    PROVE  Published(i)'
<1> USE AssetAssumption
<1>1. /\ FilesType(imageFiles) /\ i \in ImageRefs /\ imageFiles[i] \in Images
      /\ imageFiles[i] # Missing /\ (imageFiles[i].record \/ Expired(imageFiles[i]))
  BY SizeIsNumber DEF StoreInv, StoreTypes, Published, Held
<1>2. writer.pc # "none" => writer.image # i /\ writer.image \in ImageRefs
  BY DEF StoreInv, WriterFits, Published, Held
<1>3. Missing \notin Images
  OBVIOUS
<1>4. CASE UNCHANGED <<imageFiles, writer>>
  BY <1>4 DEF Published
<1>5. CASE imageFiles' = imageFiles /\ writer' = NoWriter
  BY <1>5 DEF Published, NoWriter
<1>6. CASE Maintain
  <2>1. imageFiles' = Swept(imageFiles) /\ writer.pc = "none" /\ writer' = writer
    BY <1>6 DEF Maintain
  <2>2. FilesType(Swept(imageFiles)) /\ i \in Held(Swept(imageFiles))
    BY <1>1, Sweeping DEF Held
  <2>3. imageFiles'[i] = imageFiles[i] \/ imageFiles'[i] = SweptImage
    BY <1>1, <2>1, Sweeping
  <2>4. Expired(SweptImage)
    BY DEF Expired, SweptImage
  <2> QED BY <1>1, <2>1, <2>2, <2>3, <2>4 DEF Published
<1>7. CASE AssetTick
  <2>1. writer' = writer /\ imageFiles'[i] =
            IF ~Expired(imageFiles[i]) THEN [imageFiles[i] EXCEPT !.age = @ + 1] ELSE imageFiles[i]
    BY <1>1, <1>7 DEF AssetTick
  <2>2. imageFiles'[i] \in Images /\ (imageFiles'[i].record \/ Expired(imageFiles'[i]))
    BY <1>1, <2>1 DEF Images
  <2> QED BY <1>1, <1>2, <1>3, <2>1, <2>2 DEF Published, Held
<1>8. ASSUME NEW k \in ImageRefs, NEW size \in ImageSizes, NEW purpose \in {"cover", "encoded"},
             NEW by \in {"upload", "runner"}, BeginImage(k, purpose, size, by)
      PROVE  Published(i)'
  <2>1. /\ Swept(imageFiles)[k] = Missing /\ writer'.image = k
        /\ \A n \in ImageRefs \ {k} : imageFiles'[n] = Swept(imageFiles)[n]
    BY <1>1, <1>8, Sweeping DEF BeginImage, FilesType
  <2>2. /\ Swept(imageFiles)[i] = imageFiles[i] \/ Swept(imageFiles)[i] = SweptImage
        /\ i \in Held(Swept(imageFiles))
    BY <1>1, Sweeping DEF Held
  <2>3. Expired(SweptImage)
    BY DEF Expired, SweptImage
  <2>4. k # i
    BY <2>1, <2>2 DEF Held
  <2> QED BY <1>1, <2>1, <2>2, <2>3, <2>4 DEF Published, Held
<1>9. CASE WriteImage \/ WriteRecord \/ ImageFails
  <2>1. writer.pc # "none"
    BY <1>9 DEF WriteImage, WriteRecord, ImageFails
  <2>2. imageFiles'[i] = imageFiles[i]
    BY <1>1, <1>2, <1>9, <2>1 DEF WriteImage, WriteRecord, ImageFails, FilesType
  <2>3. writer'.pc # "none" => writer'.image = writer.image
    <3>1. writer \in Writers
      BY DEF StoreInv, AssetTypes
    <3> QED BY <1>9, <3>1 DEF WriteImage, WriteRecord, ImageFails, NoWriter, Writers
  <2> QED BY <1>1, <1>2, <2>1, <2>2, <2>3 DEF Published, Held
<1> QED BY <1>4, <1>5, <1>6, <1>7, <1>8, <1>9, ImageMoves

(* A job that only changes its status.                                     *)
LEMMA StatusOnly ==
    ASSUME inference \in [InferenceJobs -> Requests], NEW j, NEW status,
           inference' = [inference EXCEPT ![j].status = status]
    PROVE  \A k \in InferenceJobs :
               /\ inference'[k].op = inference[k].op
               /\ inference'[k].result = inference[k].result
               /\ inference'[k].status = IF k = j THEN status ELSE inference[k].status
BY DEF Requests

(* No job completes and no image is published: the results stay.           *)
LEMMA ResultsStay ==
    ASSUME StoreInv, [AssetNext]_assetVars, running'.image \in {Missing, running.image},
           \A j \in InferenceJobs : inference'[j].status = "completed" =>
               /\ inference[j].status = "completed"
               /\ inference'[j].op = inference[j].op
               /\ inference'[j].result = inference[j].result
    PROVE  ResultsPublished'
<1>1. ResultsPublished /\ \A i : Published(i) => Published(i)'
  BY PublishedStays DEF StoreInv
<1>2. ASSUME NEW i, i = running'.image, i # Missing PROVE Published(i)'
  BY <1>1, <1>2 DEF ResultsPublished
<1>3. ASSUME NEW j \in InferenceJobs, inference'[j].status = "completed", NEW i,
             i = inference'[j].result
      PROVE  IF inference'[j].op = "encode" THEN Published(i)' ELSE i = Missing
  BY <1>1, <1>3 DEF ResultsPublished
<1> QED BY <1>2, <1>3 DEF ResultsPublished, Published

(* Nothing new is kept in memory, and no job with a text leaves its end.   *)
LEMMA TextsStay ==
    ASSUME TextsFit, texts \subseteq InferenceJobs, texts' \subseteq texts,
           \A j \in InferenceJobs :
               /\ inference'[j].op = inference[j].op \/ inference[j].status = "absent"
               /\ inference[j].status = "completed" => inference'[j].status = "completed"
               /\ (running.job = j /\ running.pc = "complete") =>
                      inference[j].status = "running" /\
                      ((running'.job = j /\ running'.pc = "complete")
                           \/ inference'[j].status = "completed")
    PROVE  TextsFit'
BY DEF TextsFit, Runner

(* What the runner, its jobs, their results and their texts keep.          *)
RunnerPart ==
    /\ running \in Runners /\ texts \subseteq InferenceJobs
    /\ RunnerFits /\ ResultsPublished /\ TextsFit
WriterServes == writer.pc # "none" /\ writer.by = "runner"

(* A step that leaves the jobs and the runner alone.                       *)
LEMMA RunnerRests ==
    ASSUME StoreInv, [AssetNext]_assetVars, inference' = inference, running' = running,
           texts' \subseteq texts, WriterServes' <=> WriterServes
    PROVE  RunnerPart'
<1>1. ResultsPublished'
  BY ResultsStay
<1>2. TextsFit'
  BY DEF StoreInv, TextsFit, Runner
<1>3. RunnerFits' /\ running' \in Runners /\ texts' \subseteq InferenceJobs
  BY DEF StoreInv, StoreTypes, RunnerFits, WriterServes, Mine
<1> QED BY <1>1, <1>2, <1>3 DEF RunnerPart

(* The runner moves on, or to another job, and completes none.             *)
LEMMA RunnerMoves ==
    ASSUME StoreInv, NEW pc \in {"process", "verify", "publish"}, NEW made \in Pairs \cup {Missing},
           running' = [running EXCEPT !.pc = pc, !.made = made],
           running.pc \in {"open", "process", "verify"}, pc \in {"verify", "publish"} => Mine.op = "encode",
           [AssetNext]_assetVars, UNCHANGED <<inference, writer, texts>>
    PROVE  RunnerPart'
<1>1. running \in Runners
  BY DEF StoreInv, StoreTypes
<1>2. running' \in Runners /\ running'.pc = pc /\ running'.job = running.job
      /\ running'.image = running.image
  BY <1>1 DEF Runners
<1>3. ResultsPublished'
  BY <1>2, ResultsStay
<1>4. TextsFit'
  BY <1>2 DEF StoreInv, TextsFit, Runner
<1>5. RunnerFits'
  BY <1>2 DEF StoreInv, RunnerFits, Mine
<1> QED BY <1>2, <1>3, <1>4, <1>5 DEF RunnerPart, StoreInv, StoreTypes

(* A job that runs fails, and the runner is free.                          *)
LEMMA RunnerFails ==
    ASSUME StoreInv, [AssetNext]_assetVars, running.pc \notin {"none", "complete"},
           inference' = [inference EXCEPT ![running.job].status = "failed"],
           running' = NoRunner, texts' = texts, ~WriterServes'
    PROVE  RunnerPart'
<1>1. running.job \in InferenceJobs /\ inference[running.job].status = "running"
      /\ inference \in [InferenceJobs -> Requests] /\ texts \subseteq InferenceJobs /\ TextsFit
  BY DEF StoreInv, RunnerFits, AssetTypes, StoreTypes, Mine
<1>2. \A k \in InferenceJobs :
          /\ inference'[k].op = inference[k].op
          /\ inference'[k].result = inference[k].result
          /\ inference'[k].status = IF k = running.job THEN "failed" ELSE inference[k].status
  BY <1>1, StatusOnly
<1>3. running'.pc = "none" /\ running'.image = Missing /\ running' \in Runners
  BY DEF NoRunner, Runners
<1>4. ResultsPublished'
  BY <1>2, <1>3, ResultsStay
<1>5. TextsFit'
  BY <1>1, <1>2, TextsStay
<1>6. RunnerFits'
  BY <1>3 DEF RunnerFits, WriterServes
<1> QED BY <1>1, <1>3, <1>4, <1>5, <1>6 DEF RunnerPart

(* Jobs come, wait and go while the runner does what it did.               *)
LEMMA QueueMoves ==
    ASSUME StoreInv, [AssetNext]_assetVars, NEW j \in InferenceJobs,
           UNCHANGED <<running, texts, writer>>,
           SaveInference(j) \/ CancelInference(j)
    PROVE  RunnerPart'
<1>1. inference \in [InferenceJobs -> Requests] /\ texts \subseteq InferenceJobs /\ TextsFit
      /\ RunnerFits /\ running \in Runners
  BY DEF StoreInv, AssetTypes, StoreTypes
<1>2. /\ inference[j].status \in {"absent", "queued"}
      /\ inference'[j].status \in {"queued", "cancelled"}
      /\ inference[j].status = "queued" => inference'[j].op = inference[j].op
      /\ \A k \in InferenceJobs \ {j} : inference'[k] = inference[k]
  <2>1. CASE CancelInference(j)
    <3>1. inference' = [inference EXCEPT ![j].status = "cancelled"]
          /\ inference[j].status = "queued"
      BY <2>1 DEF CancelInference
    <3>2. \A k \in InferenceJobs \ {j} : inference'[k] = inference[k]
      BY <1>1, <3>1
    <3>3. inference'[j].status = "cancelled" /\ inference'[j].op = inference[j].op
      BY <1>1, <3>1, StatusOnly
    <3> QED BY <3>1, <3>2, <3>3
  <2>2. CASE SaveInference(j)
    BY <1>1, <2>2 DEF SaveInference, StoreInv, AssetTypes, Requests
  <2> QED BY <2>1, <2>2
<1>3. running.pc # "none" => running.job \in InferenceJobs \ {j}
                                 /\ inference[running.job].status = "running"
  BY <1>1, <1>2 DEF RunnerFits, Mine
<1>4. ResultsPublished'
  BY <1>1, <1>2, ResultsStay
<1>5. TextsFit'
  BY <1>1, <1>2, <1>3 DEF TextsFit, Runner
<1>6. RunnerFits'
  BY <1>1, <1>2, <1>3 DEF RunnerFits, Mine
<1> QED BY <1>1, <1>4, <1>5, <1>6 DEF RunnerPart

(* A job gets a runner that has nothing yet.                               *)
LEMMA StartMoves ==
    ASSUME StoreInv, [AssetNext]_assetVars, NEW j \in InferenceJobs, StartInference(j)
    PROVE  RunnerPart'
<1>1. inference \in [InferenceJobs -> Requests] /\ texts \subseteq InferenceJobs /\ TextsFit
      /\ RunnerFits
  BY DEF StoreInv, AssetTypes, StoreTypes
<1>2. /\ running.pc = "none" /\ inference[j].status = "queued" /\ texts' = texts
      /\ inference' = [inference EXCEPT ![j].status = "running"] /\ writer' = writer
      /\ running' = [NoRunner EXCEPT !.pc = "open", !.job = j]
  BY DEF StartInference, Runner
<1>3. running'.pc = "open" /\ running'.job = j /\ running'.image = Missing /\ running' \in Runners
  BY <1>2 DEF NoRunner, Runners
<1>4. \A k \in InferenceJobs :
          /\ inference'[k].op = inference[k].op
          /\ inference'[k].result = inference[k].result
          /\ inference'[k].status = IF k = j THEN "running" ELSE inference[k].status
  BY <1>1, <1>2, StatusOnly
<1>5. ResultsPublished'
  BY <1>3, <1>4, ResultsStay
<1>6. TextsFit'
  BY <1>1, <1>2, <1>4, TextsStay
<1>7. RunnerFits'
  BY <1>1, <1>2, <1>3, <1>4 DEF RunnerFits, Mine
<1> QED BY <1>1, <1>2, <1>3, <1>5, <1>6, <1>7 DEF RunnerPart

(* A decode has its text, and is about to complete.                        *)
LEMMA DecodeEnds ==
    ASSUME StoreInv, [AssetNext]_assetVars, running.pc = "process", Mine.op = "decode",
           running' = [running EXCEPT !.pc = "complete"], texts' = texts \cup {running.job},
           UNCHANGED <<inference, writer>>
    PROVE  RunnerPart'
<1>1. running \in Runners /\ RunnerFits /\ texts \subseteq InferenceJobs /\ TextsFit
  BY DEF StoreInv, StoreTypes
<1>2. running' \in Runners /\ running'.pc = "complete" /\ running'.job = running.job
      /\ running'.image = running.image
  BY <1>1 DEF Runners
<1>3. running.job \in InferenceJobs /\ running.image = Missing
      /\ inference[running.job].op = "decode"
  BY <1>1 DEF RunnerFits, Mine
<1>4. ResultsPublished'
  BY <1>2, ResultsStay
<1>5. TextsFit'
  BY <1>1, <1>2, <1>3 DEF TextsFit, Runner
<1>6. RunnerFits'
  BY <1>1, <1>2, <1>3 DEF RunnerFits, Mine
<1> QED BY <1>1, <1>2, <1>3, <1>4, <1>5, <1>6 DEF RunnerPart

(* The image of an encode gets its record.                                 *)
LEMMA EncodeEnds ==
    ASSUME StoreInv, [AssetNext]_assetVars, WriteRecord, writer.by = "runner"
    PROVE  RunnerPart'
<1>1. running \in Runners /\ RunnerFits /\ texts \subseteq InferenceJobs /\ TextsFit
      /\ FilesType(imageFiles) /\ ResultsPublished
  BY DEF StoreInv, StoreTypes
<1>2. /\ running' = [running EXCEPT !.pc = "complete", !.image = writer.image]
      /\ writer.pc = "record" /\ writer' = NoWriter /\ UNCHANGED <<inference, texts>>
      /\ imageFiles' = [imageFiles EXCEPT ![writer.image].record = TRUE]
  BY DEF queue, WriteRecord
<1>3. writer.image \in Held(imageFiles)
  BY <1>2 DEF StoreInv, WriterFits
<1>4. writer.image \in ImageRefs /\ writer.image # Missing
  BY <1>3, AssetAssumption DEF Held
<1>5. /\ running.pc = "saving" /\ running.job \in InferenceJobs
      /\ inference[running.job].op = "encode" /\ inference[running.job].status = "running"
  BY <1>1, <1>2 DEF RunnerFits, Mine
<1>6. running' \in Runners /\ running'.pc = "complete" /\ running'.job = running.job
      /\ running'.image = writer.image
  BY <1>1, <1>2, <1>4 DEF Runners
<1>7. ASSUME NEW i, i = writer.image PROVE Published(i)'
  <2>1. imageFiles[i] \in Images
    BY <1>1, <1>3, <1>7, SizeIsNumber
  <2>2. imageFiles'[i].record
    BY <1>1, <1>2, <1>4, <1>7, <2>1 DEF FilesType, Images
  <2>3. i \in Held(imageFiles')
    <3>1. Held(imageFiles)' = Held(imageFiles') /\ FilesType(imageFiles')
      BY ImagesStep
    <3>2. imageFiles'[i] # Missing
      <4>1. imageFiles'[i] = [imageFiles[i] EXCEPT !.record = TRUE]
        BY <1>1, <1>2, <1>4, <1>7 DEF FilesType
      <4>2. imageFiles'[i] \in Images
        BY <2>1, <4>1 DEF Images
      <4> QED BY <4>2, AssetAssumption
    <3> QED BY <1>4, <1>7, <3>2 DEF Held
  <2> QED BY <1>2, <2>2, <2>3 DEF Published, NoWriter
<1>8. ASSUME NEW j \in InferenceJobs, inference[j].status = "completed", NEW i,
             i = inference[j].result
      PROVE  IF inference[j].op = "encode" THEN Published(i)' ELSE i = Missing
  BY <1>1, <1>8, PublishedStays DEF ResultsPublished
<1>9. ResultsPublished'
  BY <1>2, <1>6, <1>7, <1>8 DEF ResultsPublished, Published
<1>10. TextsFit'
  BY <1>1, <1>2, <1>5, <1>6 DEF TextsFit, Runner
<1>11. RunnerFits'
  BY <1>2, <1>4, <1>5, <1>6 DEF RunnerFits, Mine, NoWriter
<1> QED BY <1>1, <1>2, <1>6, <1>9, <1>10, <1>11 DEF RunnerPart

(* A job completes with the image or the text it has.                      *)
LEMMA CompletionKeeps ==
    ASSUME StoreInv, [AssetNext]_assetVars, CompleteInference
    PROVE  RunnerPart'
<1> DEFINE j == running.job
<1>1. running \in Runners /\ RunnerFits /\ texts \subseteq InferenceJobs /\ TextsFit
      /\ ResultsPublished /\ inference \in [InferenceJobs -> Requests]
  BY DEF StoreInv, StoreTypes, AssetTypes
<1>2. /\ running.pc = "complete" /\ running' = NoRunner /\ UNCHANGED <<texts, writer>>
      /\ inference' = [inference EXCEPT ![j].status = "completed", ![j].result = running.image]
  BY DEF CompleteInference, Runner
<1>3. /\ j \in InferenceJobs /\ inference[j].status = "running"
      /\ running.image = Missing <=> inference[j].op = "decode"
      /\ inference[j].op \in {"encode", "decode"}
  <2>1. j \in InferenceJobs /\ inference[j].status = "running"
        /\ (running.image = Missing <=> inference[j].op = "decode")
    BY <1>1, <1>2 DEF RunnerFits, Mine
  <2> QED BY <1>1, <2>1 DEF Requests
<1>4. /\ inference'[j].status = "completed" /\ inference'[j].op = inference[j].op
      /\ inference'[j].result = running.image
      /\ \A k \in InferenceJobs \ {j} : inference'[k] = inference[k]
  <2>1. inference' = [inference EXCEPT ![j] =
                          [[@ EXCEPT !.status = "completed"] EXCEPT !.result = running.image]]
    BY <1>2
  <2> DEFINE done == [[inference[j] EXCEPT !.status = "completed"] EXCEPT !.result = running.image]
  <2>2. done.status = "completed" /\ done.op = inference[j].op /\ done.result = running.image
    BY <1>1, <1>3 DEF Requests
  <2>3. inference' = [inference EXCEPT ![j] = done]
    BY <2>1
  <2> HIDE DEF done, j
  <2> QED BY <1>1, <1>3, <2>2, <2>3
<1> HIDE DEF j
<1>5. running'.pc = "none" /\ running'.image = Missing /\ running' \in Runners
  BY <1>2 DEF NoRunner, Runners
<1>6. ASSUME NEW k \in InferenceJobs, inference'[k].status = "completed", NEW i,
             i = inference'[k].result
      PROVE  IF inference'[k].op = "encode" THEN Published(i)' ELSE i = Missing
  <2>1. CASE k = j
    <3>1. running.image # Missing /\ i = running.image => Published(i)
      BY <1>1 DEF ResultsPublished
    <3> QED BY <1>3, <1>4, <1>6, <2>1, <3>1, PublishedStays
  <2>2. CASE k # j
    <3>1. inference'[k] = inference[k]
      BY <1>4, <2>2
    <3>2. IF inference[k].op = "encode" THEN Published(i) ELSE i = Missing
      BY <1>1, <1>6, <3>1 DEF ResultsPublished
    <3> QED BY <3>1, <3>2, PublishedStays
  <2> QED BY <2>1, <2>2
<1>7. ResultsPublished'
  BY <1>5, <1>6 DEF ResultsPublished, Published
<1>8. TextsFit'
  BY <1>1, <1>2, <1>3, <1>4 DEF TextsFit, Runner, j
<1>9. RunnerFits'
  BY <1>1, <1>2, <1>5 DEF RunnerFits
<1> QED BY <1>1, <1>2, <1>5, <1>7, <1>8, <1>9 DEF RunnerPart

(* After a restart nothing runs, and what had completed still has.         *)
LEMMA RestartKeeps ==
    ASSUME StoreInv, [AssetNext]_assetVars, RestartApplication
    PROVE  RunnerPart'
<1>1. inference \in [InferenceJobs -> Requests]
  BY DEF StoreInv, AssetTypes
<1>2. running' = NoRunner /\ writer' = NoWriter /\ texts' = {}
  BY DEF RestartApplication
<1>3. \A j \in InferenceJobs : inference'[j].status = "completed" => inference'[j] = inference[j]
  BY <1>1 DEF RestartApplication, Requests
<1>4. running'.pc = "none" /\ running'.image = Missing /\ running' \in Runners
  BY <1>2 DEF NoRunner, Runners
<1>5. ResultsPublished'
  BY <1>3, <1>4, ResultsStay
<1>6. TextsFit' /\ RunnerFits'
  BY <1>2, <1>4 DEF TextsFit, RunnerFits, NoWriter
<1> QED BY <1>2, <1>4, <1>5, <1>6 DEF RunnerPart

(* Every step of the application is one of these.                          *)
LEMMA RunnerStep ==
    ASSUME StoreInv, [AssetNext]_assetVars
    PROVE  RunnerPart'
<1>1. running \in Runners /\ writer \in Writers /\ RunnerFits
  BY DEF StoreInv, StoreTypes, AssetTypes
<1>2. ASSUME UNCHANGED <<inference, running, writer>>, texts' \subseteq texts
      PROVE  RunnerPart'
  BY <1>2, RunnerRests DEF WriterServes
<1>3. CASE UNCHANGED assetVars
  BY <1>2, <1>3 DEF assetVars
<1>4. ASSUME NEW m \in ModelNames,
             \/ \E p \in Pairs : ExportModels(m, p)
             \/ DeleteExport(m) \/ LookAtJobs(m)
             \/ \E r \in InstallRequests : Install(r, m)
      PROVE  RunnerPart'
  BY <1>2, <1>4 DEF queue, ExportModels, DeleteExport, LookAtJobs, Install
<1>5. CASE RemoveModel \/ RefuseInference \/ Maintain \/ AssetTick
  BY <1>2, <1>5 DEF RemoveModel, RefuseInference, Maintain, AssetTick, queue
<1>6. ASSUME NEW i \in ImageRefs, NEW size \in ImageSizes, NEW purpose \in {"cover", "encoded"},
             UploadImage(i, purpose, size)
      PROVE  RunnerPart'
  <2>1. UNCHANGED <<inference, running, texts>> /\ ~WriterServes /\ ~WriterServes'
    BY <1>6 DEF queue, UploadImage, BeginImage, WriterServes
  <2> QED BY <2>1, RunnerRests
<1>7. ASSUME NEW i \in ImageRefs, NEW size \in ImageSizes, PublishResult(i, size)
      PROVE  RunnerPart'
  <2>1. /\ running.pc = "publish" /\ running' = [running EXCEPT !.pc = "saving"]
        /\ writer'.pc = "write" /\ writer'.by = "runner" /\ UNCHANGED <<inference, texts>>
    BY <1>7 DEF queue, PublishResult, BeginImage, Runner, RunnerTo
  <2>2. running' \in Runners /\ running'.pc = "saving" /\ running'.job = running.job
        /\ running'.image = running.image
    BY <1>1, <2>1 DEF Runners
  <2>3. ResultsPublished'
    BY <2>1, <2>2, ResultsStay
  <2>4. TextsFit' /\ RunnerFits' /\ texts' \subseteq InferenceJobs
    BY <2>1, <2>2 DEF StoreInv, StoreTypes, TextsFit, RunnerFits, Runner, Mine
  <2> QED BY <2>2, <2>3, <2>4 DEF RunnerPart
<1>8. CASE WriteImage
  <2>1. writer'.pc = "record" /\ writer'.by = writer.by /\ writer.pc = "write"
        /\ UNCHANGED <<inference, running, texts>>
    BY <1>1, <1>8 DEF queue, WriteImage, Writers
  <2> QED BY <2>1, RunnerRests DEF WriterServes
<1>9. CASE WriteRecord
  <2>1. CASE writer.by = "runner"
    BY <1>9, <2>1, EncodeEnds
  <2>2. CASE writer.by # "runner"
    BY <1>9, <2>2, RunnerRests DEF queue, WriteRecord, WriterServes, NoWriter
  <2> QED BY <2>1, <2>2
<1>10. CASE ImageFails
  <2>1. CASE writer.by = "runner"
    <3>1. running.pc = "saving"
      BY <1>1, <1>10, <2>1 DEF RunnerFits, ImageFails
    <3>2. /\ running' = [running EXCEPT !.pc = "failed"] /\ writer'.pc = "none"
          /\ UNCHANGED <<inference, texts>>
      BY <1>10, <2>1 DEF ImageFails, NoWriter, queue
    <3>3. running' \in Runners /\ running'.pc = "failed" /\ running'.job = running.job
          /\ running'.image = running.image
      BY <1>1, <3>2 DEF Runners
    <3>4. ResultsPublished'
      BY <3>2, <3>3, ResultsStay
    <3>5. TextsFit' /\ RunnerFits' /\ texts' \subseteq InferenceJobs
      BY <3>1, <3>2, <3>3 DEF StoreInv, StoreTypes, TextsFit, RunnerFits, Runner, Mine
    <3> QED BY <3>3, <3>4, <3>5 DEF RunnerPart
  <2>2. CASE writer.by # "runner"
    BY <1>10, <2>2, RunnerRests DEF queue, ImageFails, WriterServes, NoWriter
  <2> QED BY <2>1, <2>2
<1>11. ASSUME NEW j \in InferenceJobs, SaveInference(j) \/ CancelInference(j) PROVE RunnerPart'
  <2>1. UNCHANGED <<running, texts, writer>>
    BY <1>11 DEF SaveInference, CancelInference
  <2> QED BY <1>11, <2>1, QueueMoves
<1>11a. ASSUME NEW op \in {"encode", "decode"}, NEW i \in ImageRefs, NEW m \in ModelNames,
              AdmitInference(op, i, m)
       PROVE  RunnerPart'
  BY <1>2, <1>11a DEF AdmitInference
<1>12. ASSUME NEW j \in InferenceJobs, DiscardText(j) PROVE RunnerPart'
  BY <1>2, <1>12 DEF queue, DiscardText
<1>13. ASSUME NEW pc \in {"process", "verify", "publish"}, NEW made \in Pairs \cup {Missing},
              running' = [running EXCEPT !.pc = pc, !.made = made],
              running.pc \in {"open", "process", "verify"},
              pc \in {"verify", "publish"} => Mine.op = "encode",
              UNCHANGED <<inference, writer, texts>>
       PROVE  RunnerPart'
  BY <1>13, RunnerMoves
<1>14. \A pc : [running EXCEPT !.pc = pc] = [running EXCEPT !.pc = pc, !.made = running.made]
  BY <1>1 DEF Runners
<1>15. running.made \in Pairs \cup {Missing}
  BY <1>1 DEF Runners
<1>16. CASE OpenInputs
  BY <1>13, <1>14, <1>15, <1>16 DEF queue, OpenInputs, Runner, RunnerTo
<1>17. CASE VerifyEncoding
  BY <1>1, <1>13, <1>14, <1>15, <1>17 DEF queue, VerifyEncoding, Runner, RunnerTo, RunnerFits
<1>18. CASE RunPackage
  <2>1. CASE Mine.op = "encode"
    <3>1. running' = [running EXCEPT !.pc = "verify", !.made = pairs[Mine.model]]
          /\ running.pc = "process" /\ UNCHANGED <<inference, writer, texts>>
      BY <1>18, <2>1 DEF queue, RunPackage, Runner
    <3>2. pairs[Mine.model] \in Pairs \cup {Missing}
      <4>1. inference \in [InferenceJobs -> Requests] /\ running.job \in InferenceJobs
            /\ pairs \in [ModelNames -> Pairs \cup {Missing}]
        BY <1>1, <3>1 DEF StoreInv, AssetTypes, RunnerFits
      <4>2. inference[running.job].status = "running"
        BY <1>1, <3>1 DEF RunnerFits, Mine
      <4>3. Mine.model \in ModelNames
        BY <4>1, <4>2 DEF StoreInv, RequestsFit, ModelKept, Mine, Active
      <4> QED BY <4>1, <4>3
    <3> DEFINE made == pairs[Mine.model]
    <3>3. running' = [running EXCEPT !.pc = "verify", !.made = made] /\ made \in Pairs \cup {Missing}
      BY <3>1, <3>2
    <3> HIDE DEF made
    <3> QED BY <1>13, <2>1, <3>1, <3>3
  <2>2. CASE Mine.op # "encode"
    <3>1. running.pc = "process" /\ running' = [running EXCEPT !.pc = "complete"]
          /\ texts' = texts \cup {running.job} /\ UNCHANGED <<inference, writer>>
      BY <1>18, <2>2 DEF queue, RunPackage, Runner, RunnerTo
    <3>2. Mine.op = "decode"
      BY <1>1, <2>2, <3>1 DEF StoreInv, AssetTypes, RunnerFits, Mine, Requests
    <3> QED BY <3>1, <3>2, DecodeEnds
  <2> QED BY <2>1, <2>2
<1>19. CASE InferenceFails
  <2>1. ~WriterServes'
    BY <1>1, <1>19 DEF InferenceFails, RunnerFits, WriterServes
  <2> QED BY <1>19, <2>1, RunnerFails DEF InferenceFails
<1> QED BY <1>3, <1>4, <1>5, <1>6, <1>7, <1>8, <1>9, <1>10, <1>11, <1>12, <1>16, <1>17, <1>18,
           <1>19, <1>11a, StartMoves, CompletionKeeps, RestartKeeps DEF AssetNext

-----------------------------------------------------------------------------
(* The strengthening holds at the start and every step preserves it.       *)
LEMMA StoreStart == AssetInit => StoreInv
<1> SUFFICES ASSUME AssetInit PROVE StoreInv
  OBVIOUS
<1>1. AssetTypes /\ RequestsFit
  BY ModelStart DEF ModelInv
<1>2. Held(imageFiles) = {} /\ Recorded(imageFiles) = {}
      /\ imageFiles \in [ImageRefs -> Images \cup {Missing}]
  BY DEF AssetInit, Held, Recorded
<1>3. running \in Runners /\ running.pc = "none" /\ running.image = Missing /\ texts = {}
      /\ writer.pc = "none"
  BY DEF AssetInit, NoRunner, Runners, NoWriter
<1>4. \A j \in InferenceJobs : inference[j].status = "absent"
  BY DEF AssetInit, NoInference
<1>5. RecordedFit
  BY <1>2, SumEmpty, AssetAssumption DEF RecordedFit, Bytes
<1>6. StoreTypes
  BY <1>2, <1>3, FS_EmptySet DEF StoreTypes, FilesType
<1>7. RunnerFits /\ WriterFits /\ ResultsPublished /\ TextsFit
  BY <1>3, <1>4 DEF RunnerFits, WriterFits, ResultsPublished, TextsFit
<1> QED BY <1>1, <1>5, <1>6, <1>7 DEF StoreInv

LEMMA StoreStep ==
    ASSUME ModelInv, StoreInv, [AssetNext]_assetVars
    PROVE  StoreInv'
<1>1. AssetTypes' /\ RequestsFit'
  BY ModelStep DEF ModelInv
<1>2. RunnerPart' /\ FilesType(imageFiles)' /\ WriterFits' /\ RecordedFit'
  BY RunnerStep, ImagesStep
<1> QED BY <1>1, <1>2 DEF StoreInv, StoreTypes, RunnerPart

(* What it says of the property: the images with a record are what is used *)
(* without the images that have none.                                      *)
LEMMA StoreBounded == StoreInv => StoredImagesBounded
<1> SUFFICES ASSUME StoreInv PROVE StoredImagesBounded
  OBVIOUS
<1> DEFINE rest == {i \in ImageRefs : imageFiles[i] # Missing /\ ~imageFiles[i].record}
           held == Held(imageFiles)
           kept == Recorded(imageFiles)
<1>1. FilesType(imageFiles) /\ RecordedFit /\ ResultsPublished /\ TextsFit
  BY DEF StoreInv, StoreTypes
<1>2. rest \in SUBSET held /\ held \in SUBSET held /\ held \ rest = kept
  BY <1>1 DEF FilesType, Held, Recorded
<1>3. UsedBytes(imageFiles) = Bytes(imageFiles, held)
  BY <1>1, UsedIsBytes
<1> HIDE DEF rest, held, kept
<1>4. MapThenSumSet(LAMBDA i : imageFiles[i].size, rest) = Bytes(imageFiles, rest)
  <2>1. IsFiniteSet(rest)
    BY <1>1, <1>2, BytesOfPart DEF held
  <2> QED BY <1>2, <2>1, BytesAreSum DEF held
<1>5. Bytes(imageFiles, held) = Bytes(imageFiles, rest) + Bytes(imageFiles, kept)
  <2>1. IsFiniteSet(held) /\ \A i \in held : SizeOf(imageFiles)[i] \in Int
    BY <1>1, SizeIsNumber DEF FilesType, held
  <2> QED BY <1>2, <2>1, SumParts DEF Bytes
<1>6. Bytes(imageFiles, rest) \in Int /\ Bytes(imageFiles, kept) \in Int
  BY <1>1, <1>2, BytesOfPart DEF held
<1>7. Bytes(imageFiles, kept) <= StorageCap
  BY <1>1 DEF RecordedFit, kept
<1>8. UsedBytes(imageFiles) - Bytes(imageFiles, rest) <= StorageCap
  BY <1>3, <1>5, <1>6, <1>7, AssetAssumption
<1>9. UsedBytes(imageFiles) - MapThenSumSet(LAMBDA i : imageFiles[i].size,
          {i \in ImageRefs : imageFiles[i] # Missing /\ ~imageFiles[i].record}) <= StorageCap
  BY <1>4, <1>8, Zenon DEF rest
<1>10. \A j \in InferenceJobs : inference[j].status = "completed" =>
           IF inference[j].op = "encode"
           THEN LET f == imageFiles[inference[j].result] IN f.record \/ Expired(f)
           ELSE inference[j].result = Missing
  BY <1>1 DEF ResultsPublished, Published
<1> QED BY <1>1, <1>9, <1>10, Zenon DEF StoredImagesBounded, TextsFit

(* The image store stays within its limit whatever is uploaded, made,      *)
(* swept or lost in a restart; a completed encode has its image until the  *)
(* image expires, and a text belongs to a decode that completes.           *)
THEOREM StoreIsBounded == AssetSpec => []StoredImagesBounded
<1>1. AssetInit => ModelInv /\ StoreInv
  BY ModelStart, StoreStart
<1>2. (ModelInv /\ StoreInv) /\ [AssetNext]_assetVars => (ModelInv /\ StoreInv)'
  BY ModelStep, StoreStep
<1>3. StoreInv => StoredImagesBounded
  BY StoreBounded
<1> QED BY <1>1, <1>2, <1>3, PTL DEF AssetSpec
=============================================================================
