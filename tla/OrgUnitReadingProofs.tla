------------------------- MODULE OrgUnitReadingProofs ------------------------
(***************************************************************************)
(* Iterating over the children of a unit, page by page, returns each of    *)
(* them that is there throughout, once, for any units, any limits and any  *)
(* changes of the tree between the pages and between the two statements of *)
(* a page.                                                                 *)
(*                                                                         *)
(* The ways to look up and down the tree agree.  Each of them is a closure *)
(* under steps from place to place.  That it is the least closed set takes *)
(* a count: every round of the recursive query that is not the last finds  *)
(* a place, and there are no more rounds than units.  From then on, what   *)
(* is above a unit is a chain, and, in a tree, a chain without repetition. *)
(***************************************************************************)
EXTENDS OrgUnitReading, OrgUnitTreeProofs, FiniteSetTheorems, TLAPS

\* What lies at or before the cursor has been handed out, if it was there.
Reached ==
  /\ steady \subseteq Children(of, Today)
  /\ page \cap returned = {}
  /\ cursor = Start => page = {} /\ returned = {}
  /\ cursor \in Units =>
       /\ \A u \in returned \cup page : Rank[u] =< Rank[cursor]
       /\ \A u \in steady : Rank[u] =< Rank[cursor] => u \in returned \cup page
  /\ cursor = End => steady \subseteq returned \cup page

ReadingInv == ReadingTypeOK /\ Reached

\* A page is empty only if nothing lies beyond the cursor.
LEMMA EmptyPage ==
  ASSUME NEW M, IsFiniteSet(M), NEW n \in Nat \ {0}, IsPage({}, M, n)
  PROVE  M = {}
<1>1. Cardinality({}) = 0 /\ (Cardinality(M) = 0 <=> M = {}) /\ Cardinality(M) \in Nat
  BY FS_EmptySet, FS_CardinalityType
<1>2. 0 = IF Cardinality(M) =< n THEN Cardinality(M) ELSE n
  BY <1>1 DEF IsPage
<1>3. Cardinality(M) = 0
  BY <1>1, <1>2
<1>4. QED
  BY <1>1, <1>3

LEMMA InitReads == ReadingInit => ReadingInv
BY ReadingAssumption DEF ReadingInit, ReadingInv, ReadingTypeOK, Reached, Places

LEMMA BeginReads ==
  ASSUME ReadingInv, NEW p \in Places, Begin(p)
  PROVE  ReadingInv'
BY ReadingAssumption
DEF ReadingInv, ReadingTypeOK, Reached, Begin, Children, vars, Places

LEMMA PaginateReads ==
  ASSUME ReadingInv, NEW n \in Limits, Paginate(n)
  PROVE  ReadingInv'
<1> DEFINE M == Children(of, Today)
<1> DEFINE B == Beyond(M)
<1>1. PICK P \in SUBSET B :
        /\ IsPage(P, B, n)
        /\ page' = P
        /\ IF P # {} /\ P # B
           THEN \E last \in P : (\A u \in P : Rank[u] =< Rank[last]) /\ cursor' = last
           ELSE cursor' = End
  BY DEF Paginate
<1>2. /\ cursor # End /\ page = {}
      /\ of' = of /\ returned' = returned /\ steady' = steady
      /\ active' = active /\ parent' = parent
  BY DEF Paginate, vars
<1>3. /\ M \subseteq Units /\ B \subseteq M /\ P \subseteq Units
      /\ steady \subseteq M
      /\ returned \subseteq Units
      /\ \A u \in Units : Rank[u] \in Nat
  BY ReadingAssumption DEF Children, Beyond, ReadingInv, Reached, ReadingTypeOK
<1>4. /\ cursor = Start => returned = {}
      /\ cursor \in Units \/ cursor = Start
  BY <1>2 DEF ReadingInv, Reached, ReadingTypeOK
<1>5. ASSUME NEW u \in returned, NEW v \in B
      PROVE  Rank[u] < Rank[v]
  <2>1. cursor \in Units
    BY <1>4
  <2>2. Rank[u] =< Rank[cursor]
    BY <2>1 DEF ReadingInv, Reached
  <2>3. Rank[cursor] < Rank[v]
    BY <2>1, ReadingAssumption DEF Beyond
  <2>4. QED
    BY <1>3, <2>1, <2>2, <2>3
<1>6. page' \cap returned' = {}
  <2>1. SUFFICES ASSUME NEW u \in P, u \in returned
                 PROVE  FALSE
    BY <1>1, <1>2
  <2>2. Rank[u] < Rank[u] /\ Rank[u] \in Nat
    BY <1>3, <1>5, <2>1
  <2>3. QED
    BY <2>2
<1>7. ASSUME NEW u \in steady
      PROVE  u \in B \/ u \in returned
  <2>1. CASE cursor = Start
    BY <1>3, <2>1 DEF Beyond
  <2>2. CASE cursor \in Units
    <3>1. CASE Rank[u] =< Rank[cursor]
      BY <1>2, <2>2, <3>1 DEF ReadingInv, Reached
    <3>2. CASE ~(Rank[u] =< Rank[cursor])
      <4>1. Rank[u] > Rank[cursor]
        BY <1>3, <2>2, <3>2
      <4>2. QED
        BY <1>3, <2>2, <4>1, ReadingAssumption DEF Beyond
    <3>3. QED
      BY <3>1, <3>2
  <2>3. QED
    BY <1>4, <2>1, <2>2
<1>8. steady' \subseteq Children(of, Today)'
  BY <1>2, <1>3 DEF Children
<1>9. CASE P # {} /\ P # B
  <2>1. PICK last \in P : (\A u \in P : Rank[u] =< Rank[last]) /\ cursor' = last
    BY <1>1, <1>9
  <2>2. cursor' \in Units /\ cursor' # Start /\ cursor' # End
    BY <1>3, <2>1, ReadingAssumption
  <2>3. ASSUME NEW u \in returned' \cup page'
        PROVE  Rank[u] =< Rank[cursor']
    <3>1. CASE u \in P
      BY <2>1, <3>1
    <3>2. CASE u \in returned
      BY <1>3, <1>5, <2>1, <3>2
    <3>3. QED
      BY <1>1, <1>2, <3>1, <3>2
  <2>4. ASSUME NEW u \in steady', Rank[u] =< Rank[cursor']
        PROVE  u \in returned' \cup page'
    <3>1. CASE u \in returned
      BY <1>2, <3>1
    <3>2. CASE u \in B
      <4>1. u \notin P => Rank[last] < Rank[u]
        BY <1>1, <2>1, <3>2 DEF IsPage
      <4>2. QED
        BY <1>1, <1>3, <2>1, <2>4, <3>2, <4>1
    <3>3. QED
      BY <1>2, <1>7, <3>1, <3>2
  <2>5. QED
    BY <1>1, <1>2, <1>3, <1>6, <1>8, <2>2, <2>3, <2>4
    DEF ReadingInv, ReadingTypeOK, Reached
<1>10. CASE ~(P # {} /\ P # B)
  <2>1. cursor' = End
    BY <1>1, <1>10
  <2>2. P = B
    <3>1. SUFFICES ASSUME P = {}
                   PROVE  B = {}
      BY <1>10
    <3>2. IsFiniteSet(B)
      BY <1>3, FS_Subset, ReadingAssumption
    <3>3. n \in Nat \ {0}
      BY ReadingAssumption
    <3>4. IsPage({}, B, n)
      BY <1>1, <3>1
    <3>5. QED
      BY <3>2, <3>3, <3>4, EmptyPage
  <2>3. steady' \subseteq returned' \cup page'
    BY <1>1, <1>2, <1>7, <2>2
  <2>4. End \notin Units /\ End # Start
    BY ReadingAssumption
  <2>5. QED
    BY <1>1, <1>2, <1>3, <1>6, <1>8, <2>1, <2>3, <2>4
    DEF ReadingInv, ReadingTypeOK, Reached
<1>11. QED
  BY <1>9, <1>10

\* What was there throughout is still there when the objects are loaded.
LEMMA LoadReads ==
  ASSUME ReadingInv, Load
  PROVE  ReadingInv'
<1>1. \A u \in steady : Today \in active[u]
  BY DEF ReadingInv, Reached, Children
<1>2. /\ page' = {} /\ of' = of /\ cursor' = cursor /\ steady' = steady
      /\ returned' = returned \cup {u \in page : Today \in active[u]}
      /\ active' = active /\ parent' = parent /\ page # {}
  BY DEF Load, vars
<1>3. ReadingTypeOK'
  BY <1>2 DEF ReadingInv, ReadingTypeOK
<1>4. cursor # Start
  BY <1>2 DEF ReadingInv, Reached
<1>5. \A u \in steady : u \in returned \cup page => u \in returned' \cup page'
  BY <1>1, <1>2
<1>6. returned' \subseteq returned \cup page
  BY <1>2
<1>7. steady' \subseteq Children(of, Today)'
  BY <1>2 DEF ReadingInv, Reached, Children
<1>8. QED
  BY <1>2, <1>3, <1>4, <1>5, <1>6, <1>7 DEF ReadingInv, Reached

LEMMA WriteReads ==
  ASSUME ReadingInv, Write
  PROVE  ReadingInv'
<1>1. /\ of' = of /\ cursor' = cursor /\ page' = page /\ returned' = returned
      /\ steady' = {u \in steady : Today \in active'[u] /\ parent'[u][Today] = of}
  BY DEF Write
<1>2. steady' \subseteq steady /\ steady' \subseteq Children(of, Today)'
  BY <1>1 DEF Children, ReadingInv, ReadingTypeOK
<1>3. QED
  BY <1>1, <1>2 DEF ReadingInv, ReadingTypeOK, Reached

\* paginate: a client that follows the cursors to the end has been returned,
\* exactly once, every child that was there from the first page to the last.
THEOREM IterationIsComplete == ReadingSpec => []PagesComplete
<1>1. Init /\ ReadingInit => ReadingInv
  BY InitReads
<1>2. ReadingInv /\ [ReadingNext]_<<vars, readVars>> => ReadingInv'
  <2>1. SUFFICES ASSUME ReadingInv, [ReadingNext]_<<vars, readVars>>
                 PROVE  ReadingInv'
    OBVIOUS
  <2>2. CASE \E p \in Places : Begin(p)
    BY <2>1, <2>2, BeginReads
  <2>3. CASE \E n \in Limits : Paginate(n)
    BY <2>1, <2>3, PaginateReads
  <2>4. CASE Load
    BY <2>1, <2>4, LoadReads
  <2>5. CASE Write
    BY <2>1, <2>5, WriteReads
  <2>6. CASE UNCHANGED <<vars, readVars>>
    BY <2>1, <2>6
    DEF vars, readVars, ReadingInv, ReadingTypeOK, Reached, Children
  <2>7. QED
    BY <2>1, <2>2, <2>3, <2>4, <2>5, <2>6 DEF ReadingNext
<1>3. ReadingInv => PagesComplete
  BY DEF ReadingInv, Reached, PagesComplete
<1>4. QED
  BY <1>1, <1>2, <1>3, PTL DEF ReadingSpec
----------------------------------------------------------------------------
\* Steps from places to places, and sets that they do not leave.
Steps == [Places -> SUBSET Places]
After(S, steps) == S \cup UNION {steps[x] : x \in S}
Closed(S, steps) == \A x \in S : steps[x] \subseteq S

\* The first m rounds of a recursive query.
Rounds(f, base, steps, m) ==
  f = [n \in 0 .. m |-> IF n = 0 THEN base ELSE After(f[n - 1], steps)]

LEMMA RoundsExist ==
  ASSUME NEW base, NEW steps, NEW m \in Nat
  PROVE  \E f : Rounds(f, base, steps, m)
<1>. DEFINE T == {k \in Nat : ~ \E f : Rounds(f, base, steps, k)}
<1>1. SUFFICES ASSUME T # {} PROVE FALSE
  OBVIOUS
<1>2. PICK k \in T : \A i \in T : k =< i
  BY <1>1, MinExists
<1>3. CASE k = 0
  <2>1. PICK f : f = [n \in 0 .. 0 |-> base]
    OBVIOUS
  <2>2. f = [n \in 0 .. 0 |-> IF n = 0 THEN base ELSE After(f[n - 1], steps)]
    BY <2>1
  <2>. QED
    BY <1>2, <1>3, <2>2 DEF Rounds
<1>4. CASE k # 0
  <2>1. k \in Nat /\ k - 1 \in Nat /\ k - 1 \notin T
    BY <1>2, <1>4
  <2>2. PICK f : Rounds(f, base, steps, k - 1)
    BY <2>1
  <2>3. PICK g : g = [n \in 0 .. k |-> IF n = k THEN After(f[k - 1], steps) ELSE f[n]]
    OBVIOUS
  <2>4. \A n \in 0 .. k : n # k => n \in 0 .. (k - 1) /\ (n # 0 => n - 1 \in 0 .. k /\ n - 1 # k)
    BY <2>1
  <2>5. \A n \in 0 .. (k - 1) : f[n] = IF n = 0 THEN base ELSE After(f[n - 1], steps)
    BY <2>2 DEF Rounds
  <2>6. k - 1 \in 0 .. k /\ k - 1 # k /\ g[k - 1] = f[k - 1]
    BY <2>1, <2>3
  <2>7. \A n \in 0 .. k : g[n] = IF n = 0 THEN base ELSE After(g[n - 1], steps)
    BY <1>4, <2>3, <2>4, <2>5, <2>6
  <2>8. g = [n \in 0 .. k |-> IF n = 0 THEN base ELSE After(g[n - 1], steps)]
    BY <2>3, <2>7
  <2>. QED
    BY <1>2, <2>8 DEF Rounds
<1>. QED
  BY <1>3, <1>4

LEMMA ClosureIsRounds ==
  ASSUME NEW base, NEW steps, Cardinality(Units) \in Nat
  PROVE  \E f : Rounds(f, base, steps, Cardinality(Units)) /\ Closure(base, steps) = f[Cardinality(Units)]
<1>. DEFINE N == Cardinality(Units)
            found == CHOOSE f : f = [n \in 0 .. N |-> IF n = 0 THEN base ELSE f[n - 1] \cup UNION {steps[x] : x \in f[n - 1]}]
<1>1. \E f : f = [n \in 0 .. N |-> IF n = 0 THEN base ELSE f[n - 1] \cup UNION {steps[x] : x \in f[n - 1]}]
  <2>1. PICK f : Rounds(f, base, steps, N)
    BY RoundsExist
  <2>2. f = [n \in 0 .. N |-> IF n = 0 THEN base ELSE f[n - 1] \cup UNION {steps[x] : x \in f[n - 1]}]
    BY <2>1 DEF Rounds, After
  <2>. QED
    BY <2>2
<1>2. found = [n \in 0 .. N |-> IF n = 0 THEN base ELSE found[n - 1] \cup UNION {steps[x] : x \in found[n - 1]}]
  BY <1>1
<1>3. Closure(base, steps) = found[N]
  BY DEF Closure
<1>. HIDE DEF found
<1>4. Rounds(found, base, steps, N)
  BY <1>2 DEF Rounds, After
<1>. QED
  BY <1>3, <1>4

LEMMA FewPlaces ==
  /\ IsFiniteSet(Places) /\ Cardinality(Units) \in Nat
  /\ Cardinality(Places) = Cardinality(Units) + 1
BY TreeAssumption, ReadingAssumption, FS_AddElement, FS_CardinalityType DEF Places

\* A round that finds nothing new is the last; there are as many rounds as places.
LEMMA RoundsClose ==
  ASSUME NEW base \in SUBSET Places, NEW steps \in Steps, NEW N, N = Cardinality(Units),
         NEW f, Rounds(f, base, steps, N)
  PROVE  /\ \A n \in 0 .. N : f[n] \in SUBSET Places
         /\ Closed(f[N], steps)
<1>0. N \in Nat /\ 0 \in 0 .. N /\ N \in 0 .. N
  BY FewPlaces
<1>1. /\ f[0] = base
      /\ \A n \in 0 .. N : n # 0 => f[n] = After(f[n - 1], steps)
  BY <1>0 DEF Rounds
<1>2. \A S \in SUBSET Places : After(S, steps) \in SUBSET Places /\ S \subseteq After(S, steps)
  BY DEF After, Steps
<1>3. \A S \in SUBSET Places : Closed(S, steps) => After(S, steps) = S
  BY DEF After, Closed
<1>4. \A S \in SUBSET Places : After(S, steps) = S => Closed(S, steps)
  BY DEF After, Closed
<1>5. ASSUME NEW S \in SUBSET Places, ~Closed(S, steps)
      PROVE  S # {} /\ Cardinality(After(S, steps)) >= Cardinality(S) + 1
  <2>1. /\ S # {} /\ After(S, steps) # S /\ S \subseteq After(S, steps)
        /\ After(S, steps) \in SUBSET Places
    BY <1>2, <1>4, <1>5 DEF Closed
  <2>2. IsFiniteSet(After(S, steps)) /\ IsFiniteSet(S)
    BY <2>1, FewPlaces, FS_Subset
  <2>3. Cardinality(S) =< Cardinality(After(S, steps)) /\ Cardinality(S) # Cardinality(After(S, steps))
    BY <2>1, <2>2, FS_Subset
  <2>. QED
    BY <2>1, <2>2, <2>3, FS_CardinalityType
<1>6. \A n \in 0 .. N : f[n] \in SUBSET Places /\ (Closed(f[n], steps) \/ Cardinality(f[n]) >= n + 1)
  <2>. DEFINE P(n) == f[n] \in SUBSET Places /\ (Closed(f[n], steps) \/ Cardinality(f[n]) >= n + 1)
              T == {n \in 0 .. N : ~P(n)}
  <2>1. SUFFICES ASSUME T # {} PROVE FALSE
    OBVIOUS
  <2>2. PICK n \in T : \A i \in T : n =< i
    <3>1. T \in SUBSET Nat
      OBVIOUS
    <3>. HIDE DEF T
    <3>. QED
      BY <2>1, <3>1, MinExists
  <2>3. CASE n = 0
    <3>1. IsFiniteSet(base) /\ (base = {} => Closed(base, steps))
      BY FewPlaces, FS_Subset DEF Closed
    <3>2. base # {} => Cardinality(base) >= 1
      BY <3>1, FS_EmptySet, FS_CardinalityType
    <3>. QED
      BY <1>1, <2>2, <2>3, <3>1, <3>2
  <2>4. CASE n # 0
    <3>1. n \in Nat /\ n - 1 \in 0 .. N /\ n - 1 \notin T
      BY <1>0, <2>2, <2>4
    <3>2. P(n - 1) /\ f[n] = After(f[n - 1], steps)
      BY <1>1, <2>2, <2>4, <3>1
    <3>3. f[n] \in SUBSET Places
      BY <1>2, <3>2
    <3>4. CASE Closed(f[n - 1], steps)
      <4>1. f[n] = f[n - 1]
        BY <1>3, <3>2, <3>4
      <4>. QED
        BY <2>2, <3>3, <3>4, <4>1
    <3>5. CASE ~Closed(f[n - 1], steps)
      <4>1. Cardinality(f[n - 1]) >= n /\ Cardinality(f[n - 1]) \in Int /\ Cardinality(f[n]) \in Int
        <5>1. IsFiniteSet(f[n - 1]) /\ IsFiniteSet(f[n])
          BY <3>2, <3>3, FewPlaces, FS_Subset
        <5>. QED
          BY <3>1, <3>2, <3>5, <5>1, FS_CardinalityType
      <4>2. Cardinality(f[n]) >= Cardinality(f[n - 1]) + 1
        BY <1>5, <3>2, <3>5
      <4>3. Cardinality(f[n]) >= n + 1
        BY <3>1, <4>1, <4>2
      <4>. QED
        BY <2>2, <3>3, <4>3
    <3>. QED
      BY <3>4, <3>5
  <2>. QED
    BY <2>3, <2>4
<1>7. Closed(f[N], steps)
  <2>1. ASSUME Cardinality(f[N]) >= N + 1 PROVE f[N] = Places
    <3>1. f[N] \in SUBSET Places /\ Cardinality(f[N]) =< Cardinality(Places)
      BY <1>0, <1>6, FewPlaces, FS_Subset
    <3>2. Cardinality(f[N]) \in Nat
      BY <3>1, FewPlaces, FS_Subset, FS_CardinalityType
    <3>3. Cardinality(f[N]) = Cardinality(Places)
      BY <1>0, <2>1, <3>1, <3>2, FewPlaces
    <3>. QED
      BY <3>1, <3>3, FewPlaces, FS_Subset
  <2>2. Closed(Places, steps)
    BY DEF Closed, Steps
  <2>. QED
    BY <1>0, <1>6, <2>1, <2>2
<1>. QED
  BY <1>6, <1>7

\* What the recursive queries of the model find is the least set that holds the base
\* and that no step leaves.
LEMMA ClosureIsLeast ==
  ASSUME NEW base \in SUBSET Places, NEW steps \in Steps
  PROVE  /\ base \subseteq Closure(base, steps) /\ Closure(base, steps) \subseteq Places
         /\ Closed(Closure(base, steps), steps)
         /\ \A X : base \subseteq X /\ Closed(X, steps) => Closure(base, steps) \subseteq X
<1>. DEFINE N == Cardinality(Units)
<1>0. N \in Nat /\ 0 \in 0 .. N /\ N \in 0 .. N
  BY FewPlaces
<1>1. PICK f : Rounds(f, base, steps, N) /\ Closure(base, steps) = f[N]
  BY <1>0, ClosureIsRounds
<1>2. (\A n \in 0 .. N : f[n] \in SUBSET Places) /\ Closed(f[N], steps)
  BY <1>1, RoundsClose
<1>3. f[0] = base /\ \A n \in 0 .. N : n # 0 => f[n] = After(f[n - 1], steps)
  BY <1>0, <1>1 DEF Rounds
<1>4. ASSUME NEW X, base \subseteq X, Closed(X, steps) PROVE \A n \in 0 .. N : base \subseteq f[n] /\ f[n] \subseteq X
  <2>. DEFINE T == {n \in 0 .. N : ~(base \subseteq f[n] /\ f[n] \subseteq X)}
  <2>1. SUFFICES ASSUME T # {} PROVE FALSE
    OBVIOUS
  <2>2. PICK n \in T : \A i \in T : n =< i
    <3>1. T \in SUBSET Nat
      OBVIOUS
    <3>. HIDE DEF T
    <3>. QED
      BY <2>1, <3>1, MinExists
  <2>3. n # 0
    BY <1>3, <1>4, <2>2
  <2>4. n - 1 \in 0 .. N /\ n - 1 \notin T
    BY <1>0, <2>2, <2>3
  <2>5. base \subseteq f[n - 1] /\ f[n - 1] \subseteq X /\ f[n] = After(f[n - 1], steps)
    BY <1>3, <2>2, <2>3, <2>4
  <2>6. base \subseteq f[n] /\ f[n] \subseteq X
    BY <1>4, <2>5 DEF After, Closed
  <2>. QED
    BY <2>2, <2>6
<1>5. Closed(Places, steps)
  BY DEF Closed, Steps
<1>6. base \subseteq f[N] /\ \A X : base \subseteq X /\ Closed(X, steps) => f[N] \subseteq X
  BY <1>0, <1>4, <1>5
<1>. QED
  BY <1>0, <1>1, <1>2, <1>6
----------------------------------------------------------------------------
LEMMA AreSteps == Parents \in Steps /\ ChildUnits \in Steps
BY DEF Parents, ChildUnits, Steps, Places

LEMMA TodayIsADay == Today \in Days
BY TreeAssumption DEF Today, Days

\* A unit has one parent, the root has none.
LEMMA OneParent ==
  ASSUME NEW x \in Places, NEW y \in Parents[x]
  PROVE  x \in Units /\ parent[x][Today] = y /\ y \in Places /\ Parents[x] = {y}
BY DEF Parents

LEMMA RootIsTop == Root \in Places /\ Parents[Root] = {}
BY TreeAssumption DEF Places, Parents

\* A place and all that is above it.
Above(x) == Closure({x}, Parents)

LEMMA AboveIsLeast ==
  ASSUME NEW x \in Places
  PROVE  /\ x \in Above(x) /\ Above(x) \subseteq Places
         /\ Closed(Above(x), Parents)
         /\ \A X : x \in X /\ Closed(X, Parents) => Above(x) \subseteq X
<1>1. {x} \in SUBSET Places
  OBVIOUS
<1>2. /\ {x} \subseteq Above(x) /\ Above(x) \subseteq Places
      /\ Closed(Above(x), Parents)
      /\ \A X : {x} \subseteq X /\ Closed(X, Parents) => Above(x) \subseteq X
  BY <1>1, AreSteps, ClosureIsLeast DEF Above
<1>. QED
  BY <1>2

LEMMA AboveAbove ==
  ASSUME NEW x \in Places, NEW y \in Above(x)
  PROVE  y \in Places /\ Above(y) \subseteq Above(x)
<1>1. y \in Places
  BY AboveIsLeast
<1>. QED
  BY <1>1, AboveIsLeast

LEMMA AboveParent ==
  ASSUME NEW x \in Places, NEW z \in Parents[x]
  PROVE  z \in Places /\ z \in Above(x) /\ Above(x) \subseteq {x} \cup Above(z)
<1>1. z \in Places /\ Parents[x] = {z}
  BY OneParent
<1>2. Closed({x} \cup Above(z), Parents)
  BY <1>1, AboveIsLeast DEF Closed
<1>. QED
  BY <1>1, <1>2, AboveIsLeast DEF Closed

LEMMA AboveTop ==
  ASSUME NEW x \in Places, Parents[x] = {}
  PROVE  Above(x) = {x}
<1>1. Closed({x}, Parents)
  BY DEF Closed
<1>. QED
  BY <1>1, AboveIsLeast

\* What is above a unit is a chain.
LEMMA AboveLinear ==
  ASSUME NEW u \in Places, NEW x \in Above(u), NEW y \in Above(u)
  PROVE  y \in Above(x) \/ x \in Above(y)
<1>. DEFINE X == {z \in Places : z \in Above(x) \/ x \in Above(z)}
<1>1. x \in Places
  BY AboveIsLeast
<1>2. Closed(X, Parents)
  <2>1. SUFFICES ASSUME NEW z \in X, NEW p \in Parents[z] PROVE p \in X
    BY DEF Closed
  <2>2. z \in Places /\ p \in Places /\ Above(z) \subseteq {z} \cup Above(p) /\ p \in Above(z)
    BY AboveParent
  <2>3. CASE z \in Above(x)
    <3>1. p \in Above(x)
      BY <1>1, <2>2, <2>3, AboveAbove
    <3>. QED
      BY <2>2, <3>1
  <2>4. CASE x \in Above(z) /\ z \notin Above(x)
    <3>1. x # z
      BY <1>1, <2>4, AboveIsLeast
    <3>. QED
      BY <2>2, <2>4, <3>1
  <2>. QED
    BY <2>3, <2>4
<1>3. u \in X
  OBVIOUS
<1>. HIDE DEF X
<1>4. y \in X
  BY <1>2, <1>3, AboveIsLeast
<1>. QED
  BY <1>4 DEF X

\* No two units are above each other.
LEMMA AboveOnce ==
  ASSUME NoCycles, NEW x \in Places, NEW y \in Above(x), x \in Above(y)
  PROVE  x = y
<1>. DEFINE S == {z \in Above(x) : x \in Above(z)}
<1>1. SUFFICES ASSUME x # y PROVE FALSE
  OBVIOUS
<1>2. y \in Places /\ y \in S /\ S \subseteq Places /\ x \in S
  BY AboveIsLeast
<1>3. ASSUME NEW z \in S PROVE \E p \in S : z \in Units /\ parent[z][Today] = p
  <2>1. PICK p : p \in Parents[z]
    <3>1. ASSUME Parents[z] = {} PROVE FALSE
      <4>1. Above(z) = {z}
        BY <1>2, <3>1, AboveTop
      <4>2. z = x
        BY <4>1
      <4>. QED
        BY <1>1, <4>1, <4>2
    <3>. QED
      BY <3>1
  <2>2. /\ p \in Places /\ p \in Above(z) /\ Above(z) \subseteq {z} \cup Above(p)
        /\ z \in Units /\ parent[z][Today] = p
    BY <1>2, <2>1, AboveParent, OneParent
  <2>3. p \in Above(x)
    BY <1>2, <2>2, AboveAbove
  <2>4. x \in Above(p)
    <3>1. CASE x # z
      BY <2>2, <3>1
    <3>2. CASE x = z
      <4>1. y \in Above(p)
        BY <1>1, <2>2, <3>2
      <4>. QED
        BY <2>2, <4>1, AboveAbove
    <3>. QED
      BY <3>1, <3>2
  <2>. QED
    BY <2>2, <2>3, <2>4
<1>4. S \subseteq Units /\ \A z \in S : parent[z][Today] \in S
  BY <1>3
<1>. HIDE DEF S
<1>5. Cyclic(S, Today)
  BY <1>2, <1>4 DEF Cyclic
<1>. QED
  BY <1>4, <1>5, TodayIsADay DEF NoCycles
----------------------------------------------------------------------------
LEMMA ActiveAbove ==
  ASSUME NEW u \in ActiveUnits
  PROVE  u \in Units /\ u \in Places /\ WithDescendant(u) = Above(u) \cap ActiveUnits
<1>1. {u} \cap ActiveUnits = {u}
  OBVIOUS
<1>. QED
  BY <1>1 DEF WithDescendant, Above, ActiveUnits, Places

\* What a unit lists as ancestors, the filters find, and not the unit itself.
LEMMA AncestorsAgree ==
  ASSUME NoCycles, NEW u \in ActiveUnits
  PROVE  Ancestors(u) \subseteq WithDescendant(u) \ {u}
<1>. DEFINE visible == [x \in Places |-> Parents[x] \cap ActiveUnits]
            X == {x \in ActiveUnits : x # u /\ x \in Above(u)}
<1>1. u \in Places /\ visible \in Steps /\ visible[u] \in SUBSET Places
  BY ActiveAbove, AreSteps DEF Steps
<1>2. Ancestors(u) = Closure(visible[u], visible)
  BY DEF Ancestors
<1>3. ASSUME NEW z \in Above(u), NEW p \in Parents[z], p \in ActiveUnits PROVE p \in X
  <2>1. z \in Places /\ p \in Above(z) /\ p \in Places
    BY <1>1, AboveIsLeast, AboveParent
  <2>2. p \in Above(u) /\ z \in Units /\ parent[z][Today] = p
    BY <1>1, <2>1, AboveAbove, OneParent
  <2>3. ASSUME p = u PROVE FALSE
    <3>1. z = u
      BY <1>1, <2>1, <2>3, AboveOnce
    <3>2. {u} \in SUBSET Units /\ Cyclic({u}, Today)
      BY <2>2, <2>3, <3>1 DEF Cyclic
    <3>. QED
      BY <3>2, TodayIsADay DEF NoCycles
  <2>. QED
    BY <1>3, <2>2, <2>3
<1>4. visible[u] \subseteq X
  BY <1>1, <1>3, AboveIsLeast
<1>5. Closed(X, visible)
  BY <1>1, <1>3, AboveIsLeast DEF Closed, ActiveUnits, Places
<1>6. Ancestors(u) \subseteq X
  <2>. HIDE DEF X, visible
  <2>. QED
    BY <1>1, <1>2, <1>4, <1>5, ClosureIsLeast
<1>. QED
  BY <1>6, ActiveAbove

\* Looking up and looking down are inverse.
LEMMA UpAndDown ==
  ASSUME NEW u \in Places, NEW p \in Places
  PROVE  p \in Closure({u}, Parents) <=> u \in Closure({p}, ChildUnits)
<1>1. ASSUME NEW up \in Steps, NEW down \in Steps, \A x, y \in Places : y \in up[x] => x \in down[y],
             NEW v \in Places, NEW q \in Places, q \in Closure({v}, up)
      PROVE  v \in Closure({q}, down)
  <2>. DEFINE X == {x \in Places : v \in Closure({x}, down)}
  <2>1. \A x \in Places : /\ x \in Closure({x}, down) /\ Closure({x}, down) \subseteq Places
                          /\ Closed(Closure({x}, down), down)
                          /\ \A Y : x \in Y /\ Closed(Y, down) => Closure({x}, down) \subseteq Y
    <3>1. ASSUME NEW x \in Places
          PROVE  /\ {x} \subseteq Closure({x}, down) /\ Closure({x}, down) \subseteq Places
                 /\ Closed(Closure({x}, down), down)
                 /\ \A Y : {x} \subseteq Y /\ Closed(Y, down) => Closure({x}, down) \subseteq Y
      <4>1. {x} \in SUBSET Places
        OBVIOUS
      <4>. QED
        BY <1>1, <4>1, ClosureIsLeast
    <3>. QED
      BY <3>1
  <2>2. Closed(X, up)
    <3>1. SUFFICES ASSUME NEW x \in X, NEW y \in up[x] PROVE y \in X
      BY DEF Closed
    <3>2. x \in Places /\ y \in Places /\ x \in down[y]
      BY <1>1, <3>1 DEF Steps
    <3>3. x \in Closure({y}, down)
      BY <2>1, <3>2 DEF Closed
    <3>4. Closure({x}, down) \subseteq Closure({y}, down)
      BY <2>1, <3>2, <3>3
    <3>. QED
      BY <3>2, <3>4
  <2>3. {v} \subseteq X /\ {v} \in SUBSET Places
    BY <1>1, <2>1
  <2>. HIDE DEF X
  <2>4. q \in X
    BY <1>1, <2>2, <2>3, ClosureIsLeast
  <2>. QED
    BY <2>4 DEF X
<1>2. \A x, y \in Places : y \in Parents[x] <=> x \in ChildUnits[y]
  BY DEF Parents, ChildUnits
<1>. QED
  BY <1>1, <1>2, AreSteps

LEMMA DescendantsAgree ==
  ASSUME NEW u \in ActiveUnits, NEW p \in ActiveUnits
  PROVE  p \in WithDescendant(u) <=> u \in WithAncestor(p)
<1>1. {u} \cap ActiveUnits = {u} /\ {p} \cap ActiveUnits = {p} /\ u \in Places /\ p \in Places
  BY ActiveAbove
<1>. QED
  BY <1>1, UpAndDown DEF WithDescendant, WithAncestor

\* Above a unit there is one that is directly below the organisation, at most.
LEMMA OneRoot ==
  ASSUME NEW u \in ActiveUnits
  PROVE  Cardinality(RootsOf(u)) =< 1
<1>1. ASSUME NEW x \in RootsOf(u), NEW y \in RootsOf(u), y \in Above(x) PROVE x = y
  <2>1. x \in Units /\ y \in Units /\ x \in Places /\ Root \in Parents[x]
    BY RootIsTop DEF RootsOf, WithDescendant, ActiveUnits, Places, Parents
  <2>2. Above(x) \subseteq {x} \cup Above(Root) /\ Above(Root) = {Root}
    BY <2>1, AboveParent, AboveTop, RootIsTop
  <2>. QED
    BY <1>1, <2>1, <2>2, TreeAssumption
<1>2. \A x, y \in RootsOf(u) : x = y
  <2>. SUFFICES ASSUME NEW x \in RootsOf(u), NEW y \in RootsOf(u) PROVE x = y
    OBVIOUS
  <2>1. x \in Above(u) /\ y \in Above(u) /\ u \in Places
    BY ActiveAbove DEF RootsOf
  <2>. QED
    BY <1>1, <2>1, AboveLinear
<1>3. RootsOf(u) = {} \/ \E x : RootsOf(u) = {x}
  BY <1>2
<1>4. CASE RootsOf(u) = {}
  BY <1>4, FS_EmptySet
<1>5. ASSUME NEW x, RootsOf(u) = {x} PROVE Cardinality(RootsOf(u)) =< 1
  <2>1. Cardinality({x}) = 1
    BY FS_Singleton
  <2>. QED
    BY <1>5, <2>1
<1>. QED
  BY <1>3, <1>4, <1>5
----------------------------------------------------------------------------
\* The nearest of M is above the unit, with no other one of M on the way.
LEMMA NearestAbove ==
  ASSUME NEW u \in ActiveUnits, NEW M \in SUBSET ActiveUnits
  PROVE  Nearest(u, M) = {x \in M \cap Above(u) : \A y \in M \cap Above(u) : x \in Above(y) => x = y}
<1>1. M \cap WithDescendant(u) = M \cap Above(u)
  BY ActiveAbove
<1>2. \A x \in M, y \in M : x \in WithDescendant(y) <=> x \in Above(y)
  BY ActiveAbove
<1>. QED
  BY <1>1, <1>2 DEF Nearest

\* The managers that a unit inherits are those of the nearest unit above it
\* that has some.
LEMMA ManagersAgree ==
  ASSUME NoCycles, NEW u \in ActiveUnits, NEW M \in SUBSET ActiveUnits
  PROVE  InheritsFrom(u, M) = Nearest(u, M)
<1>. DEFINE unmanaged == [x \in Places |-> IF x \in M THEN {} ELSE Parents[x]]
            R == Closure({u}, unmanaged)
<1>1. u \in Places /\ {u} \in SUBSET Places /\ unmanaged \in Steps /\ M \subseteq Places
  BY ActiveAbove, AreSteps DEF Steps, ActiveUnits, Places
<1>2. /\ {u} \subseteq R /\ R \subseteq Places /\ Closed(R, unmanaged)
      /\ \A X : {u} \subseteq X /\ Closed(X, unmanaged) => R \subseteq X
  <2>. HIDE DEF unmanaged
  <2>. QED
    BY <1>1, ClosureIsLeast
<1>3. InheritsFrom(u, M) = R \cap M
  BY ActiveAbove DEF InheritsFrom
<1>4. R \subseteq Above(u)
  <2>1. Closed(Above(u), unmanaged)
    BY <1>1, AboveIsLeast DEF Closed
  <2>. QED
    BY <1>1, <1>2, <2>1, AboveIsLeast
<1>5. Nearest(u, M) = {x \in M \cap Above(u) : \A y \in M \cap Above(u) : x \in Above(y) => x = y}
  BY NearestAbove
<1>6. ASSUME NEW x \in R \cap M, NEW y \in M \cap Above(u), x \in Above(y) PROVE x = y
  <2>. DEFINE X == {z \in Places : y \in Above(z)}
  <2>1. ASSUME NEW z \in X, NEW p \in unmanaged[z] PROVE p \in X
    <3>1. z \in Places /\ z \notin M /\ p \in Parents[z]
      BY <2>1
    <3>2. p \in Places /\ Above(z) \subseteq {z} \cup Above(p)
      BY <3>1, AboveParent
    <3>. QED
      BY <1>6, <3>1, <3>2
  <2>2. {u} \subseteq X /\ Closed(X, unmanaged)
    BY <1>1, <2>1 DEF Closed
  <2>3. x \in Places /\ y \in Above(x)
    <3>. HIDE DEF X, unmanaged, R
    <3>1. x \in X
      BY <1>2, <2>2
    <3>. QED
      BY <3>1 DEF X
  <2>. QED
    BY <1>6, <2>3, AboveOnce
<1>7. ASSUME NEW x \in Nearest(u, M) PROVE x \in R
  <2>. DEFINE X == {z \in Places : z \in R \/ \E m \in M \cap R : z \in Above(m)}
  <2>1. ASSUME NEW z \in X, NEW p \in Parents[z] PROVE p \in X
    <3>1. z \in Places /\ p \in Places /\ p \in Above(z)
      BY AboveParent
    <3>2. CASE z \in R /\ z \notin M
      BY <1>2, <2>1, <3>1, <3>2 DEF Closed
    <3>3. CASE z \in R /\ z \in M
      BY <3>1, <3>3
    <3>4. ASSUME NEW m \in M \cap R, z \in Above(m) PROVE p \in X
      <4>1. m \in Places /\ p \in Above(m)
        BY <1>1, <3>1, <3>4, AboveAbove
      <4>. QED
        BY <3>1, <4>1
    <3>. QED
      BY <3>2, <3>3, <3>4
  <2>2. u \in X /\ Closed(X, Parents)
    BY <1>1, <1>2, <2>1 DEF Closed
  <2>3. x \in R \/ \E m \in M \cap R : x \in Above(m)
    <3>. HIDE DEF X, R
    <3>1. x \in X
      BY <1>1, <1>5, <1>7, <2>2, AboveIsLeast
    <3>. QED
      BY <3>1 DEF X
  <2>4. ASSUME NEW m \in M \cap R, x \in Above(m) PROVE x = m
    BY <1>4, <1>5, <1>7, <2>4
  <2>. QED
    BY <2>3, <2>4
<1>. QED
  BY <1>3, <1>4, <1>5, <1>6, <1>7

\* They are those of its parent, if it has none of its own and the parent is
\* active.
LEMMA ManagersOfParent ==
  ASSUME NoCycles, NEW u \in ActiveUnits, NEW M \in SUBSET ActiveUnits,
         u \notin M, parent[u][Today] \in ActiveUnits
  PROVE  InheritsFrom(u, M) = InheritsFrom(parent[u][Today], M)
<1>. DEFINE p == parent[u][Today]
<1>1. u \in Places /\ p \in Places /\ p \in Parents[u]
  BY DEF ActiveUnits, Places, Parents
<1>2. Above(u) \subseteq {u} \cup Above(p) /\ Above(p) \subseteq Above(u)
  BY <1>1, AboveParent, AboveAbove
<1>3. M \cap Above(u) = M \cap Above(p)
  BY <1>2
<1>4. Nearest(u, M) = Nearest(p, M)
  <2>1. p \in ActiveUnits
    OBVIOUS
  <2>. HIDE DEF p
  <2>2. Nearest(u, M) = {x \in M \cap Above(u) : \A y \in M \cap Above(u) : x \in Above(y) => x = y}
    BY NearestAbove
  <2>3. Nearest(p, M) = {x \in M \cap Above(p) : \A y \in M \cap Above(p) : x \in Above(y) => x = y}
    BY <2>1, NearestAbove
  <2>. QED
    BY <1>3, <2>2, <2>3
<1>. QED
  BY <1>4, ManagersAgree

\* What is climbed through from active units has a parent today, or is the root.
LEMMA ClimbedHasParent ==
  ASSUME TypeInv, TreeInv, AtOnce, NEW M \in SUBSET ActiveUnits, NEW x \in Climbed(M), x # Root
  PROVE  /\ x \in Units /\ parent[x][Today] \in Climbed(M) /\ parent[x][Today] \in Places
         /\ parent[x][Today] \in Parents[x]
<1>. DEFINE X == {z \in Places : z \in Units => Exists(z)}
<1>1. /\ M \in SUBSET Places /\ M \subseteq Climbed(M) /\ Climbed(M) \subseteq Places
      /\ Closed(Climbed(M), Parents)
      /\ \A Y : M \subseteq Y /\ Closed(Y, Parents) => Climbed(M) \subseteq Y
  <2>1. M \in SUBSET Places
    BY DEF ActiveUnits, Places
  <2>. QED
    BY <2>1, AreSteps, ClosureIsLeast DEF Climbed
<1>2. M \subseteq X
  BY <1>1 DEF TypeInv, TypeOK, ActiveUnits
<1>3. ASSUME NEW z \in X, NEW y \in Parents[z] PROVE y \in X
  <2>1. z \in Units /\ parent[z][Today] = y /\ y \in Places
    BY OneParent
  <2>. QED
    BY <2>1, TodayIsADay DEF TreeInv, ParentsExist
<1>4. x \in X
  <2>1. Closed(X, Parents)
    BY <1>3 DEF Closed
  <2>. HIDE DEF X
  <2>. QED
    BY <1>1, <1>2, <2>1
<1>5. x \in Units /\ Exists(x)
  BY <1>4 DEF Places
<1>6. parent[x] \in Rows
  BY <1>5 DEF TypeInv, TypeOK, Rows
<1>7. parent[x][Today] \in Places
  BY <1>5, <1>6, AllDays, TodayIsADay DEF Placed, Rows
<1>8. parent[x][Today] \in Parents[x]
  BY <1>4, <1>5, <1>7 DEF Parents
<1>. QED
  BY <1>1, <1>5, <1>7, <1>8 DEF Closed

\* The tree that is drawn of some units is what it says it is.
LEMMA TreesAgree ==
  ASSUME TypeInv, TreeInv, AtOnce, NEW M \in SUBSET ActiveUnits
  PROVE  UnitTree(M) = AncestorTree(M)
<1>. DEFINE C == Climbed(M)
            shown == [x \in Places |-> TreeChildren(C, x)]
            top == UNION {shown[x] : x \in TreeTops(C)}
            T == Closure(top, shown)
<1>1. C \subseteq Places
  <2>1. M \in SUBSET Places
    BY DEF ActiveUnits, Places
  <2>. QED
    BY <2>1, AreSteps, ClosureIsLeast DEF Climbed
<1>2. UnitTree(M) = T
  BY DEF UnitTree
<1>3. \A x \in C : x # Root => /\ x \in Units /\ parent[x][Today] \in C
                               /\ parent[x][Today] \in Places /\ parent[x][Today] \in Parents[x]
  BY ClimbedHasParent
<1>4. TreeTops(C) = C \cap {Root}
  BY <1>3, RootIsTop DEF TreeTops
<1>5. \A x \in Places, u \in C : x \in Parents[u] =>
        u \in shown[x] /\ Children(x, Today) \subseteq shown[x]
  BY DEF TreeChildren
<1>6. ASSUME NEW x \in Places PROVE shown[x] \subseteq AncestorTree(M)
  <2>1. SUFFICES ASSUME NEW v \in shown[x] PROVE v \in AncestorTree(M)
    OBVIOUS
  <2>2. PICK w \in C : x \in Parents[w]
    BY <2>1 DEF TreeChildren
  <2>3. w \in C \cap Units /\ parent[w][Today] = x
    BY <1>1, <2>2, OneParent
  <2>4. CASE v \in C /\ x \in Parents[v]
    BY <1>1, <2>4, OneParent DEF AncestorTree
  <2>5. CASE v \in Children(x, Today)
    BY <2>3, <2>5 DEF AncestorTree, Children, ActiveUnits
  <2>. QED
    BY <2>1, <2>4, <2>5 DEF TreeChildren
<1>7. AncestorTree(M) \subseteq Places
  BY DEF AncestorTree, ActiveUnits, Places
<1>8. shown \in Steps /\ top \in SUBSET Places /\ top \subseteq AncestorTree(M)
  <2>1. \A x \in Places : shown[x] \in SUBSET Places
    BY <1>6, <1>7
  <2>2. TreeTops(C) \subseteq Places
    BY <1>1, <1>4
  <2>3. shown \in Steps
    BY <2>1 DEF Steps
  <2>. QED
    BY <1>6, <1>7, <2>2, <2>3
<1>9. Closed(AncestorTree(M), shown)
  BY <1>6, <1>7 DEF Closed
<1>10. /\ top \subseteq T /\ T \subseteq Places /\ Closed(T, shown) /\ T \subseteq AncestorTree(M)
  <2>. HIDE DEF top, shown
  <2>. QED
    BY <1>8, <1>9, ClosureIsLeast
<1>11. ASSUME NEW p \in C, NEW v \in shown[p], p = Root \/ p \in T PROVE v \in T
  <2>1. CASE p = Root
    BY <1>4, <1>10, <1>11, <2>1
  <2>2. CASE p \in T
    <3>. HIDE DEF shown, T
    <3>. QED
      BY <1>10, <1>11, <2>2 DEF Closed
  <2>. QED
    BY <1>11, <2>1, <2>2
<1>12. C \cap Units \subseteq T
  <2>. DEFINE S == (C \cap Units) \ T
  <2>1. ASSUME NEW x \in S PROVE parent[x][Today] \in S
    <3>1. x # Root /\ x \in C
      BY TreeAssumption
    <3>2. PICK p : p = parent[x][Today] /\ p \in C /\ p \in Places /\ p \in Parents[x]
      BY <1>3, <3>1
    <3>3. x \in shown[p]
      BY <1>5, <3>1, <3>2
    <3>4. p # Root /\ p \notin T
      <4>. HIDE DEF shown, T
      <4>. QED
        BY <1>11, <2>1, <3>2, <3>3
    <3>. QED
      BY <3>2, <3>4 DEF Places
  <2>2. S \in SUBSET Units
    OBVIOUS
  <2>. HIDE DEF S
  <2>3. S = {}
    BY <2>1, <2>2, TodayIsADay DEF TreeInv, NoCycles, Cyclic
  <2>. QED
    BY <2>3 DEF S
<1>13. ASSUME NEW u \in C \cap Units, NEW v \in ActiveUnits, parent[v][Today] = parent[u][Today]
       PROVE  v \in T
  <2>1. u # Root
    BY TreeAssumption
  <2>2. PICK p : p = parent[u][Today] /\ p \in C /\ p \in Places /\ p \in Parents[u]
    BY <1>3, <2>1
  <2>3. v \in Children(p, Today)
    BY <1>13, <2>2 DEF Children, ActiveUnits
  <2>4. v \in shown[p]
    BY <1>5, <2>2, <2>3
  <2>. HIDE DEF shown, T
  <2>. QED
    BY <1>11, <1>12, <2>2, <2>4 DEF Places
<1>14. AncestorTree(M) \subseteq T
  BY <1>12, <1>13 DEF AncestorTree
<1>. QED
  BY <1>2, <1>10, <1>14

\* When requests come one at a time, take effect at once and last, and no create
\* brings the UUID of another unit, the ways to look up and down the tree agree
\* whenever they are asked.
THEOREM ReadingsAlwaysAgree ==
  Serial /\ AtOnce /\ ~Recreate => (ReadingSpec => []ReadingsAgree)
<1> SUFFICES ASSUME Serial, AtOnce, ~Recreate PROVE ReadingSpec => []ReadingsAgree
  OBVIOUS
<1>. DEFINE Inv == TypeInv /\ SerialInv /\ TreeInv
<1>1. Init => Inv
  BY InitTypeInv, InitSerialInv, TreeAssumption
  DEF Init, TreeInv, NoCycles, Cyclic, ParentsExist, Nowhere, Places
<1>2. ReadingNext \/ UNCHANGED <<vars, readVars>> => [Next]_vars
  BY DEF ReadingNext, Begin, Paginate, Load, Write, vars
<1>3. Inv /\ [Next]_vars => Inv'
  BY NextTypeInv, NextSerialInv, NextParentsExist, NextNoCycles DEF TreeInv
<1>4. Inv /\ [ReadingNext]_<<vars, readVars>> => Inv'
  BY <1>2, <1>3
<1>5. Inv => ReadingsAgree
  BY AncestorsAgree, DescendantsAgree, OneRoot, ManagersAgree, ManagersOfParent,
     TreesAgree DEF ReadingsAgree, TreeInv
<1> QED
  BY <1>1, <1>4, <1>5, PTL DEF ReadingSpec
==============================================================================
