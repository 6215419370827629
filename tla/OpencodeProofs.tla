---------------------------- MODULE OpencodeProofs ----------------------------
(* What PollUsage promises, for any set of sessions, any parent links, any *)
(* depth limit and any writer.                                             *)
EXTENDS Opencode, FiniteSetTheorems, TLAPS

-----------------------------------------------------------------------------
(* Types.                                                                  *)

LEMMA TypeInit == Init => TypeOK
BY DepthAssumption DEF Init, TypeOK

LEMMA TypeStep == TypeOK /\ [Next]_vars => TypeOK'
<1> SUFFICES ASSUME TypeOK, [Next]_vars PROVE TypeOK'
  OBVIOUS
<1> USE DepthAssumption, IdsAssumption
<1>1. ASSUME NEW x \in Ids, Create(x) PROVE TypeOK'
  BY <1>1 DEF TypeOK, Create, Write, pollVars
<1>2. ASSUME NEW x \in Ids, Prune(x) PROVE TypeOK'
  BY <1>2 DEF TypeOK, Prune, Write, pollVars
<1>3. ASSUME NEW x \in Ids, PollUsage(x) PROVE TypeOK'
  BY <1>3 DEF TypeOK, PollUsage
<1>4. CASE PollFails
  BY <1>4 DEF TypeOK, PollFails, dbVars
<1>5. CASE resolveRoot
  <2>1. CASE RowMissing
    BY <1>5, <2>1 DEF TypeOK, resolveRoot, RowMissing, Resolved, dbVars
  <2>2. CASE IsTop
    BY <1>5, <2>2 DEF TypeOK, resolveRoot, IsTop, Resolved, dbVars
  <2>3. CASE Climb
    BY <1>5, <2>3 DEF TypeOK, resolveRoot, Climb, dbVars
  <2> QED BY <1>5, <2>1, <2>2, <2>3 DEF resolveRoot
<1>6. CASE QueryTree
  BY <1>6 DEF TypeOK, QueryTree, Tree, dbVars
<1>7. CASE UNCHANGED vars
  BY <1>7 DEF TypeOK, vars, dbVars, pollVars
<1> QED BY <1>1, <1>2, <1>3, <1>4, <1>5, <1>6, <1>7 DEF Next

(* Every variable of the adapter and of the database keeps its type, and   *)
(* the walk stops at maxParentWalkDepth.                                   *)
THEOREM TypeCorrect == Spec => []TypeOK
<1>1. Init => TypeOK BY TypeInit
<1>2. TypeOK /\ [Next]_vars => TypeOK' BY TypeStep
<1> QED BY <1>1, <1>2, PTL DEF Spec

-----------------------------------------------------------------------------
(* Nothing foreign is reported: the walk stays in the tree of ref, and so  *)
(* does all that hangs below where it ends.                                *)

InTree ==
  /\ poll # "idle" => root \in Related(Ids, ref)
  /\ poll # "done" => result = {}
  /\ poll = "done" => result \subseteq Related(Ids, ref)

LEMMA SelfRelated == \A r \in Ids : r \in Related(Ids, r)
BY DEF Related

LEMMA ParentRelated ==
  ASSUME NEW r \in Ids, NEW x \in Related(Ids, r), parent[x] \in Ids
  PROVE  parent[x] \in Related(Ids, r)
BY DEF Related, Linked

LEMMA TreeRelated ==
  ASSUME NEW r \in Ids, NEW x \in Related(Ids, r), TypeOK
  PROVE  Tree(x) \subseteq Related(Ids, r)
<1> SUFFICES ASSUME NEW y \in Tree(x), NEW D \in SUBSET Ids, r \in D, Linked(Ids, D)
             PROVE  y \in D
  BY DEF Related, Tree
<1>1. x \in D
  BY DEF Related
<1>2. HasChildren(D)
  BY DEF HasChildren, Linked, TypeOK
<1> QED BY <1>1, <1>2 DEF Tree

LEMMA InTreeStep == TypeOK /\ InTree /\ [Next]_vars => InTree'
<1> SUFFICES ASSUME TypeOK, InTree, [Next]_vars PROVE InTree'
  OBVIOUS
<1> USE IdsAssumption
<1>0. ASSUME parent' = parent PROVE \A r : Related(Ids, r)' = Related(Ids, r')
  BY <1>0 DEF Related, Linked
<1>1. ASSUME NEW x \in Ids, Create(x) PROVE InTree'
  BY <1>1, <1>0 DEF InTree, Create, pollVars, Related, Linked
<1>2. ASSUME NEW x \in Ids, Prune(x) PROVE InTree'
  BY <1>2, <1>0 DEF InTree, Prune, pollVars, Related, Linked
<1>3. ASSUME NEW x \in Ids, PollUsage(x) PROVE InTree'
  BY <1>3, SelfRelated DEF InTree, PollUsage, Related, Linked
<1>4. CASE PollFails
  BY <1>4 DEF InTree, PollFails, Related, Linked
<1>5. CASE resolveRoot
  <2>1. CASE RowMissing \/ IsTop
    BY <1>5, <2>1 DEF InTree, resolveRoot, RowMissing, IsTop, Resolved, Related, Linked
  <2>2. CASE Climb
    <3>1. root' \in Related(Ids, ref)
      BY <1>5, <2>2, ParentRelated DEF InTree, Climb, TypeOK, resolveRoot
    <3>2. Related(Ids, ref)' = Related(Ids, ref)
      BY <1>5 DEF resolveRoot, Related, Linked
    <3> QED BY <1>5, <2>2, <3>1, <3>2 DEF InTree, resolveRoot, Climb
  <2> QED BY <1>5, <2>1, <2>2 DEF resolveRoot
<1>6. CASE QueryTree
  <2>1. Tree(root) \subseteq Related(Ids, ref)
    BY <1>6, TreeRelated DEF QueryTree, InTree, TypeOK
  <2>2. Related(Ids, ref)' = Related(Ids, ref)
    BY <1>6 DEF QueryTree, Related, Linked
  <2> QED BY <1>6, <2>1, <2>2 DEF InTree, QueryTree
<1>7. CASE UNCHANGED vars
  BY <1>7 DEF InTree, vars, dbVars, pollVars, Related, Linked
<1> QED BY <1>1, <1>2, <1>3, <1>4, <1>5, <1>6, <1>7 DEF Next

(* No poll reports a session of another tree, in whatever order opencode's *)
(* writes fall between its statements.                                     *)
THEOREM NothingForeign == Spec => []OnlyRelated
<1>1. Init => InTree
  BY DEF Init, InTree
<1>2. InTree => OnlyRelated
  BY DEF InTree, OnlyRelated
<1> QED BY <1>1, <1>2, InTreeStep, TypeCorrect, PTL DEF Spec

-----------------------------------------------------------------------------
(* The session asked for is reported: it stays below the point the walk    *)
(* has reached, for as long as no row goes.                                *)

RefBelow ==
  pruned = {} =>
    /\ poll \in {"resolve", "query"} => ref \in Tree(root)
    /\ poll = "notFound" => ref \notin rows \ created
    /\ poll = "done" /\ ref \in rows \ created => ref \in result

LEMMA TreeGrows ==
  ASSUME parent' = parent, root' = root, rows \subseteq rows'
  PROVE  Tree(root) \subseteq Tree(root)'
BY DEF Tree, HasChildren

LEMMA ClimbKeepsRef ==
  ASSUME TypeOK, root \in rows, parent[root] \in Ids, ref \in Tree(root)
  PROVE  ref \in Tree(parent[root])
<1> SUFFICES ASSUME NEW D \in SUBSET Ids, parent[root] \in D, HasChildren(D)
             PROVE  ref \in D
  BY DEF Tree
<1>1. root \in D
  BY DEF HasChildren
<1> QED BY <1>1 DEF Tree

LEMMA RefBelowStep == TypeOK /\ RefBelow /\ [Next]_vars => RefBelow'
<1> SUFFICES ASSUME TypeOK, RefBelow, [Next]_vars, pruned' = {} PROVE RefBelow'
  BY DEF RefBelow
<1> USE IdsAssumption
<1>1. ASSUME NEW x \in Ids, Create(x) PROVE RefBelow'
  <2>1. Tree(root) \subseteq Tree(root)'
    BY <1>1, TreeGrows DEF Create, pollVars
  <2> QED BY <1>1, <2>1 DEF RefBelow, Create, pollVars
<1>2. ASSUME NEW x \in Ids, Prune(x) PROVE RefBelow'
  BY <1>2 DEF Prune
<1>3. ASSUME NEW x \in Ids, PollUsage(x) PROVE RefBelow'
  BY <1>3 DEF RefBelow, PollUsage, Tree
<1>4. CASE PollFails
  BY <1>4 DEF RefBelow, PollFails
<1>5. CASE resolveRoot
  <2>0. pruned = {} /\ ref \in Tree(root)
    BY <1>5 DEF resolveRoot, dbVars, RefBelow
  <2>1. CASE RowMissing \/ IsTop
    <3>1. Tree(root)' = Tree(root)
      BY <1>5, <2>1 DEF resolveRoot, RowMissing, IsTop, Resolved, dbVars, Tree, HasChildren
    <3> QED BY <1>5, <2>0, <2>1, <3>1
            DEF RefBelow, resolveRoot, RowMissing, IsTop, Resolved, dbVars
  <2>2. CASE Climb
    <3>1. ref \in Tree(parent[root])
      BY <1>5, <2>0, <2>2, ClimbKeepsRef DEF Climb, resolveRoot, TypeOK
    <3>2. Tree(root)' = Tree(parent[root])
      BY <1>5, <2>2 DEF resolveRoot, Climb, dbVars, Tree, HasChildren
    <3> QED BY <1>5, <2>2, <3>1, <3>2 DEF RefBelow, resolveRoot, Climb
  <2> QED BY <1>5, <2>1, <2>2 DEF resolveRoot
<1>6. CASE QueryTree
  BY <1>6 DEF RefBelow, QueryTree, dbVars
<1>7. CASE UNCHANGED vars
  BY <1>7 DEF RefBelow, vars, dbVars, pollVars, Tree, HasChildren
<1> QED BY <1>1, <1>2, <1>3, <1>4, <1>5, <1>6, <1>7 DEF Next

(* The usage of the session a pane shows is never blanked by ancestors     *)
(* that are missing, cyclic or too many.                                   *)
THEOREM RefCorrect == Spec => []RefReported
<1>1. Init => RefBelow
  BY DEF Init, RefBelow
<1>2. TypeOK /\ RefBelow => RefReported
  BY DEF RefBelow, RefReported
<1> QED BY <1>1, <1>2, RefBelowStep, TypeCorrect, PTL DEF Spec

-----------------------------------------------------------------------------
(* The whole tree is reported while nothing is written: either the walk    *)
(* reaches the top, or it goes round a cycle, and then everything on the   *)
(* cycle is below everything else on it.                                   *)

HasParent(r) == r \in rows /\ parent[r] \in Ids

OnCycle(r) == HasParent(r) /\ r \in Ancestry(parent[r])

\* Where the walk may end for its tree to be the whole one.
Summit(r) == HasParent(r) => parent[r] \in Tree(r)

\* What the code does, missing ancestors or not: the siblings below one that has
\* no row are returned too.
AllRelated ==
  poll = "done" /\ created \cup pruned = {}
  /\ Cardinality(Ancestry(ref)) <= maxParentWalkDepth + 1
    => result = Related(rows, ref) \cap rows

\* Each climb leaves one ancestor fewer, unless it is on a cycle.
WholeInv ==
  created \cup pruned = {} =>
    /\ poll \in {"resolve", "query"} => root \in Related(rows, ref)
    /\ poll = "resolve" =>
         \/ OnCycle(root)
         \/ Cardinality(Ancestry(root)) + depth <= Cardinality(Ancestry(ref))
    /\ poll = "query" /\ Cardinality(Ancestry(ref)) <= maxParentWalkDepth + 1 => Summit(root)
    /\ AllRelated

LEMMA SelfAncestry == \A r \in Ids : r \in Ancestry(r)
BY DEF Ancestry

LEMMA ParentAncestry ==
  ASSUME NEW r \in Ids, NEW x \in Ancestry(r), HasParent(x)
  PROVE  parent[x] \in Ancestry(r)
BY DEF Ancestry, HasParent

\* Ancestry, unfolded by one step.
LEMMA AncestryUnfolds ==
  ASSUME NEW r \in Ids
  PROVE  Ancestry(r) = {r} \cup IF HasParent(r) THEN Ancestry(parent[r]) ELSE {}
<1> DEFINE up == IF HasParent(r) THEN Ancestry(parent[r]) ELSE {}
<1>1. ASSUME NEW x \in Ancestry(r) PROVE x \in {r} \cup up
  <2>1. {r} \cup up \in SUBSET Ids
    BY DEF Ancestry
  <2>2. ASSUME NEW y \in ({r} \cup up) \cap rows, parent[y] \in Ids
        PROVE  parent[y] \in {r} \cup up
    <3>1. CASE y = r
      BY <2>2, <3>1, SelfAncestry DEF HasParent
    <3>2. CASE y # r
      <4>1. HasParent(r) /\ HasParent(y) /\ y \in Ancestry(parent[r])
        BY <2>2, <3>2 DEF HasParent
      <4> QED
        BY <4>1, ParentAncestry DEF HasParent
    <3> QED
      BY <3>1, <3>2
  <2> HIDE DEF up
  <2> QED
    BY <2>1, <2>2 DEF Ancestry
<1>2. ASSUME NEW x \in Ids, x \in up PROVE x \in Ancestry(r)
  BY <1>2 DEF Ancestry, HasParent
<1>3. up \subseteq Ids
  BY DEF Ancestry
<1> QED
  BY <1>1, <1>2, <1>3, SelfAncestry

LEMMA AncestryFinite ==
  ASSUME NEW r \in Ids
  PROVE  IsFiniteSet(Ancestry(r)) /\ Cardinality(Ancestry(r)) \in Nat \ {0}
<1>1. Ancestry(r) \in SUBSET Ids
  BY DEF Ancestry
<1>2. IsFiniteSet(Ancestry(r))
  BY <1>1, IdsAssumption, FS_Subset
<1>3. Cardinality(Ancestry(r)) \in Nat
  BY <1>2, FS_CardinalityType
<1>4. Cardinality(Ancestry(r)) # 0
  BY <1>2, FS_EmptySet, SelfAncestry
<1> QED
  BY <1>2, <1>3, <1>4

\* Off a cycle, the parent has one ancestor fewer.
LEMMA ClimbShortens ==
  ASSUME NEW r \in Ids, HasParent(r), ~OnCycle(r)
  PROVE  Cardinality(Ancestry(r)) = Cardinality(Ancestry(parent[r])) + 1
<1>1. parent[r] \in Ids /\ r \notin Ancestry(parent[r])
  BY DEF OnCycle, HasParent
<1>2. Ancestry(r) = Ancestry(parent[r]) \cup {r}
  BY AncestryUnfolds
<1>3. IsFiniteSet(Ancestry(parent[r]))
  BY <1>1, AncestryFinite
<1> HIDE DEF Ancestry
<1> QED
  BY <1>1, <1>2, <1>3, FS_AddElement

\* A parent of what is on a cycle is on it.
LEMMA ClimbKeepsCycle ==
  ASSUME NEW r \in Ids, OnCycle(r)
  PROVE  OnCycle(parent[r])
<1> DEFINE q == parent[r]
<1>1. q \in Ids /\ HasParent(r) /\ r \in Ancestry(q)
  BY DEF OnCycle, HasParent
<1>2. CASE q = r
  BY <1>2
<1>3. CASE q # r
  <2>1. HasParent(q) /\ r \in Ancestry(parent[q])
    BY <1>1, <1>3, AncestryUnfolds
  <2>2. q \in Ancestry(parent[q])
    BY <1>1, <2>1, ParentAncestry DEF HasParent
  <2> QED
    BY <2>1, <2>2 DEF OnCycle
<1> QED
  BY <1>2, <1>3

\* What has no ancestor but itself is the top, or its own parent.
LEMMA LoneIsSummit ==
  ASSUME NEW r \in Ids, Cardinality(Ancestry(r)) <= 1
  PROVE  OnCycle(r) \/ ~HasParent(r)
<1> SUFFICES ASSUME HasParent(r), ~OnCycle(r) PROVE FALSE
  OBVIOUS
<1>1. parent[r] \in Ids
  BY DEF HasParent
<1>2. Cardinality(Ancestry(r)) = Cardinality(Ancestry(parent[r])) + 1
  BY ClimbShortens
<1>3. Cardinality(Ancestry(parent[r])) \in Nat \ {0}
  BY <1>1, AncestryFinite
<1> QED
  BY <1>2, <1>3

LEMMA DescendantOfAncestor ==
  ASSUME NEW y \in Ids, NEW x \in Ancestry(y)
  PROVE  y \in Tree(x)
<1> SUFFICES ASSUME NEW D \in SUBSET Ids, x \in D, HasChildren(D), y \notin D
             PROVE  FALSE
  BY DEF Tree
<1>1. \A z \in (Ids \ D) \cap rows : parent[z] \in Ids => parent[z] \in Ids \ D
  BY DEF HasChildren
<1>2. x \in Ids \ D
  BY <1>1 DEF Ancestry
<1> QED
  BY <1>2

LEMMA CycleIsSummit ==
  ASSUME NEW r \in Ids, OnCycle(r)
  PROVE  Summit(r)
BY DescendantOfAncestor DEF OnCycle, HasParent, Summit

\* The tree below a summit holds with each session its parent and children.
LEMMA SummitTree ==
  ASSUME NEW r \in Ids, Summit(r), rows \subseteq Ids
  PROVE  Linked(rows, Tree(r))
<1> SUFFICES ASSUME NEW y \in rows, parent[y] \in Ids
             PROVE  y \in Tree(r) <=> parent[y] \in Tree(r)
  BY DEF Linked
<1>1. ASSUME parent[y] \in Tree(r) PROVE y \in Tree(r)
  BY <1>1 DEF Tree, HasChildren
<1>2. ASSUME y \in Tree(r) PROVE parent[y] \in Tree(r)
  <2>1. CASE y = r
    BY <2>1 DEF Summit, HasParent
  <2>2. ASSUME y # r, parent[y] \notin Tree(r) PROVE FALSE
    <3>1. Tree(r) \ {y} \in SUBSET Ids /\ r \in Tree(r) \ {y}
      BY <2>2 DEF Tree
    <3>2. ASSUME NEW z \in rows, parent[z] \in Tree(r) \ {y} PROVE z \in Tree(r) \ {y}
      <4>1. z # y
        BY <2>2, <3>2
      <4>2. z \in Tree(r)
        BY <3>2 DEF Tree, HasChildren
      <4> QED
        BY <4>1, <4>2
    <3>3. HasChildren(Tree(r) \ {y})
      BY <3>2 DEF HasChildren
    <3>4. y \in Tree(r) \ {y}
      <4> DEFINE T == Tree(r) \ {y}
      <4>1. T \in SUBSET Ids /\ r \in T /\ HasChildren(T)
        BY <3>1, <3>3
      <4> HIDE DEF T
      <4>2. y \in T
        BY <1>2, <4>1 DEF Tree
      <4> QED
        BY <4>2 DEF T
    <3> QED
      BY <3>4
  <2> QED
    BY <2>1, <2>2
<1> QED
  BY <1>1, <1>2

\* What the recursive query returns below a summit.
LEMMA WholeTreeBelow ==
  ASSUME TypeOK, NEW r \in Ids, NEW x \in Tree(r), Summit(r), r \in Related(rows, x)
  PROVE  Tree(r) = Related(rows, x)
<1>1. rows \subseteq Ids /\ x \in Ids
  BY DEF TypeOK, Tree
<1>2. ASSUME NEW y \in Tree(r) PROVE y \in Related(rows, x)
  <2> SUFFICES ASSUME NEW D \in SUBSET Ids, x \in D, Linked(rows, D) PROVE y \in D
    BY <1>2 DEF Related, Tree
  <2>1. r \in D
    BY DEF Related
  <2>2. HasChildren(D)
    BY DEF HasChildren, Linked
  <2> QED
    BY <1>2, <2>1, <2>2 DEF Tree
<1>3. ASSUME NEW y \in Related(rows, x) PROVE y \in Tree(r)
  <2>1. Linked(rows, Tree(r)) /\ Tree(r) \in SUBSET Ids
    BY <1>1, SummitTree DEF Tree
  <2> HIDE DEF Tree
  <2> QED
    BY <1>3, <2>1 DEF Related
<1> QED
  BY <1>2, <1>3

LEMMA ClimbRelated ==
  ASSUME TypeOK, HasParent(root), root \in Related(rows, ref)
  PROVE  parent[root] \in Related(rows, ref)
BY DEF Related, Linked, HasParent

\* One more ancestor climbed.
LEMMA ClimbWhole ==
  ASSUME TypeOK, WholeInv, resolveRoot, Climb
  PROVE  WholeInv'
<1> USE IdsAssumption, DepthAssumption
<1> SUFFICES ASSUME created \cup pruned = {} PROVE WholeInv'
  BY DEF WholeInv, resolveRoot, dbVars
<1> DEFINE q == parent[root]
<1>1. /\ poll = "resolve" /\ ref \in Ids /\ root \in Ids /\ q \in Ids /\ HasParent(root)
      /\ UNCHANGED <<parent, rows, ref>> /\ root' = q /\ depth' = depth + 1
      /\ poll' = (IF depth' = maxParentWalkDepth THEN "query" ELSE "resolve")
  BY DEF resolveRoot, Climb, dbVars, TypeOK, HasParent
<1>2. /\ \A x : Ancestry(x)' = Ancestry(x') /\ Related(rows, x)' = Related(rows, x')
      /\ OnCycle(root)' = OnCycle(q) /\ Summit(root)' = Summit(q)
  BY <1>1 DEF Ancestry, Related, Linked, OnCycle, HasParent, Summit, Tree, HasChildren
<1>3. q \in Related(rows, ref)
  BY <1>1, ClimbRelated DEF WholeInv
<1>4. OnCycle(q) \/ Cardinality(Ancestry(q)) + (depth + 1) <= Cardinality(Ancestry(ref))
  <2>1. CASE OnCycle(root)
    BY <1>1, <2>1, ClimbKeepsCycle
  <2>2. CASE ~OnCycle(root)
    <3>1. Cardinality(Ancestry(root)) + depth <= Cardinality(Ancestry(ref))
      BY <1>1, <2>2 DEF WholeInv
    <3>2. Cardinality(Ancestry(root)) = Cardinality(Ancestry(q)) + 1
      BY <1>1, <2>2, ClimbShortens
    <3>3. /\ Cardinality(Ancestry(root)) \in Nat /\ Cardinality(Ancestry(q)) \in Nat
          /\ Cardinality(Ancestry(ref)) \in Nat /\ depth \in Nat
      BY <1>1, AncestryFinite DEF TypeOK
    <3> QED
      BY <3>1, <3>2, <3>3
  <2> QED
    BY <2>1, <2>2
<1>5. ASSUME depth + 1 = maxParentWalkDepth, Cardinality(Ancestry(ref)) <= maxParentWalkDepth + 1
      PROVE  OnCycle(q) \/ ~HasParent(q)
  <2>1. /\ Cardinality(Ancestry(q)) \in Nat /\ Cardinality(Ancestry(ref)) \in Nat
        /\ depth \in Nat
    BY <1>1, AncestryFinite DEF TypeOK
  <2>2. Cardinality(Ancestry(q)) + (depth + 1) <= Cardinality(Ancestry(ref))
          => Cardinality(Ancestry(q)) <= 1
    BY <1>5, <2>1
  <2> QED
    BY <1>1, <1>4, <2>2, LoneIsSummit
<1>6. depth + 1 = maxParentWalkDepth /\ Cardinality(Ancestry(ref)) <= maxParentWalkDepth + 1
        => Summit(q)
  BY <1>1, <1>5, CycleIsSummit DEF Summit
<1>7. poll' = "query" => depth + 1 = maxParentWalkDepth
  BY <1>1
<1>8. poll' \in {"resolve", "query"}
  BY <1>1
<1>9. Ancestry(root)' = Ancestry(q) /\ Ancestry(ref)' = Ancestry(ref)
      /\ Related(rows, ref)' = Related(rows, ref)
  BY <1>1, <1>2
<1> HIDE DEF q
<1> QED
  BY <1>1, <1>2, <1>3, <1>4, <1>6, <1>7, <1>8, <1>9 DEF WholeInv, AllRelated

LEMMA WholeStep == TypeOK /\ RefBelow /\ WholeInv /\ [Next]_vars => WholeInv'
<1> SUFFICES ASSUME TypeOK, RefBelow, WholeInv, [Next]_vars, (created \cup pruned = {})'
             PROVE  WholeInv'
  BY DEF WholeInv
<1> USE IdsAssumption, DepthAssumption
<1>1. ASSUME NEW x \in Ids, Create(x) \/ Prune(x) PROVE FALSE
  BY <1>1 DEF Create, Prune
<1>2. ASSUME NEW x \in Ids, PollUsage(x) PROVE WholeInv'
  <2>1. /\ poll' = "resolve" /\ ref' = x /\ root' = x /\ depth' = 0
        /\ UNCHANGED <<parent, rows>>
    BY <1>2 DEF PollUsage
  <2>2. (root \in Related(rows, ref))'
    BY <2>1 DEF Related
  <2>3. (Cardinality(Ancestry(root)) + depth <= Cardinality(Ancestry(ref)))'
    <3>1. Ancestry(root)' = Ancestry(x) /\ Ancestry(ref)' = Ancestry(x)
      BY <2>1 DEF Ancestry
    <3>2. Cardinality(Ancestry(x)) \in Nat
      BY AncestryFinite
    <3> QED
      BY <2>1, <3>1, <3>2
  <2> QED
    BY <2>1, <2>2, <2>3 DEF WholeInv, AllRelated
<1>3. CASE PollFails
  BY <1>3 DEF WholeInv, AllRelated, PollFails
<1>4. CASE resolveRoot
  <2>0. created \cup pruned = {} /\ poll = "resolve" /\ UNCHANGED <<parent, rows, ref>>
    BY <1>4 DEF resolveRoot, dbVars
  <2>1. CASE RowMissing \/ IsTop
    <3>1. UNCHANGED root /\ poll' \in {"query", "notFound"} /\ ~HasParent(root)
      BY <2>1 DEF RowMissing, IsTop, Resolved, HasParent
    <3>2. Summit(root)'
      BY <2>0, <3>1 DEF Summit, HasParent
    <3>3. Related(rows, ref)' = Related(rows, ref)
      BY <2>0 DEF Related, Linked
    <3> QED
      BY <2>0, <3>1, <3>2, <3>3 DEF WholeInv, AllRelated
  <2>2. CASE Climb
    BY <1>4, <2>2, ClimbWhole
  <2> QED
    BY <1>4, <2>1, <2>2 DEF resolveRoot
<1>5. CASE QueryTree
  <2>0. /\ created \cup pruned = {} /\ poll = "query" /\ poll' = "done"
        /\ UNCHANGED <<parent, rows, ref, root>> /\ result' = Tree(root) \cap rows
        /\ root \in Ids /\ ref \in Ids
    BY <1>5 DEF QueryTree, dbVars, TypeOK
  <2>1. ref \in Tree(root) /\ root \in Related(rows, ref)
    BY <2>0 DEF RefBelow, WholeInv
  <2>2. Cardinality(Ancestry(ref)) <= maxParentWalkDepth + 1 => Summit(root)
    BY <2>0 DEF WholeInv
  <2>3. Summit(root) => Tree(root) = Related(rows, ref)
    BY <2>0, <2>1, WholeTreeBelow
  <2>4. Related(rows, ref)' = Related(rows, ref) /\ Ancestry(ref)' = Ancestry(ref)
    BY <2>0 DEF Related, Linked, Ancestry
  <2> QED
    BY <2>0, <2>2, <2>3, <2>4 DEF WholeInv, AllRelated
<1>6. CASE UNCHANGED vars
  BY <1>6 DEF WholeInv, AllRelated, vars, dbVars, pollVars, Related, Linked, Ancestry,
              OnCycle, HasParent, Summit, Tree, HasChildren
<1> QED
  BY <1>1, <1>2, <1>3, <1>4, <1>5, <1>6 DEF Next

\* An ancestor, and all that hangs below it, is linked to the session.
LEMMA AncestryRelated ==
  ASSUME TypeOK, NEW r \in Ids, NEW x \in Ancestry(r)
  PROVE  Tree(x) \subseteq Related(rows, r)
<1> SUFFICES ASSUME NEW y \in Tree(x), NEW D \in SUBSET Ids, r \in D, Linked(rows, D)
             PROVE  y \in D
  BY DEF Related, Tree
<1>1. \A z \in D \cap rows : parent[z] \in Ids => parent[z] \in D
  BY DEF Linked
<1>2. x \in D
  BY <1>1 DEF Ancestry
<1>3. HasChildren(D)
  BY DEF HasChildren, Linked
<1> QED
  BY <1>2, <1>3 DEF Tree

(* While nothing is written, a poll returns all that hangs below any       *)
(* ancestor with a row, and where all have one exactly the connected tree  *)
(* of the session it was asked for, for parent links of any shape, as long *)
(* as the depth limit covers its ancestors.                                *)
THEOREM WholeTreeReported == Spec => []WholeTree
<1>1. Init => WholeInv /\ RefBelow
  BY DEF Init, WholeInv, AllRelated, RefBelow
<1>2. TypeOK /\ WholeInv => WholeTree
  <2> SUFFICES ASSUME TypeOK, WholeInv, poll = "done", created \cup pruned = {},
                      Cardinality(Ancestry(ref)) <= maxParentWalkDepth + 1
               PROVE  /\ \A x \in Ancestry(ref) \cap rows : Tree(x) \cap rows \subseteq result
                      /\ Ancestry(ref) \subseteq rows => result = Related(rows, ref) \cap rows
    BY DEF WholeTree
  <2>1. result = Related(rows, ref) \cap rows
    BY DEF WholeInv, AllRelated
  <2>2. ref \in Ids
    BY DEF TypeOK
  <2>3. \A x \in Ancestry(ref) : Tree(x) \subseteq Related(rows, ref)
    BY <2>2, AncestryRelated
  <2> QED
    BY <2>1, <2>3
<1> QED
  BY <1>1, <1>2, WholeStep, RefBelowStep, TypeCorrect, PTL DEF Spec
=============================================================================
