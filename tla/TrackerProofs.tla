---------------------------- MODULE TrackerProofs ----------------------------
(***************************************************************************)
(* Proofs about module Tracker, for every number of workspaces, tabs,      *)
(* panes, agents and sessions, and every order of events and re-baselines. *)
(*                                                                         *)
(* CountsMatch and WellFormed, the records' part of TypeOK, are proved     *)
(* together: that a decrement keeps the counts natural depends on the      *)
(* counts being right, since Decr skips an agent whose bucket is empty.    *)
(***************************************************************************)
EXTENDS Tracker, FiniteSetTheorems, TLAPS

-----------------------------------------------------------------------------
(* Maps of records.                                                        *)

MapOf(f, K, R) == DOMAIN f \subseteq K /\ \A k \in DOMAIN f : f[k] \in R

\* Storing a well-formed record keeps a map well formed.
LEMMA PutMap ==
  ASSUME NEW f, NEW K, NEW R, MapOf(f, K, R), NEW k \in K, NEW r \in R
  PROVE  MapOf(Put(f, k, r), K, R)
  BY DEF MapOf, Put

\* Closing records keeps a map well formed, and takes exactly them out of the
\* live ones.
LEMMA CloseMap ==
  ASSUME NEW f, NEW K, NEW D, now \in Nat \ {0},
         MapOf(f, K, TabRecord) \/ MapOf(f, K, PaneRecord)
  PROVE  /\ MapOf(f, K, TabRecord) => MapOf(Close(f, D), K, TabRecord)
         /\ MapOf(f, K, PaneRecord) => MapOf(Close(f, D), K, PaneRecord)
  BY DEF MapOf, Close, TabRecord, PaneRecord, Live, Zero

\* Eviction only drops closed records.
LEMMA EvictMap ==
  ASSUME NEW f, NEW K, NEW R, MapOf(f, K, R)
  PROVE  MapOf(Evict(f), K, R) /\ Live(Evict(f)) = Live(f)
         /\ \A k \in DOMAIN Evict(f) : k \in DOMAIN f /\ Evict(f)[k] = f[k]
  BY DEF MapOf, Evict, Retained, Live

-----------------------------------------------------------------------------
(* Counting.                                                               *)

CountsOK(c) ==
  /\ DOMAIN c.global \subseteq Status
  /\ \A s \in DOMAIN c.global : c.global[s] \in Nat
  /\ DOMAIN c.workspace \subseteq Workspaces \X Status
  /\ \A k \in DOMAIN c.workspace : c.workspace[k] \in Nat \ {0}

With(A, L, s) == {p \in L : A[p].status = s}
WithIn(A, L, w, s) == {p \in With(A, L, s) : A[p].ws = w}

\* The counts c are those of the agents L of the map A.
Matches(c, A, L) ==
  /\ \A s \in Status : Count(c.global, s) = Cardinality(With(A, L, s))
  /\ \A w \in Workspaces, s \in Status :
       Count(c.workspace, <<w, s>>) = Cardinality(WithIn(A, L, w, s))

\* CountsMatch is Matches for the live agents.
LEMMA MatchesLive == CountsMatch <=> Matches(counts, agents, Live(agents))
  BY DEF CountsMatch, Matches, With, WithIn, InState, InBucket

\* Matches depends only on the state and workspace of the agents counted.
LEMMA MatchesSame ==
  ASSUME NEW c, NEW A, NEW B, NEW L, Matches(c, A, L),
         \A p \in L : B[p].status = A[p].status /\ B[p].ws = A[p].ws
  PROVE  Matches(c, B, L)
<1>1. \A s : With(B, L, s) = With(A, L, s)
  BY DEF With
<1>2. \A w, s : WithIn(B, L, w, s) = WithIn(A, L, w, s)
  BY <1>1 DEF With, WithIn
<1> QED
  BY <1>1, <1>2 DEF Matches

\* Counting one more agent.
LEMMA MatchesIncr ==
  ASSUME NEW c, NEW A, NEW B, NEW L, NEW p, NEW w \in Workspaces, NEW s \in Status,
         CountsOK(c), Matches(c, A, L), IsFiniteSet(L), p \notin L,
         \A q \in L : B[q].status = A[q].status /\ B[q].ws = A[q].ws,
         B[p].status = s, B[p].ws = w
  PROVE  CountsOK(Incr(c, w, s)) /\ Matches(Incr(c, w, s), B, L \cup {p})
<1> DEFINE M == L \cup {p}
<1>1. Matches(c, B, L)
  BY MatchesSame
<1>2. /\ \A t \in Status : IsFiniteSet(With(B, L, t)) /\ p \notin With(B, L, t)
      /\ \A v \in Workspaces, t \in Status :
           IsFiniteSet(WithIn(B, L, v, t)) /\ p \notin WithIn(B, L, v, t)
  <2>1. \A t : With(B, L, t) \in SUBSET L
    BY DEF With
  <2>2. \A v, t : WithIn(B, L, v, t) \in SUBSET L
    BY DEF With, WithIn
  <2> QED
    BY <2>1, <2>2, FS_Subset
<1>3. /\ With(B, M, s) = With(B, L, s) \cup {p}
      /\ \A t : t # s => With(B, M, t) = With(B, L, t)
  BY DEF With
<1>4. /\ WithIn(B, M, w, s) = WithIn(B, L, w, s) \cup {p}
      /\ \A v, t : <<v, t>> # <<w, s>> => WithIn(B, M, v, t) = WithIn(B, L, v, t)
  BY DEF With, WithIn
<1>5. /\ Cardinality(With(B, M, s)) = Cardinality(With(B, L, s)) + 1
      /\ Cardinality(WithIn(B, M, w, s)) = Cardinality(WithIn(B, L, w, s)) + 1
  <2> DEFINE X == With(B, L, s)
             Y == WithIn(B, L, w, s)
  <2>1. IsFiniteSet(X) /\ p \notin X /\ IsFiniteSet(Y) /\ p \notin Y
    BY <1>2
  <2>2. With(B, M, s) = X \cup {p} /\ WithIn(B, M, w, s) = Y \cup {p}
    BY <1>3, <1>4
  <2> HIDE DEF X, Y
  <2>3. Cardinality(X \cup {p}) = Cardinality(X) + 1
    BY <2>1, FS_AddElement
  <2>4. Cardinality(Y \cup {p}) = Cardinality(Y) + 1
    BY <2>1, FS_AddElement
  <2> QED
    BY <2>2, <2>3, <2>4 DEF X, Y
<1> DEFINE d == Incr(c, w, s)
<1>6. /\ d.global = Put(c.global, s, Count(c.global, s) + 1)
      /\ d.workspace = Put(c.workspace, <<w, s>>, Count(c.workspace, <<w, s>>) + 1)
  BY DEF Incr, AddOne
<1>7. Count(c.global, s) \in Nat /\ Count(c.workspace, <<w, s>>) \in Nat
  BY DEF Count, CountsOK
<1>8. CountsOK(d)
  <2> HIDE DEF d
  <2> QED
    BY <1>6, <1>7 DEF CountsOK, Put
<1>9. /\ \A t \in Status : Count(d.global, t) = Count(c.global, t) + IF t = s THEN 1 ELSE 0
      /\ \A v \in Workspaces, t \in Status :
           Count(d.workspace, <<v, t>>)
             = Count(c.workspace, <<v, t>>) + IF v = w /\ t = s THEN 1 ELSE 0
  <2> HIDE DEF d
  <2>1. \A t \in Status : Count(c.global, t) \in Nat
    BY DEF Count, CountsOK
  <2>2. \A v \in Workspaces, t \in Status : Count(c.workspace, <<v, t>>) \in Nat
    BY DEF Count, CountsOK
  <2>3. \A t \in Status : Count(d.global, t) = Count(c.global, t) + IF t = s THEN 1 ELSE 0
    BY <1>6, <2>1 DEF Count, Put
  <2>4. ASSUME NEW v \in Workspaces, NEW t \in Status
        PROVE  Count(d.workspace, <<v, t>>)
                 = Count(c.workspace, <<v, t>>) + IF v = w /\ t = s THEN 1 ELSE 0
    BY <1>6, <2>2 DEF Count, Put
  <2> QED
    BY <2>3, <2>4
<1>10. Matches(d, B, M)
  <2> HIDE DEF d, M
  <2>1. ASSUME NEW t \in Status
        PROVE  Count(d.global, t) = Cardinality(With(B, M, t))
    <3>1. Count(c.global, t) = Cardinality(With(B, L, t))
      BY <1>1 DEF Matches
    <3>2. Cardinality(With(B, L, t)) \in Nat
      BY <1>2, FS_CardinalityType
    <3>3. CASE t = s
      BY <1>5, <1>9, <3>1, <3>2, <3>3
    <3>4. CASE t # s
      BY <1>3, <1>9, <3>1, <3>2, <3>4
    <3> QED
      BY <3>3, <3>4
  <2>2. ASSUME NEW v \in Workspaces, NEW t \in Status
        PROVE  Count(d.workspace, <<v, t>>) = Cardinality(WithIn(B, M, v, t))
    <3>1. Count(c.workspace, <<v, t>>) = Cardinality(WithIn(B, L, v, t))
      BY <1>1 DEF Matches
    <3>2. Cardinality(WithIn(B, L, v, t)) \in Nat
      BY <1>2, FS_CardinalityType
    <3>3. CASE v = w /\ t = s
      BY <1>5, <1>9, <3>1, <3>2, <3>3
    <3>4. CASE ~(v = w /\ t = s)
      <4>1. WithIn(B, M, v, t) = WithIn(B, L, v, t)
        BY <1>4, <3>4
      <4> QED
        BY <1>9, <3>1, <3>2, <3>4, <4>1
    <3> QED
      BY <3>3, <3>4
  <2> QED
    BY <2>1, <2>2 DEF Matches
<1> QED
  BY <1>8, <1>10

\* Taking a part away from a finite set.
LEMMA CardinalityRest ==
  ASSUME NEW S, NEW T \in SUBSET S, IsFiniteSet(S)
  PROVE  /\ Cardinality(S) \in Nat /\ Cardinality(T) \in Nat
         /\ Cardinality(S \ T) = Cardinality(S) - Cardinality(T)
         /\ Cardinality(T) <= Cardinality(S)
         /\ Cardinality(S) = Cardinality(T) => S = T
<1>1. IsFiniteSet(T) /\ S \cap T = T
  BY FS_Subset
<1> QED
  BY ZenonT(40), <1>1, FS_Subset, FS_Difference, FS_CardinalityType

\* The live agents are finitely many, as panes are.
LEMMA LiveFinite == ASSUME WellFormed PROVE IsFiniteSet(Live(agents))
<1>1. Live(agents) \in SUBSET Panes
  BY DEF WellFormed, Live
<1> QED
  BY <1>1, PanesAssumption, FS_Subset

\* When the counts are right no decrement of live agents is skipped.
LEMMA CountedAll ==
  ASSUME WellFormed, CountsMatch, NEW A \in SUBSET Live(agents)
  PROVE  Counted(A) = A
<1> DEFINE Right(U) ==
             \A p \in A :
               LET w == agents[p].ws
                   s == agents[p].status
                   n == Count(counts.workspace, <<w, s>>)
                   k == Cardinality(InBucket(A, w, s))
               IN Cardinality(InBucket(U, w, s)) = IF k <= n THEN k ELSE n
<1>1. ASSUME NEW p \in A
      PROVE  LET w == agents[p].ws
                 s == agents[p].status
             IN /\ IsFiniteSet(InBucket(A, w, s))
                /\ Cardinality(InBucket(A, w, s)) <= Count(counts.workspace, <<w, s>>)
  <2> DEFINE w == agents[p].ws
             s == agents[p].status
  <2>1. w \in Workspaces /\ s \in Status
    BY DEF WellFormed, AgentRecord, Live
  <2>2. InBucket(A, w, s) \in SUBSET InBucket(Live(agents), w, s)
    BY DEF InBucket, InState
  <2>3. IsFiniteSet(InBucket(Live(agents), w, s))
    <3>1. InBucket(Live(agents), w, s) \in SUBSET Live(agents)
      BY DEF InBucket, InState
    <3> QED
      BY <3>1, LiveFinite, FS_Subset
  <2>4. Count(counts.workspace, <<w, s>>) = Cardinality(InBucket(Live(agents), w, s))
    BY <2>1 DEF CountsMatch
  <2> HIDE DEF w, s
  <2>5. /\ IsFiniteSet(InBucket(A, w, s))
        /\ Cardinality(InBucket(A, w, s)) <= Cardinality(InBucket(Live(agents), w, s))
    BY <2>2, <2>3, FS_Subset
  <2> QED
    BY <2>4, <2>5 DEF w, s
<1>2. A \in SUBSET A /\ Right(A)
  BY <1>1
<1>3. Counted(A) \in SUBSET A /\ Right(Counted(A))
  <2>1. Counted(A) = CHOOSE U \in SUBSET A : Right(U)
    BY DEF Counted
  <2> HIDE DEF Right
  <2> QED
    BY <1>2, <2>1
<1>4. ASSUME NEW p \in A
      PROVE  p \in Counted(A)
  <2> DEFINE w == agents[p].ws
             s == agents[p].status
  <2>1. InBucket(Counted(A), w, s) \in SUBSET InBucket(A, w, s)
    BY <1>3 DEF InBucket, InState
  <2>2. Cardinality(InBucket(Counted(A), w, s)) = Cardinality(InBucket(A, w, s))
    BY <1>1, <1>3
  <2>3. InBucket(Counted(A), w, s) = InBucket(A, w, s)
    BY <1>1, <2>1, <2>2, FS_Subset
  <2>4. p \in InBucket(A, w, s)
    BY DEF InBucket, InState
  <2> QED
    BY <2>3, <2>4 DEF InBucket, InState
<1> QED
  BY <1>3, <1>4

\* Counting fewer live agents.
LEMMA MatchesDecr ==
  ASSUME WellFormed, CountsMatch, NEW A \in SUBSET Live(agents)
  PROVE  CountsOK(Decr(A)) /\ Matches(Decr(A), agents, Live(agents) \ A)
<1> DEFINE L == Live(agents)
           d == Decr(A)
           g == counts.global
           b == counts.workspace
<1>1. Counted(A) = A
  BY CountedAll
<1>2. /\ d.global = [s \in DOMAIN g |->
                       IF g[s] - Cardinality(InState(A, s)) > 0
                         THEN g[s] - Cardinality(InState(A, s)) ELSE 0]
      /\ d.workspace = [k \in {x \in DOMAIN b :
                                 b[x] - Cardinality(InBucket(A, x[1], x[2])) > 0} |->
                          b[k] - Cardinality(InBucket(A, k[1], k[2]))]
  BY <1>1 DEF Decr
<1>3. CountsOK(counts) /\ Matches(counts, agents, L)
  BY MatchesLive DEF WellFormed, CountsOK
<1>4. ASSUME NEW s \in Status
      PROVE  /\ Cardinality(InState(A, s)) \in Nat
             /\ Count(g, s) \in Nat
             /\ Cardinality(With(agents, L \ A, s)) = Count(g, s) - Cardinality(InState(A, s))
             /\ Cardinality(InState(A, s)) <= Count(g, s)
  <2> DEFINE S == With(agents, L, s)
             T == InState(A, s)
  <2>1. T \in SUBSET S /\ With(agents, L \ A, s) = S \ T /\ S \in SUBSET L
    BY DEF With, InState
  <2>2. IsFiniteSet(S)
    BY <2>1, LiveFinite, FS_Subset
  <2>3. Count(g, s) = Cardinality(S)
    BY <1>3 DEF Matches
  <2> HIDE DEF S, T
  <2>4. /\ Cardinality(S) \in Nat /\ Cardinality(T) \in Nat
        /\ Cardinality(S \ T) = Cardinality(S) - Cardinality(T)
        /\ Cardinality(T) <= Cardinality(S)
    BY <2>1, <2>2, CardinalityRest
  <2> QED
    BY <2>1, <2>3, <2>4 DEF T
<1>5. ASSUME NEW w \in Workspaces, NEW s \in Status
      PROVE  /\ Cardinality(InBucket(A, w, s)) \in Nat
             /\ Count(b, <<w, s>>) \in Nat
             /\ Cardinality(WithIn(agents, L \ A, w, s))
                  = Count(b, <<w, s>>) - Cardinality(InBucket(A, w, s))
             /\ Cardinality(InBucket(A, w, s)) <= Count(b, <<w, s>>)
  <2> DEFINE S == WithIn(agents, L, w, s)
             T == InBucket(A, w, s)
  <2>1. T \in SUBSET S /\ WithIn(agents, L \ A, w, s) = S \ T /\ S \in SUBSET L
    BY DEF With, WithIn, InBucket, InState
  <2>2. IsFiniteSet(S)
    BY <2>1, LiveFinite, FS_Subset
  <2>3. Count(b, <<w, s>>) = Cardinality(S)
    BY <1>3 DEF Matches
  <2> HIDE DEF S, T
  <2>4. /\ Cardinality(S) \in Nat /\ Cardinality(T) \in Nat
        /\ Cardinality(S \ T) = Cardinality(S) - Cardinality(T)
        /\ Cardinality(T) <= Cardinality(S)
    BY <2>1, <2>2, CardinalityRest
  <2> QED
    BY <2>1, <2>3, <2>4 DEF T
<1>6. ASSUME NEW s \in Status
      PROVE  Count(d.global, s) = Cardinality(With(agents, L \ A, s))
  <2> DEFINE n == Cardinality(InState(A, s))
  <2>1. n \in Nat /\ Count(g, s) \in Nat /\ n <= Count(g, s)
        /\ Cardinality(With(agents, L \ A, s)) = Count(g, s) - n
    BY <1>4
  <2>2. s \in DOMAIN g => d.global[s] = IF g[s] - n > 0 THEN g[s] - n ELSE 0
    BY <1>2
  <2>3. DOMAIN d.global = DOMAIN g
    BY <1>2
  <2> HIDE DEF d, n, g
  <2> QED
    BY <2>1, <2>2, <2>3 DEF Count
<1>7. ASSUME NEW w \in Workspaces, NEW s \in Status
      PROVE  Count(d.workspace, <<w, s>>) = Cardinality(WithIn(agents, L \ A, w, s))
  <2> DEFINE k == <<w, s>>
             n == Cardinality(InBucket(A, w, s))
  <2>1. n = Cardinality(InBucket(A, k[1], k[2]))
    OBVIOUS
  <2>2. n \in Nat /\ Count(b, k) \in Nat /\ n <= Count(b, k)
        /\ Cardinality(WithIn(agents, L \ A, w, s)) = Count(b, k) - n
    BY <1>5
  <2> HIDE DEF d, k, n
  <2>3. CASE k \in DOMAIN b /\ b[k] - n > 0
    BY <1>2, <2>1, <2>2, <2>3 DEF Count, k
  <2>4. CASE ~(k \in DOMAIN b /\ b[k] - n > 0)
    BY <1>2, <2>1, <2>2, <2>4 DEF Count, k
  <2> QED
    BY <2>3, <2>4
<1>8. CountsOK(d)
  <2> HIDE DEF d
  <2>1. \A s \in DOMAIN g : s \in Status /\ g[s] \in Nat /\ Cardinality(InState(A, s)) \in Nat
    BY <1>3, <1>4 DEF CountsOK
  <2>2. \A k \in DOMAIN b : /\ k \in Workspaces \X Status /\ b[k] \in Nat
                            /\ Cardinality(InBucket(A, k[1], k[2])) \in Nat
    BY <1>3, <1>5 DEF CountsOK
  <2>3. DOMAIN d.global \subseteq Status /\ \A s \in DOMAIN d.global : d.global[s] \in Nat
    BY <1>2, <2>1
  <2>4. /\ DOMAIN d.workspace \subseteq Workspaces \X Status
        /\ \A k \in DOMAIN d.workspace : d.workspace[k] \in Nat \ {0}
    BY <1>2, <2>2
  <2> QED
    BY <2>3, <2>4 DEF CountsOK
<1> QED
  BY <1>6, <1>7, <1>8 DEF Matches

-----------------------------------------------------------------------------
(* The parts of WellFormed.                                                 *)

RecordsOK ==
  /\ workspaces \subseteq Workspaces
  /\ MapOf(tabs, Tabs, TabRecord)
  /\ MapOf(panes, Panes, PaneRecord)
  /\ MapOf(agents, Panes, AgentRecord)
  /\ MapOf(sessions, Sessions, Attribution)

ClocksOK == now \in Nat \ {0} /\ sampledTo \in [Panes -> Nat] /\ panicked \in BOOLEAN

\* WellFormed by its three parts: the records, the clocks and the counts.
LEMMA TypeParts == WellFormed <=> RecordsOK /\ ClocksOK /\ CountsOK(counts)
  BY DEF WellFormed, RecordsOK, ClocksOK, CountsOK, MapOf

\* The same of the next state.
LEMMA TypePartsNext ==
  ASSUME RecordsOK', ClocksOK', CountsOK(counts') PROVE WellFormed'
  BY DEF WellFormed, RecordsOK, ClocksOK, CountsOK, MapOf

\* Whether a call emits or not, the clocks stay natural.
LEMMA SampleClocks ==
  ASSUME ClocksOK, NEW A, NEW tr, Emit(A, tr) \/ Silent,
         UNCHANGED panicked, now' \in Nat \ {0}
  PROVE  ClocksOK'
  BY DEF ClocksOK, Emit, Silent

\* A call that leaves the agents and the counts alone leaves them matching.
LEMMA SameAgents ==
  ASSUME WellFormed, CountsMatch, UNCHANGED <<agents, counts>>
  PROVE  CountsMatch' /\ CountsOK(counts') /\ MapOf(agents', Panes, AgentRecord)
<1>1. CountsMatch'
  BY DEF CountsMatch, InState, InBucket
<1>2. CountsOK(counts) /\ MapOf(agents, Panes, AgentRecord)
  BY TypeParts DEF RecordsOK
<1> QED
  BY <1>1, <1>2

\* MatchesLive of the next state.
LEMMA MatchesLiveNext ==
  ASSUME Matches(counts', agents', Live(agents')) PROVE CountsMatch'
  BY DEF CountsMatch, Matches, With, WithIn, InState, InBucket

\* A place names a known pane, workspace and tab.
LEMMA PlaceParts ==
  ASSUME NEW pl \in Places PROVE pl[1] \in Panes /\ pl[2] \in Workspaces /\ pl[3] \in Tabs
  BY PlacesAssumption

-----------------------------------------------------------------------------
(* One lemma per operation: it preserves the types and the counts.         *)

\* ApplyWorkspaceCreated keeps types and counts.
LEMMA WorkspaceCreatedStep ==
  ASSUME WellFormed, CountsMatch, NEW w \in Workspaces, ApplyWorkspaceCreated(w)
  PROVE  WellFormed' /\ CountsMatch'
<1>1. CountsMatch' /\ CountsOK(counts') /\ MapOf(agents', Panes, AgentRecord)
  BY SameAgents DEF ApplyWorkspaceCreated
<1>2. ClocksOK'
  BY TypeParts, SampleClocks DEF ApplyWorkspaceCreated, ClocksOK
<1>3. RecordsOK'
  BY <1>1, TypeParts DEF ApplyWorkspaceCreated, RecordsOK
<1> QED
  BY <1>1, <1>2, <1>3, TypePartsNext

\* Writing a tab's workspace keeps the tabs well formed.
LEMMA TabRecords ==
  ASSUME RecordsOK, NEW t \in Tabs, NEW w \in Workspaces \cup {None}
  PROVE  MapOf(Put(tabs, t, [At(tabs, t, NewTab) EXCEPT !.ws = w]), Tabs, TabRecord)
<1>1. At(tabs, t, NewTab) \in TabRecord
  BY DEF RecordsOK, MapOf, At, NewTab, TabRecord, Zero
<1>2. [At(tabs, t, NewTab) EXCEPT !.ws = w] \in TabRecord
  BY <1>1 DEF TabRecord
<1> QED
  BY <1>2, PutMap DEF RecordsOK

\* ApplyTabCreated keeps types and counts.
LEMMA TabCreatedStep ==
  ASSUME WellFormed, CountsMatch, NEW t \in Tabs, NEW w \in Workspaces, ApplyTabCreated(t, w)
  PROVE  WellFormed' /\ CountsMatch'
<1>1. CountsMatch' /\ CountsOK(counts') /\ MapOf(agents', Panes, AgentRecord)
  BY SameAgents DEF ApplyTabCreated
<1>2. ClocksOK'
  BY TypeParts, SampleClocks DEF ApplyTabCreated, ClocksOK
<1>3. MapOf(tabs', Tabs, TabRecord)
  BY TypeParts, TabRecords DEF ApplyTabCreated
<1>4. RecordsOK'
  BY <1>1, <1>3, TypeParts DEF ApplyTabCreated, RecordsOK
<1> QED
  BY <1>1, <1>2, <1>4, TypePartsNext

\* ApplyTabRenamed keeps types and counts, with or without a workspace.
LEMMA TabRenamedStep ==
  ASSUME WellFormed, CountsMatch, NEW t \in Tabs, NEW w \in Workspaces \cup {None},
         ApplyTabRenamed(t, w)
  PROVE  WellFormed' /\ CountsMatch'
<1>1. CountsMatch' /\ CountsOK(counts') /\ MapOf(agents', Panes, AgentRecord)
  BY SameAgents DEF ApplyTabRenamed
<1>2. ClocksOK'
  BY TypeParts, SampleClocks DEF ApplyTabRenamed, ClocksOK
<1>3. MapOf(tabs', Tabs, TabRecord)
  <2> DEFINE r == At(tabs, t, NewTab)
             v == IF w = None THEN r.ws ELSE w
  <2>1. r \in TabRecord
    BY TypeParts DEF RecordsOK, MapOf, At, NewTab, TabRecord, Zero
  <2>2. v \in Workspaces \cup {None}
    BY <2>1 DEF TabRecord
  <2>3. tabs' = Put(tabs, t, [r EXCEPT !.ws = v])
    BY DEF ApplyTabRenamed
  <2> QED
    BY <2>2, <2>3, TypeParts, TabRecords
<1>4. RecordsOK'
  BY <1>1, <1>3, TypeParts DEF ApplyTabRenamed, RecordsOK
<1> QED
  BY <1>1, <1>2, <1>4, TypePartsNext

\* The cascades, by tab, pane or workspace: the closed agents' counts go.
LEMMA CloseAllStep ==
  ASSUME WellFormed, CountsMatch, NEW T, NEW P, NEW A, CloseAll(T, P, A),
         workspaces' \subseteq Workspaces
  PROVE  WellFormed' /\ CountsMatch'
<1> DEFINE C == A \cap Live(agents)
<1>1. RecordsOK /\ ClocksOK /\ CountsOK(counts) /\ now \in Nat \ {0}
  BY TypeParts DEF ClocksOK
<1>2. CountsOK(counts') /\ Matches(counts', agents, Live(agents) \ C)
  BY MatchesDecr DEF CloseAll
<1>3. Live(agents') = Live(agents) \ C
  <2>1. DOMAIN agents' = DOMAIN agents
    BY DEF CloseAll
  <2>2. \A p \in C : agents'[p].closedAt = now
    BY <1>1 DEF CloseAll, Live, RecordsOK, MapOf, AgentRecord
  <2>3. \A p \in DOMAIN agents \ C : agents'[p] = agents[p]
    BY DEF CloseAll
  <2> QED
    BY <1>1, <2>1, <2>2, <2>3 DEF Live, Zero
<1>4. \A p \in Live(agents) \ C : agents'[p] = agents[p]
  BY DEF CloseAll, Live
<1>5. CountsMatch'
  BY <1>2, <1>3, <1>4, MatchesSame, MatchesLiveNext
<1>6. MapOf(agents', Panes, AgentRecord)
  BY <1>1 DEF CloseAll, RecordsOK, MapOf, AgentRecord
<1>7. MapOf(tabs', Tabs, TabRecord) /\ MapOf(panes', Panes, PaneRecord)
  BY <1>1, CloseMap DEF CloseAll, RecordsOK
<1>8. ClocksOK'
  BY <1>1, SampleClocks DEF CloseAll
<1>9. RecordsOK'
  BY <1>1, <1>6, <1>7 DEF CloseAll, RecordsOK
<1> QED
  BY <1>2, <1>5, <1>8, <1>9, TypePartsNext

\* ApplyPaneCreated keeps types and counts.
LEMMA PaneCreatedStep ==
  ASSUME WellFormed, CountsMatch, NEW p \in Panes, NEW w \in Workspaces, NEW t \in Tabs,
         ApplyPaneCreated(p, w, t)
  PROVE  WellFormed' /\ CountsMatch'
<1>1. CountsMatch' /\ CountsOK(counts') /\ MapOf(agents', Panes, AgentRecord)
  BY SameAgents DEF ApplyPaneCreated
<1>2. ClocksOK'
  BY TypeParts, SampleClocks DEF ApplyPaneCreated, ClocksOK
<1>3. [NewPane EXCEPT !.ws = w, !.tab = t] \in PaneRecord
  BY DEF NewPane, PaneRecord, Status, Zero
<1>4. MapOf(panes', Panes, PaneRecord) /\ MapOf(tabs', Tabs, TabRecord)
  BY <1>3, TypeParts, TabRecords, PutMap DEF ApplyPaneCreated, RecordsOK
<1>5. RecordsOK'
  BY <1>1, <1>4, TypeParts DEF ApplyPaneCreated, RecordsOK
<1> QED
  BY <1>1, <1>2, <1>5, TypePartsNext

\* ApplyAgentDetected keeps types and counts.
LEMMA AgentDetectedStep ==
  ASSUME WellFormed, CountsMatch, NEW p \in Panes, NEW a \in Agents \cup {None}, ApplyAgentDetected(p, a)
  PROVE  WellFormed' /\ CountsMatch'
<1>1. CountsMatch' /\ CountsOK(counts') /\ MapOf(agents', Panes, AgentRecord)
  BY SameAgents DEF ApplyAgentDetected
<1>2. ClocksOK'
  BY TypeParts, SampleClocks DEF ApplyAgentDetected, ClocksOK
<1>3. At(panes, p, NewPane) \in PaneRecord
  BY TypeParts DEF RecordsOK, MapOf, At, NewPane, PaneRecord, Status, Zero
<1>4. [At(panes, p, NewPane) EXCEPT !.agent = a] \in PaneRecord
  BY <1>3 DEF PaneRecord
<1>5. MapOf(panes', Panes, PaneRecord)
  BY <1>4, TypeParts, PutMap DEF ApplyAgentDetected, RecordsOK
<1>6. RecordsOK'
  BY <1>1, <1>5, TypeParts DEF ApplyAgentDetected, RecordsOK
<1> QED
  BY <1>1, <1>2, <1>6, TypePartsNext

\* A status event's pane record.
LEMMA PaneUpserted ==
  ASSUME RecordsOK, NEW p \in Panes, NEW w \in Workspaces, NEW a \in Agents \cup {None}, NEW s \in Reported,
         UpsertPane(p, w, a, s)
  PROVE  MapOf(panes', Panes, PaneRecord)
<1>1. At(panes, p, NewPane) \in PaneRecord
  BY DEF RecordsOK, MapOf, At, NewPane, PaneRecord, Status, Zero
<1>2. [At(panes, p, NewPane) EXCEPT !.ws = w, !.agent = a, !.status = s] \in PaneRecord
  BY <1>1, ReportedAssumption DEF PaneRecord
<1> QED
  BY <1>2, PutMap DEF UpsertPane, RecordsOK

\* The record an agent starts a state with is well formed.
LEMMA NewAgentRecord ==
  ASSUME ClocksOK, NEW w \in Workspaces, NEW s \in Status
  PROVE  NewAgent(w, s) \in AgentRecord
  BY DEF NewAgent, AgentRecord, ClocksOK, Zero

\* So is the record of an agent that enters another state, and it is still live.
LEMMA EnteredRecord ==
  ASSUME ClocksOK, NEW r \in AgentRecord, NEW w \in Workspaces, NEW s \in Status
  PROVE  LET e == Entered(r, w, s)
         IN /\ e \in AgentRecord /\ e.ws = w /\ e.status = s /\ e.enteredAt = now
            /\ e.closedAt = r.closedAt /\ e.ledger = r.ledger
            /\ e.attentionAt = IF s = "done" THEN now
                               ELSE IF r.status = "done" THEN Zero ELSE r.attentionAt
  BY DEF Entered, AgentRecord, ClocksOK, Zero

\* The record a transition or a seen-flip writes.
LEMMA MovedAgent ==
  ASSUME WellFormed, NEW p \in Live(agents), NEW w \in Workspaces, NEW s \in Status,
         Move(p, w, s)
  PROVE  /\ DOMAIN agents' = DOMAIN agents /\ p \in DOMAIN agents
         /\ \A q \in DOMAIN agents \ {p} : agents'[q] = agents[q]
         /\ agents'[p] \in AgentRecord
         /\ agents'[p].ws = w /\ agents'[p].status = s /\ agents'[p].enteredAt = now
         /\ agents'[p].closedAt = Zero /\ agents'[p].ledger
         /\ agents'[p].attentionAt = IF s = "done" THEN now
                                     ELSE IF agents[p].status = "done" THEN Zero
                                     ELSE agents[p].attentionAt
<1>1. /\ p \in DOMAIN agents /\ agents[p] \in AgentRecord /\ agents[p].closedAt = Zero
      /\ ClocksOK
  BY TypeParts DEF WellFormed, Live
<1>2. agents[p].ledger /\ agents' = [agents EXCEPT ![p] = Entered(agents[p], w, s)]
  BY DEF Move
<1>3. /\ DOMAIN agents' = DOMAIN agents /\ agents'[p] = Entered(agents[p], w, s)
      /\ \A q \in DOMAIN agents \ {p} : agents'[q] = agents[q]
  BY <1>1, <1>2
<1> QED
  BY <1>1, <1>2, <1>3, EnteredRecord

\* A transition or a seen-flip of a live agent: it leaves one count and joins
\* another, possibly in another workspace.
LEMMA MoveStep ==
  ASSUME WellFormed, CountsMatch, NEW p \in Live(agents), NEW w \in Workspaces, NEW s \in Status,
         Move(p, w, s), UNCHANGED <<now, panicked>>
  PROVE  /\ CountsMatch' /\ CountsOK(counts') /\ MapOf(agents', Panes, AgentRecord)
         /\ ClocksOK'
<1>1. RecordsOK /\ ClocksOK /\ CountsOK(counts) /\ now \in Nat \ {0}
  BY TypeParts DEF ClocksOK
<1> DEFINE left == Decr({p})
           L == Live(agents) \ {p}
<1>2. CountsOK(left) /\ Matches(left, agents, L)
  BY MatchesDecr
<1>3. p \in DOMAIN agents /\ p \in Panes
  BY <1>1 DEF Live, RecordsOK, MapOf
<1>4. counts' = Incr(left, w, s)
  BY DEF Move
<1>5. /\ DOMAIN agents' = DOMAIN agents /\ agents'[p] \in AgentRecord
      /\ \A q \in DOMAIN agents \ {p} : agents'[q] = agents[q]
  BY MovedAgent
<1>6. agents'[p].status = s /\ agents'[p].ws = w /\ agents'[p].closedAt = Zero
  BY MovedAgent
<1>7. Live(agents') = L \cup {p}
  BY <1>3, <1>5, <1>6 DEF Live
<1>8. IsFiniteSet(L)
  BY LiveFinite, FS_RemoveElement
<1>9. \A q \in L : agents'[q].status = agents[q].status /\ agents'[q].ws = agents[q].ws
  BY <1>5 DEF Live
<1> HIDE DEF left, L
<1>10. p \notin L
  BY DEF L
<1>11. CountsOK(counts') /\ Matches(counts', agents', L \cup {p})
  BY <1>2, <1>4, <1>6, <1>8, <1>9, <1>10, MatchesIncr
<1>12. CountsMatch'
  BY <1>7, <1>11, MatchesLiveNext
<1>13. MapOf(agents', Panes, AgentRecord)
  BY <1>1, <1>5 DEF RecordsOK, MapOf
<1>14. ClocksOK'
  BY <1>1, SampleClocks DEF Move
<1> QED
  BY <1>11, <1>12, <1>13, <1>14

\* ApplyAgentStatusChanged keeps types and counts, whether the event is absorbed,
\* first, repeated or a transition.
LEMMA StatusChangedStep ==
  ASSUME WellFormed, CountsMatch, NEW p \in Panes, NEW w \in Workspaces, NEW a \in Agents \cup {None},
         NEW s \in Reported, ApplyAgentStatusChanged(p, w, a, s)
  PROVE  WellFormed' /\ CountsMatch'
<1>1. /\ RecordsOK /\ ClocksOK /\ CountsOK(counts) /\ now \in Nat \ {0} /\ s \in Status
      /\ UNCHANGED <<workspaces, tabs, sessions, now, panicked>>
  BY TypeParts, ReportedAssumption DEF ClocksOK, ApplyAgentStatusChanged
<1> SUFFICES /\ CountsMatch' /\ CountsOK(counts') /\ MapOf(agents', Panes, AgentRecord)
             /\ ClocksOK' /\ MapOf(panes', Panes, PaneRecord)
  BY <1>1, TypePartsNext DEF RecordsOK
<1>2. CASE StatusAbsorbed(p)
  BY <1>1, <1>2, SameAgents, SampleClocks DEF StatusAbsorbed, RecordsOK
<1>3. CASE StatusFirstSeen(p, w, a, s)
  <2>1. /\ DOMAIN agents' = DOMAIN agents \cup {p} /\ agents'[p] = NewAgent(w, s)
        /\ \A q \in DOMAIN agents : agents'[q] = agents[q]
        /\ p \notin DOMAIN agents
    BY <1>3 DEF StatusFirstSeen, Put
  <2>2. agents'[p].status = s /\ agents'[p].ws = w /\ agents'[p].closedAt = Zero
    BY <2>1 DEF NewAgent
  <2>3. Live(agents') = Live(agents) \cup {p} /\ p \notin Live(agents)
    BY <2>1, <2>2 DEF Live
  <2>4. Matches(counts, agents, Live(agents)) /\ IsFiniteSet(Live(agents))
    BY MatchesLive, LiveFinite
  <2>5. \A q \in Live(agents) : agents'[q].status = agents[q].status /\ agents'[q].ws = agents[q].ws
    BY <2>1 DEF Live
  <2>6. counts' = Incr(counts, w, s)
    BY <1>3 DEF StatusFirstSeen
  <2>7. CountsOK(counts') /\ Matches(counts', agents', Live(agents) \cup {p})
    BY <1>1, <2>2, <2>3, <2>4, <2>5, <2>6, MatchesIncr
  <2>8. CountsMatch'
    BY <2>3, <2>7, MatchesLiveNext
  <2>9. MapOf(agents', Panes, AgentRecord)
    BY <1>1, <2>1, NewAgentRecord DEF RecordsOK, MapOf
  <2>10. ClocksOK' /\ MapOf(panes', Panes, PaneRecord)
    BY <1>1, <1>3, SampleClocks, PaneUpserted DEF StatusFirstSeen
  <2> QED
    BY <2>7, <2>8, <2>9, <2>10
<1>4. CASE StatusRepeated(p, w, a, s)
  BY <1>1, <1>4, SameAgents, SampleClocks, PaneUpserted DEF StatusRepeated
<1>5. CASE StatusTransition(p, w, a, s)
  <2>1. p \in Live(agents)
    BY <1>5 DEF StatusTransition, UpsertPane, Closed
  <2> QED
    BY <1>1, <1>5, <2>1, MoveStep, PaneUpserted DEF StatusTransition
<1> QED
  BY <1>2, <1>3, <1>4, <1>5 DEF ApplyAgentStatusChanged

\* ApplySeenFlip keeps types and counts.
LEMMA SeenFlipStep ==
  ASSUME WellFormed, CountsMatch, NEW p \in Panes, ApplySeenFlip(p)
  PROVE  WellFormed' /\ CountsMatch'
<1>1. /\ RecordsOK /\ ClocksOK /\ CountsOK(counts) /\ now \in Nat \ {0}
      /\ UNCHANGED <<workspaces, tabs, sessions, now, panicked>>
  BY TypeParts DEF ClocksOK, ApplySeenFlip
<1> SUFFICES /\ CountsMatch' /\ CountsOK(counts') /\ MapOf(agents', Panes, AgentRecord)
             /\ ClocksOK' /\ MapOf(panes', Panes, PaneRecord)
  BY <1>1, TypePartsNext DEF RecordsOK
<1>2. CASE p \in InState(Live(agents), "done")
  <2>1. Move(p, agents[p].ws, "idle") /\ p \in Live(agents)
    BY <1>2 DEF ApplySeenFlip, InState
  <2>2. agents[p].ws \in Workspaces /\ "idle" \in Status
    BY <1>1, <2>1 DEF RecordsOK, MapOf, AgentRecord, Live, Status
  <2>3. MapOf(panes', Panes, PaneRecord)
    BY <1>1, <1>2 DEF ApplySeenFlip, RecordsOK, MapOf, PaneRecord, Status
  <2> QED
    BY <1>1, <2>1, <2>2, <2>3, MoveStep
<1>3. CASE p \notin InState(Live(agents), "done")
  BY <1>1, <1>3, SameAgents, SampleClocks DEF ApplySeenFlip, RecordsOK
<1> QED
  BY <1>2, <1>3

\* EvictExpired drops no live record, so it keeps types and counts.
LEMMA EvictStep ==
  ASSUME WellFormed, CountsMatch, EvictExpired
  PROVE  WellFormed' /\ CountsMatch'
<1>1. RecordsOK /\ ClocksOK /\ CountsOK(counts) /\ now \in Nat \ {0}
  BY TypeParts DEF ClocksOK
<1>2. /\ MapOf(tabs', Tabs, TabRecord) /\ MapOf(panes', Panes, PaneRecord)
      /\ MapOf(agents', Panes, AgentRecord) /\ Live(agents') = Live(agents)
      /\ \A p \in DOMAIN agents' : p \in DOMAIN agents /\ agents'[p] = agents[p]
  BY <1>1, EvictMap DEF EvictExpired, RecordsOK
<1>3. \A p \in Live(agents) : agents'[p] = agents[p]
  BY <1>2 DEF Live
<1>4. Matches(counts, agents, Live(agents))
  BY MatchesLive
<1>5. CountsMatch'
  BY <1>2, <1>3, <1>4, MatchesSame, MatchesLiveNext DEF EvictExpired
<1>6. ClocksOK'
  BY <1>1, SampleClocks DEF EvictExpired
<1>7. RecordsOK' /\ CountsOK(counts')
  BY <1>1, <1>2 DEF EvictExpired, RecordsOK
<1> QED
  BY <1>5, <1>6, <1>7, TypePartsNext

\* The clock only moves forward.
LEMMA TickStep ==
  ASSUME WellFormed, CountsMatch, Tick
  PROVE  WellFormed' /\ CountsMatch'
<1>1. CountsMatch' /\ CountsOK(counts') /\ MapOf(agents', Panes, AgentRecord)
  BY SameAgents DEF Tick
<1>2. ClocksOK' /\ RecordsOK'
  BY TypeParts, SampleClocks DEF Tick, ClocksOK, RecordsOK
<1> QED
  BY <1>1, <1>2, TypePartsNext

\* What a snapshot says of a pane it lists.
LEMMA SnapshotEntry ==
  ASSUME NEW snap \in Snapshots, NEW p \in DOMAIN snap
  PROVE  /\ p \in Panes /\ snap[p].ws \in Workspaces /\ snap[p].tab \in Tabs
         /\ snap[p].agent \in Agents \cup {None} /\ snap[p].status \in Status
         /\ snap[p].session \in Sessions \cup {None}
<1>1. PICK P \in SUBSET Panes :
        snap \in {f \in [P -> Reports] : \A q \in P : f[q] \in PaneReports(q)}
  BY DEF Snapshots
<1>2. p \in Panes /\ snap[p] \in PaneReports(p)
  BY <1>1
<1>3. PICK pl \in Places, a \in Agents \cup {None}, s \in Reported, x \in Sessions \cup {None} :
        snap[p] = [ws |-> pl[2], tab |-> pl[3], agent |-> a, status |-> s, session |-> x]
  BY <1>2 DEF PaneReports
<1> QED
  BY <1>2, <1>3, PlaceParts, ReportedAssumption

\* A carried-over record stays well formed and keeps its state.
LEMMA CarriedRecord ==
  ASSUME NEW r \in AgentRecord, NEW w \in Workspaces
  PROVE  LET c == [r EXCEPT !.ws = w, !.closedAt = Zero]
         IN c \in AgentRecord /\ c.status = r.status /\ c.ws = w /\ c.closedAt = Zero
  BY DEF AgentRecord, Zero

\* A re-baseline rebuilds the counts with the agents they count.
LEMMA SnapshotStep ==
  ASSUME WellFormed, CountsMatch, NEW snap \in Snapshots, ApplySnapshot(snap)
  PROVE  WellFormed' /\ CountsMatch'
<1>1. RecordsOK /\ ClocksOK /\ CountsOK(counts) /\ now \in Nat \ {0} /\ now' = now
  BY TypeParts DEF ClocksOK, ApplySnapshot
<1> DEFINE held == {p \in DOMAIN snap : snap[p].agent # None}
           kept(p) == p \in DOMAIN agents /\ agents[p].status = snap[p].status
           having(s) == {p \in held : snap[p].status = s}
           at(w, s) == {p \in held : snap[p].ws = w /\ snap[p].status = s}
<1>2. \A p \in DOMAIN snap :
        /\ p \in Panes /\ snap[p].ws \in Workspaces /\ snap[p].tab \in Tabs
        /\ snap[p].agent \in Agents \cup {None} /\ snap[p].status \in Status
        /\ snap[p].session \in Sessions \cup {None}
  BY SnapshotEntry
<1>3. agents' = [p \in held |->
                   IF kept(p) THEN [agents[p] EXCEPT !.ws = snap[p].ws, !.closedAt = Zero]
                              ELSE NewAgent(snap[p].ws, snap[p].status)]
  BY DEF ApplySnapshot
<1>4. ASSUME NEW p \in held
      PROVE  /\ agents'[p] \in AgentRecord
             /\ agents'[p].status = snap[p].status
             /\ agents'[p].ws = snap[p].ws
             /\ agents'[p].closedAt = Zero
  <2>1. CASE kept(p)
    <3>1. agents[p] \in AgentRecord
      BY <1>1, <2>1 DEF RecordsOK, MapOf
    <3>2. agents'[p] = [agents[p] EXCEPT !.ws = snap[p].ws, !.closedAt = Zero]
      BY <1>3, <2>1
    <3>3. snap[p].ws \in Workspaces /\ agents[p].status = snap[p].status
      BY <1>2, <2>1
    <3> DEFINE r == agents[p]
               w == snap[p].ws
               c == [r EXCEPT !.ws = w, !.closedAt = Zero]
    <3>4. r \in AgentRecord /\ w \in Workspaces /\ agents'[p] = c /\ r.status = snap[p].status
      BY <3>1, <3>2, <3>3
    <3> HIDE DEF r, w
    <3>5. c \in AgentRecord /\ c.status = r.status /\ c.ws = w /\ c.closedAt = Zero
      BY <3>4, CarriedRecord
    <3> HIDE DEF c
    <3> QED
      BY <3>4, <3>5 DEF w
  <2>2. CASE ~kept(p)
    <3>1. agents'[p] = NewAgent(snap[p].ws, snap[p].status)
      BY <1>3, <2>2
    <3> QED
      BY <1>1, <1>2, <3>1, NewAgentRecord DEF NewAgent
  <2> QED
    BY <2>1, <2>2
<1>5. DOMAIN agents' = held /\ Live(agents') = held
  BY <1>3, <1>4 DEF Live
<1>6. MapOf(agents', Panes, AgentRecord)
  BY <1>2, <1>4, <1>5 DEF MapOf
<1>7. /\ \A s : With(agents', held, s) = having(s)
      /\ \A w, s : WithIn(agents', held, w, s) = at(w, s)
  BY <1>4 DEF With, WithIn
<1>8. /\ counts'.global = [s \in {snap[p].status : p \in held} |-> Cardinality(having(s))]
      /\ counts'.workspace = [k \in {<<snap[p].ws, snap[p].status>> : p \in held} |->
                                Cardinality(at(k[1], k[2]))]
  BY DEF ApplySnapshot
<1>9. IsFiniteSet(held)
  <2>1. held \in SUBSET Panes
    BY <1>2
  <2> QED
    BY <2>1, PanesAssumption, FS_Subset
<1>10. /\ \A s : IsFiniteSet(having(s)) /\ Cardinality(having(s)) \in Nat
       /\ \A w, s : IsFiniteSet(at(w, s)) /\ Cardinality(at(w, s)) \in Nat
  <2>1. \A s : having(s) \in SUBSET held
    OBVIOUS
  <2>2. \A w, s : at(w, s) \in SUBSET held
    OBVIOUS
  <2> HIDE DEF held, having, at
  <2> QED
    BY <1>9, <2>1, <2>2, FS_Subset, FS_CardinalityType
<1>11. ASSUME NEW s \in Status
       PROVE  Count(counts'.global, s) = Cardinality(With(agents', held, s))
  <2>1. CASE s \in {snap[p].status : p \in held}
    BY <1>7, <1>8, <2>1 DEF Count
  <2>2. CASE s \notin {snap[p].status : p \in held}
    <3>1. having(s) = {}
      BY <2>2
    <3> QED
      BY <1>7, <1>8, <2>2, <3>1, FS_EmptySet DEF Count
  <2> QED
    BY <2>1, <2>2
<1>12. ASSUME NEW w \in Workspaces, NEW s \in Status
       PROVE  Count(counts'.workspace, <<w, s>>) = Cardinality(WithIn(agents', held, w, s))
  <2>1. CASE <<w, s>> \in {<<snap[p].ws, snap[p].status>> : p \in held}
    BY <1>7, <1>8, <2>1 DEF Count
  <2>2. CASE <<w, s>> \notin {<<snap[p].ws, snap[p].status>> : p \in held}
    <3>1. WithIn(agents', held, w, s) = {}
      BY <1>7, <2>2
    <3>2. <<w, s>> \notin DOMAIN counts'.workspace
      BY <1>8, <2>2
    <3> HIDE DEF held, at
    <3> QED
      BY <3>1, <3>2, FS_EmptySet DEF Count
  <2> QED
    BY <2>1, <2>2
<1>13. CountsMatch'
  BY <1>5, <1>11, <1>12, MatchesLiveNext DEF Matches
<1>14. CountsOK(counts')
  <2>1. ASSUME NEW k \in DOMAIN counts'.workspace
        PROVE  k \in Workspaces \X Status /\ counts'.workspace[k] \in Nat \ {0}
    <3>1. PICK p \in held : k = <<snap[p].ws, snap[p].status>>
      BY <1>8
    <3>2. p \in at(k[1], k[2])
      BY <3>1
    <3>3. counts'.workspace[k] = Cardinality(at(k[1], k[2]))
      BY <1>8
    <3>4. Cardinality(at(k[1], k[2])) \in Nat \ {0}
      <4> DEFINE X == at(k[1], k[2])
      <4>1. IsFiniteSet(X) /\ Cardinality(X) \in Nat /\ X # {}
        BY ZenonT(40), <1>10, <3>2
      <4>2. Cardinality(X) # 0
        <5> HIDE DEF X
        <5> QED
          BY <4>1, FS_EmptySet
      <4> QED
        BY <4>1, <4>2
    <3> QED
      BY <1>2, <3>1, <3>3, <3>4
  <2>2. ASSUME NEW s \in DOMAIN counts'.global
        PROVE  s \in Status /\ counts'.global[s] \in Nat
    <3>1. s \in {snap[p].status : p \in held} /\ counts'.global[s] = Cardinality(having(s))
      BY <1>8
    <3>2. Cardinality(having(s)) \in Nat
      BY <1>10
    <3> HIDE DEF having
    <3> QED
      BY <1>2, <3>1, <3>2
  <2> QED
    BY <2>1, <2>2 DEF CountsOK
<1>15. MapOf(tabs', Tabs, TabRecord)
  <2>1. tabs' = [t \in SnapTabs(snap) |->
                   [ws |-> (CHOOSE r \in {snap[p] : p \in DOMAIN snap} : r.tab = t).ws,
                    closedAt |-> Zero]]
    BY DEF ApplySnapshot
  <2>2. ASSUME NEW t \in SnapTabs(snap)
        PROVE  t \in Tabs /\ tabs'[t] \in TabRecord
    <3> DEFINE R == {snap[p] : p \in DOMAIN snap}
               first == CHOOSE r \in R : r.tab = t
    <3>1. PICK p \in DOMAIN snap : t = snap[p].tab
      BY DEF SnapTabs
    <3>2. first \in R
      BY <3>1
    <3>3. first.ws \in Workspaces
      <4> HIDE DEF first
      <4> QED
        BY <1>2, <3>2
    <3>4. tabs'[t] = [ws |-> first.ws, closedAt |-> Zero]
      BY <2>1
    <3> HIDE DEF first
    <3> QED
      BY <1>2, <3>1, <3>3, <3>4 DEF TabRecord, Zero
  <2> QED
    BY <2>1, <2>2 DEF MapOf
<1>16. MapOf(panes', Panes, PaneRecord)
  BY <1>2 DEF ApplySnapshot, MapOf, PaneRecord, Zero
<1>17. MapOf(sessions', Sessions, Attribution)
  <2> DEFINE shown(x) == {p \in DOMAIN snap : snap[p].session = x}
  <2>1. PICK last \in [{x \in Sessions : shown(x) # {}} -> DOMAIN snap] :
          /\ \A x \in DOMAIN last : last[x] \in shown(x)
          /\ sessions' = [x \in DOMAIN last |->
               [pane |-> last[x], ws |-> snap[last[x]].ws, tab |-> snap[last[x]].tab,
                agent |-> SessionAgentType(snap[last[x]])]]
    BY DEF ApplySnapshot
  <2>2. ASSUME NEW x \in DOMAIN last
        PROVE  x \in Sessions /\ sessions'[x] \in Attribution
    <3>1. x \in Sessions /\ last[x] \in DOMAIN snap /\ snap[last[x]].session = x
      BY <2>1
    <3>2. SessionAgentType(snap[last[x]]) \in Agents \cup {None}
      BY <1>2, <3>1, SessionAgentAssumption DEF SessionAgentType
    <3>3. sessions'[x] = [pane |-> last[x], ws |-> snap[last[x]].ws, tab |-> snap[last[x]].tab,
                          agent |-> SessionAgentType(snap[last[x]])]
      BY <2>1
    <3> QED
      BY <1>2, <3>1, <3>2, <3>3 DEF Attribution
  <2> QED
    BY <2>1, <2>2 DEF MapOf
<1>18. workspaces' \subseteq Workspaces
  BY <1>2 DEF ApplySnapshot, SnapWorkspaces
<1>19. ClocksOK'
  BY <1>1, SampleClocks DEF ApplySnapshot
<1> QED
  BY <1>6, <1>13, <1>14, <1>15, <1>16, <1>17, <1>18, <1>19, TypePartsNext DEF RecordsOK

-----------------------------------------------------------------------------
(* The step and the invariants.                                            *)

\* A new tracker is well formed and counts nobody.
LEMMA TypeAndCountsInit == Init => WellFormed /\ CountsMatch
<1> SUFFICES ASSUME Init PROVE WellFormed /\ CountsMatch
  OBVIOUS
<1> DEFINE empty == <<>>
<1>1. DOMAIN empty = {}
  OBVIOUS
<1>2. /\ workspaces = {} /\ tabs = empty /\ panes = empty /\ agents = empty /\ sessions = empty
      /\ counts.global = empty /\ counts.workspace = empty
      /\ now = 1 /\ sampledTo = [p \in Panes |-> 0] /\ panicked = FALSE
  BY DEF Init, Zero
<1> HIDE DEF empty
<1>3. RecordsOK
  BY <1>1, <1>2 DEF RecordsOK, MapOf
<1>4. ClocksOK
  <2>1. now \in Nat \ {0} /\ sampledTo \in [Panes -> Nat]
    BY <1>2
  <2>2. panicked \in BOOLEAN
    BY <1>2
  <2> QED
    BY <2>1, <2>2 DEF ClocksOK
<1>5. CountsOK(counts)
  BY <1>1, <1>2 DEF CountsOK
<1>6. WellFormed
  BY <1>3, <1>4, <1>5, TypeParts
<1>7. Live(agents) = {}
  BY <1>1, <1>2 DEF Live
<1>8. \A k : Count(counts.global, k) = 0 /\ Count(counts.workspace, k) = 0
  BY <1>1, <1>2 DEF Count
<1>9. \A w, s : InState({}, s) = {} /\ InBucket({}, w, s) = {}
  BY DEF InState, InBucket
<1>10. CountsMatch
  BY <1>7, <1>8, <1>9, FS_EmptySet DEF CountsMatch
<1> QED
  BY <1>6, <1>10

\* Types and counts together are kept by every step of the tracker.
LEMMA TypeAndCountsStep == WellFormed /\ CountsMatch /\ [Next]_vars => WellFormed' /\ CountsMatch'
<1> SUFFICES ASSUME WellFormed, CountsMatch, [Next]_vars PROVE WellFormed' /\ CountsMatch'
  OBVIOUS
<1>1. CASE Event
  <2>1. PICK pl \in Places :
          \/ ApplyWorkspaceCreated(pl[2])
          \/ ApplyWorkspaceClosed(pl[2])
          \/ ApplyTabCreated(pl[3], pl[2])
          \/ ApplyTabClosed(pl[3])
          \/ \E w \in {pl[2], None} : ApplyTabRenamed(pl[3], w)
          \/ ApplyPaneCreated(pl[1], pl[2], pl[3])
          \/ ApplyPaneClosed(pl[1])
          \/ \E a \in Agents \cup {None} : ApplyAgentDetected(pl[1], a)
          \/ \E a \in Agents \cup {None}, s \in Reported : ApplyAgentStatusChanged(pl[1], pl[2], a, s)
    BY <1>1 DEF Event
  <2>2. pl[1] \in Panes /\ pl[2] \in Workspaces /\ pl[3] \in Tabs
    BY PlaceParts
  <2>3. CASE ApplyWorkspaceClosed(pl[2])
    BY <2>3, CloseAllStep DEF ApplyWorkspaceClosed, WellFormed
  <2>4. CASE ApplyTabClosed(pl[3])
    BY <2>4, CloseAllStep DEF ApplyTabClosed, WellFormed
  <2>5. CASE ApplyPaneClosed(pl[1])
    BY <2>5, CloseAllStep DEF ApplyPaneClosed, WellFormed
  <2>6. CASE ApplyWorkspaceCreated(pl[2])
    BY <2>2, <2>6, WorkspaceCreatedStep
  <2>7. CASE ApplyTabCreated(pl[3], pl[2])
    BY <2>2, <2>7, TabCreatedStep
  <2>8. CASE \E w \in {pl[2], None} : ApplyTabRenamed(pl[3], w)
    BY <2>2, <2>8, TabRenamedStep
  <2>9. CASE ApplyPaneCreated(pl[1], pl[2], pl[3])
    BY <2>2, <2>9, PaneCreatedStep
  <2>10. CASE \E a \in Agents \cup {None} : ApplyAgentDetected(pl[1], a)
    BY <2>2, <2>10, AgentDetectedStep
  <2>11. CASE \E a \in Agents \cup {None}, s \in Reported : ApplyAgentStatusChanged(pl[1], pl[2], a, s)
    BY <2>2, <2>11, StatusChangedStep
  <2> QED
    BY <2>1, <2>3, <2>4, <2>5, <2>6, <2>7, <2>8, <2>9, <2>10, <2>11
<1>2. CASE \E p \in Panes : ApplySeenFlip(p) \/ NilMapPanic(p)
  <2>1. PICK p \in Panes : ApplySeenFlip(p) \/ NilMapPanic(p)
    BY <1>2
  <2>2. CASE ApplySeenFlip(p)
    BY <2>2, SeenFlipStep
  <2>3. CASE NilMapPanic(p)
    BY <2>3 DEF NilMapPanic, WellFormed, CountsMatch, InState, InBucket
  <2> QED
    BY <2>1, <2>2, <2>3
<1>3. CASE EvictExpired
  BY <1>3, EvictStep
<1>4. CASE Rebaseline
  BY <1>4, SnapshotStep DEF Rebaseline
<1>5. CASE Tick
  BY <1>5, TickStep
<1>6. CASE UNCHANGED vars
  BY <1>6 DEF vars, WellFormed, CountsMatch, InState, InBucket
<1> QED
  BY <1>1, <1>2, <1>3, <1>4, <1>5, <1>6 DEF Next

\* In every reachable state the tracker's records are well formed.
LEMMA WellFormedAlways == Spec => []WellFormed
<1>1. Spec => [](WellFormed /\ CountsMatch)
  BY TypeAndCountsInit, TypeAndCountsStep, PTL DEF Spec
<1> QED
  BY <1>1, PTL

\* The gauges are right in every reachable state: the counts of apply.go and
\* counts.go, kept incrementally, are the live agents in each state, overall and
\* per workspace.
THEOREM CountsCorrect == Spec => []CountsMatch
<1>1. Spec => [](WellFormed /\ CountsMatch)
  BY TypeAndCountsInit, TypeAndCountsStep, PTL DEF Spec
<1> QED
  BY <1>1, PTL

-----------------------------------------------------------------------------
(* The attention clock.                                                    *)

\* A record that is there after a step opens a new interval, or has the clocks
\* and the state it had.
ClocksKept(p) ==
  /\ p \in DOMAIN agents
  /\ agents'[p].status = agents[p].status
  /\ agents'[p].enteredAt = agents[p].enteredAt
  /\ agents'[p].attentionAt = agents[p].attentionAt

Opened(p) ==
  /\ agents'[p].enteredAt = now
  /\ agents'[p].attentionAt = IF agents'[p].status = "done" THEN now ELSE Zero

\* A transition opens the new interval of the agent moved and leaves the others.
LEMMA MoveClocks ==
  ASSUME WellFormed, AttentionClock, NEW p \in Live(agents), NEW w \in Workspaces,
         NEW s \in Status, Move(p, w, s)
  PROVE  \A q \in DOMAIN agents' : ClocksKept(q) \/ Opened(q)
<1>1. /\ DOMAIN agents' = DOMAIN agents /\ p \in DOMAIN agents
      /\ \A q \in DOMAIN agents \ {p} : agents'[q] = agents[q]
  BY MovedAgent
<1>2. agents[p].status # "done" => agents[p].attentionAt = Zero
  BY <1>1 DEF AttentionClock
<1>3. Opened(p)
  BY <1>2, MovedAgent DEF Opened
<1> QED
  BY <1>1, <1>3 DEF ClocksKept

\* A cascade leaves the clocks of every agent as they are.
LEMMA CloseAllClocks ==
  ASSUME WellFormed, NEW T, NEW P, NEW A, CloseAll(T, P, A)
  PROVE  \A q \in DOMAIN agents' : ClocksKept(q)
<1> SUFFICES ASSUME NEW q \in DOMAIN agents' PROVE ClocksKept(q)
  OBVIOUS
<1>1. q \in DOMAIN agents /\ agents[q] \in AgentRecord
  BY DEF CloseAll, WellFormed
<1>2. \/ agents'[q] = agents[q]
      \/ agents'[q] = [agents[q] EXCEPT !.ledger = FALSE, !.closedAt = now]
  BY <1>1 DEF CloseAll
<1> QED
  BY <1>1, <1>2 DEF ClocksKept, AgentRecord

\* Every step leaves the clocks of an agent as they are or opens a new interval.
LEMMA AgentClocks ==
  ASSUME WellFormed, AttentionClock, [Next]_vars
  PROVE  \A q \in DOMAIN agents' : ClocksKept(q) \/ Opened(q)
<1>1. CASE UNCHANGED agents
  BY <1>1 DEF ClocksKept
<1>2. CASE \E T, P, A : CloseAll(T, P, A)
  BY <1>2, CloseAllClocks
<1>3. CASE \E p \in Panes, w \in Workspaces, a \in Agents \cup {None}, s \in Reported :
             ApplyAgentStatusChanged(p, w, a, s)
  <2>1. PICK p \in Panes, w \in Workspaces, a \in Agents \cup {None}, s \in Reported :
          ApplyAgentStatusChanged(p, w, a, s)
    BY <1>3
  <2>2. s \in Status
    BY ReportedAssumption
  <2>3. CASE StatusAbsorbed(p) \/ StatusRepeated(p, w, a, s)
    BY <2>3, <1>1 DEF StatusAbsorbed, StatusRepeated
  <2>4. CASE StatusFirstSeen(p, w, a, s)
    BY <2>2, <2>4 DEF StatusFirstSeen, Put, ClocksKept, Opened, NewAgent
  <2>5. CASE StatusTransition(p, w, a, s)
    BY <2>2, <2>5, MoveClocks DEF StatusTransition, UpsertPane, Closed
  <2> QED
    BY <2>1, <2>3, <2>4, <2>5 DEF ApplyAgentStatusChanged
<1>4. CASE \E p \in Panes : ApplySeenFlip(p)
  <2>1. PICK p \in Panes : ApplySeenFlip(p)
    BY <1>4
  <2>2. CASE p \in InState(Live(agents), "done")
    <3>1. p \in Live(agents) /\ Move(p, agents[p].ws, "idle")
      BY <2>1, <2>2 DEF ApplySeenFlip, InState
    <3>2. agents[p].ws \in Workspaces /\ "idle" \in Status
      BY <3>1 DEF WellFormed, AgentRecord, Status, Live
    <3> QED
      BY <3>1, <3>2, MoveClocks
  <2>3. CASE p \notin InState(Live(agents), "done")
    BY <1>1, <2>1, <2>3 DEF ApplySeenFlip
  <2> QED
    BY <2>2, <2>3
<1>5. CASE EvictExpired
  BY <1>5, EvictMap, TypeParts DEF EvictExpired, RecordsOK, ClocksKept
<1>6. CASE \E snap \in Snapshots : ApplySnapshot(snap)
  <2>1. PICK snap \in Snapshots : ApplySnapshot(snap)
    BY <1>6
  <2>2. ASSUME NEW q \in DOMAIN agents'
        PROVE  ClocksKept(q) \/ Opened(q)
    <3>1. q \in DOMAIN snap /\ snap[q].ws \in Workspaces /\ snap[q].status \in Status
      BY <2>1, SnapshotEntry DEF ApplySnapshot
    <3>2. CASE q \in DOMAIN agents /\ agents[q].status = snap[q].status
      <4>1. agents'[q] = [agents[q] EXCEPT !.ws = snap[q].ws, !.closedAt = Zero]
        BY <2>1, <3>2 DEF ApplySnapshot
      <4>2. agents[q] \in AgentRecord
        BY <3>2 DEF WellFormed
      <4> QED
        BY <3>2, <4>1, <4>2 DEF ClocksKept, AgentRecord
    <3>3. CASE ~(q \in DOMAIN agents /\ agents[q].status = snap[q].status)
      <4>1. agents'[q] = NewAgent(snap[q].ws, snap[q].status)
        BY <2>1, <3>3 DEF ApplySnapshot
      <4> QED
        BY <3>1, <4>1 DEF Opened, NewAgent
    <3> QED
      BY <3>2, <3>3
  <2> QED
    BY <2>2
<1>7. CASE Event
  <2>1. PICK pl \in Places :
          \/ ApplyWorkspaceCreated(pl[2])
          \/ ApplyWorkspaceClosed(pl[2])
          \/ ApplyTabCreated(pl[3], pl[2])
          \/ ApplyTabClosed(pl[3])
          \/ \E w \in {pl[2], None} : ApplyTabRenamed(pl[3], w)
          \/ ApplyPaneCreated(pl[1], pl[2], pl[3])
          \/ ApplyPaneClosed(pl[1])
          \/ \E a \in Agents \cup {None} : ApplyAgentDetected(pl[1], a)
          \/ \E a \in Agents \cup {None}, s \in Reported : ApplyAgentStatusChanged(pl[1], pl[2], a, s)
    BY <1>7 DEF Event
  <2>2. CASE \/ ApplyWorkspaceClosed(pl[2]) \/ ApplyTabClosed(pl[3]) \/ ApplyPaneClosed(pl[1])
    BY <1>2, <2>2 DEF ApplyWorkspaceClosed, ApplyTabClosed, ApplyPaneClosed
  <2>3. CASE \E a \in Agents \cup {None}, s \in Reported : ApplyAgentStatusChanged(pl[1], pl[2], a, s)
    BY <1>3, <2>3, PlaceParts
  <2>4. CASE \/ ApplyWorkspaceCreated(pl[2]) \/ ApplyTabCreated(pl[3], pl[2])
             \/ (\E w \in {pl[2], None} : ApplyTabRenamed(pl[3], w))
             \/ ApplyPaneCreated(pl[1], pl[2], pl[3])
             \/ (\E a \in Agents \cup {None} : ApplyAgentDetected(pl[1], a))
    BY <1>1, <2>4 DEF ApplyWorkspaceCreated, ApplyTabCreated, ApplyTabRenamed,
                      ApplyPaneCreated, ApplyAgentDetected
  <2> QED
    BY <2>1, <2>2, <2>3, <2>4
<1>8. CASE (\E p \in Panes : NilMapPanic(p)) \/ Tick \/ UNCHANGED vars
  BY <1>1, <1>8 DEF NilMapPanic, Tick, vars
<1> QED
  BY <1>4, <1>5, <1>6, <1>7, <1>8 DEF Next, Rebaseline

\* The attention clock runs exactly while the agent is in done, from the moment
\* it entered it: no close, late event or re-baseline starts it late, leaves it
\* running or loses it.
THEOREM AttentionCorrect == Spec => []AttentionClock
<1>1. Init => AttentionClock
  <2> SUFFICES ASSUME Init PROVE AttentionClock
    OBVIOUS
  <2> DEFINE empty == <<>>
  <2>1. DOMAIN empty = {} /\ agents = empty
    BY DEF Init
  <2> HIDE DEF empty
  <2> QED
    BY <2>1 DEF AttentionClock
<1>2. WellFormed /\ AttentionClock /\ [Next]_vars => AttentionClock'
  <2> SUFFICES ASSUME WellFormed, AttentionClock, [Next]_vars, NEW q \in DOMAIN agents'
               PROVE  agents'[q].attentionAt
                        = IF agents'[q].status = "done" THEN agents'[q].enteredAt ELSE Zero
    BY DEF AttentionClock
  <2>1. ClocksKept(q) \/ Opened(q)
    BY AgentClocks
  <2>2. CASE ClocksKept(q)
    BY <2>2 DEF ClocksKept, AttentionClock
  <2>3. CASE Opened(q)
    BY <2>3 DEF Opened
  <2> QED
    BY <2>1, <2>2, <2>3
<1> QED
  BY <1>1, <1>2, WellFormedAlways, PTL DEF Spec

-----------------------------------------------------------------------------
(* Agents and their panes.                                                 *)

\* A pane is always reported in the same workspace.
StaysInWorkspace == \A a, b \in Places : a[1] = b[1] => a[2] = b[2]

\* Why LedgerAllocated and AgentInLivePane hold is that an agent and its pane
\* carry the same workspace and the same close stamp: a cascade closes both, an
\* eviction drops both, and a re-baseline that lists no closed pane revives no
\* closed agent.
InStep ==
  \A p \in DOMAIN agents :
    /\ p \in DOMAIN panes
    /\ panes[p].closedAt = agents[p].closedAt
    /\ panes[p].ws = agents[p].ws
    /\ \A pl \in Places : pl[1] = p => pl[2] = agents[p].ws
    /\ agents[p].closedAt = Zero => agents[p].ledger

\* What the inductive invariant is for.
LEMMA InStepSuffices == InStep => LedgerAllocated /\ AgentInLivePane
  BY DEF InStep, LedgerAllocated, AgentInLivePane, Live

\* A cascade that closes an agent together with its pane.
LEMMA CloseAllInStep ==
  ASSUME WellFormed, InStep, NEW T, NEW P, NEW A, CloseAll(T, P, A),
         \A p \in DOMAIN agents : p \in A <=> p \in P
  PROVE  InStep'
<1> DEFINE C == A \cap Live(agents)
<1> SUFFICES ASSUME NEW p \in DOMAIN agents'
             PROVE  /\ p \in DOMAIN panes'
                    /\ panes'[p].closedAt = agents'[p].closedAt
                    /\ panes'[p].ws = agents'[p].ws
                    /\ \A pl \in Places : pl[1] = p => pl[2] = agents'[p].ws
                    /\ agents'[p].closedAt = Zero => agents'[p].ledger
  BY DEF InStep
<1>1. /\ p \in DOMAIN agents /\ agents[p] \in AgentRecord
      /\ p \in DOMAIN panes /\ panes[p] \in PaneRecord
      /\ panes[p].closedAt = agents[p].closedAt /\ panes[p].ws = agents[p].ws
      /\ \A pl \in Places : pl[1] = p => pl[2] = agents[p].ws
      /\ agents[p].closedAt = Zero => agents[p].ledger
      /\ now # Zero
  BY DEF CloseAll, WellFormed, InStep, Zero
<1>2. p \in C <=> p \in P \cap Live(panes)
  BY <1>1 DEF Live
<1>3. DOMAIN panes' = DOMAIN panes
  BY DEF CloseAll, Close
<1>4. CASE p \in C
  <2>1. agents'[p] = [agents[p] EXCEPT !.ledger = FALSE, !.closedAt = now]
    BY <1>1, <1>4 DEF CloseAll
  <2>2. panes'[p] = [panes[p] EXCEPT !.closedAt = now]
    BY <1>1, <1>2, <1>4 DEF CloseAll, Close
  <2> QED
    BY <1>1, <1>3, <2>1, <2>2 DEF AgentRecord, PaneRecord
<1>5. CASE p \notin C
  <2>1. agents'[p] = agents[p]
    BY <1>1, <1>5 DEF CloseAll
  <2>2. panes'[p] = panes[p]
    BY <1>1, <1>2, <1>5 DEF CloseAll, Close
  <2> QED
    BY <1>1, <1>3, <2>1, <2>2
<1> QED
  BY <1>4, <1>5

\* A call that leaves the agents alone, and the place and stamp of every pane.
LEMMA SameInStep ==
  ASSUME InStep, UNCHANGED agents,
         \A p \in DOMAIN agents : /\ p \in DOMAIN panes'
                                  /\ panes'[p].closedAt = panes[p].closedAt
                                  /\ panes'[p].ws = panes[p].ws
  PROVE  InStep'
  BY DEF InStep

\* A created event puts the pane in the workspace its agent is in.
LEMMA PaneCreatedInStep ==
  ASSUME WellFormed, InStep, NEW pl \in Places, ApplyPaneCreated(pl[1], pl[2], pl[3])
  PROVE  InStep'
<1>1. CASE pl[1] \in Closed(panes)
  BY <1>1, SameInStep DEF ApplyPaneCreated, InStep
<1>2. CASE pl[1] \notin Closed(panes)
  <2>1. panes' = Put(panes, pl[1], [NewPane EXCEPT !.ws = pl[2], !.tab = pl[3]])
    BY <1>2 DEF ApplyPaneCreated
  <2>2. panes'[pl[1]].ws = pl[2] /\ panes'[pl[1]].closedAt = Zero
    BY <2>1 DEF Put, NewPane
  <2>3. pl[1] \in DOMAIN agents => panes[pl[1]].closedAt = Zero /\ panes[pl[1]].ws = pl[2]
    BY <1>2 DEF InStep, Closed, Live
  <2>4. /\ DOMAIN panes \subseteq DOMAIN panes'
        /\ \A q \in DOMAIN panes : q # pl[1] => panes'[q] = panes[q]
    BY <2>1 DEF Put
  <2> QED
    BY <2>2, <2>3, <2>4, SameInStep DEF InStep, ApplyPaneCreated
<1> QED
  BY <1>1, <1>2

\* A detected event moves no pane.
LEMMA AgentDetectedInStep ==
  ASSUME WellFormed, InStep, NEW p \in Panes, NEW a \in Agents \cup {None}, ApplyAgentDetected(p, a)
  PROVE  InStep'
<1>1. CASE p \in Closed(panes)
  BY <1>1, SameInStep DEF ApplyAgentDetected, InStep
<1>2. CASE p \notin Closed(panes)
  <2>1. panes' = Put(panes, p, [At(panes, p, NewPane) EXCEPT !.agent = a])
    BY <1>2 DEF ApplyAgentDetected
  <2>2. p \in DOMAIN panes => panes[p] \in PaneRecord /\ panes'[p] = [panes[p] EXCEPT !.agent = a]
    BY <2>1 DEF WellFormed, Put, At
  <2>3. /\ DOMAIN panes \subseteq DOMAIN panes'
        /\ \A q \in DOMAIN panes : q # p => panes'[q] = panes[q]
    BY <2>1 DEF Put
  <2>4. p \in DOMAIN panes => panes'[p].ws = panes[p].ws /\ panes'[p].closedAt = panes[p].closedAt
    BY <2>2 DEF PaneRecord
  <2> QED
    BY <2>3, <2>4, SameInStep DEF InStep, ApplyAgentDetected
<1> QED
  BY <1>1, <1>2

\* A status event puts pane and agent in the same workspace, or neither.
LEMMA StatusChangedInStep ==
  ASSUME WellFormed, InStep, StaysInWorkspace, NEW pl \in Places, NEW a \in Agents \cup {None},
         NEW s \in Reported, ApplyAgentStatusChanged(pl[1], pl[2], a, s)
  PROVE  InStep'
<1> DEFINE p == pl[1]
           w == pl[2]
<1>1. CASE StatusAbsorbed(p)
  BY <1>1, SameInStep DEF StatusAbsorbed, InStep
<1>2. CASE UpsertPane(p, w, a, s)
  <2> DEFINE r == At(panes, p, NewPane)
  <2>1. panes' = Put(panes, p, [r EXCEPT !.ws = w, !.agent = a, !.status = s])
    BY <1>2 DEF UpsertPane
  <2>2. r \in PaneRecord /\ r.closedAt = Zero
    BY <1>2, PlaceParts DEF UpsertPane, WellFormed, At, NewPane, PaneRecord, Status, Zero, Closed, Live
  <2>3. panes'[p] = [r EXCEPT !.ws = w, !.agent = a, !.status = s]
    BY <2>1 DEF Put
  <2>4. panes'[p].ws = w /\ panes'[p].closedAt = Zero /\ p \in DOMAIN panes'
    BY <2>1, <2>2, <2>3 DEF Put, PaneRecord
  <2>5. /\ DOMAIN panes \subseteq DOMAIN panes'
        /\ \A q \in DOMAIN panes : q # p => panes'[q] = panes[q]
    BY <2>1 DEF Put
  <2>6. \A q \in Places : q[1] = p => q[2] = w
    BY DEF StaysInWorkspace
  <2>7. CASE StatusRepeated(p, w, a, s)
    <3>1. p \in DOMAIN agents => panes[p].closedAt = Zero /\ panes[p].ws = w
      BY <1>2 DEF UpsertPane, InStep, Closed, Live
    <3> HIDE DEF p, w
    <3> QED
      BY <2>4, <2>5, <2>7, <3>1, SameInStep DEF StatusRepeated, InStep
  <2>8. ASSUME DOMAIN agents' = DOMAIN agents \cup {p},
               \A q \in DOMAIN agents : q # p => agents'[q] = agents[q],
               agents'[p].ws = w, agents'[p].closedAt = Zero, agents'[p].ledger
        PROVE  InStep'
    <3> HIDE DEF p, w
    <3> QED
      BY <2>4, <2>5, <2>6, <2>8 DEF InStep
  <2>9. CASE StatusTransition(p, w, a, s)
    <3>1. p \in Live(agents) /\ w \in Workspaces /\ s \in Status /\ Move(p, w, s)
      BY <2>9, PlaceParts, ReportedAssumption DEF StatusTransition, UpsertPane, Closed
    <3> HIDE DEF p, w
    <3> QED
      BY <2>8, <3>1, MovedAgent
  <2>10. CASE StatusFirstSeen(p, w, a, s)
    <3>1. /\ DOMAIN agents' = DOMAIN agents \cup {p} /\ agents'[p] = NewAgent(w, s)
          /\ \A q \in DOMAIN agents : q # p => agents'[q] = agents[q]
      BY <2>10 DEF StatusFirstSeen, Put
    <3>2. agents'[p].ws = w /\ agents'[p].closedAt = Zero /\ agents'[p].ledger
      BY <3>1 DEF NewAgent
    <3> QED
      BY <2>8, <3>1, <3>2
  <2>11. ~StatusAbsorbed(p)
    BY <1>2 DEF UpsertPane, StatusAbsorbed
  <2> QED
    BY <2>7, <2>9, <2>10, <2>11 DEF ApplyAgentStatusChanged
<1> QED
  BY <1>1, <1>2 DEF ApplyAgentStatusChanged, StatusFirstSeen, StatusRepeated, StatusTransition

\* A seen-flip leaves the agent in its pane, with its ledger.
LEMMA SeenFlipInStep ==
  ASSUME WellFormed, InStep, NEW p \in Panes, ApplySeenFlip(p)
  PROVE  InStep'
<1>1. CASE p \in InState(Live(agents), "done")
  <2>1. /\ p \in DOMAIN agents /\ agents[p].closedAt = Zero
        /\ p \in DOMAIN panes /\ panes[p] \in PaneRecord
    BY <1>1 DEF InState, Live, InStep, WellFormed
  <2>2. /\ p \in Live(agents) /\ Move(p, agents[p].ws, "idle")
        /\ agents[p].ws \in Workspaces /\ "idle" \in Status
    BY <1>1, <2>1 DEF ApplySeenFlip, InState, WellFormed, AgentRecord, Status
  <2>3. /\ DOMAIN agents' = DOMAIN agents
        /\ \A q \in DOMAIN agents : q # p => agents'[q] = agents[q]
        /\ agents'[p].ws = agents[p].ws /\ agents'[p].closedAt = Zero /\ agents'[p].ledger
    BY <2>2, MovedAgent
  <2>4. panes' = [panes EXCEPT ![p].status = "idle"]
    BY <1>1, <2>1 DEF ApplySeenFlip
  <2>5. /\ DOMAIN panes' = DOMAIN panes
        /\ \A q \in DOMAIN panes : q # p => panes'[q] = panes[q]
        /\ panes'[p].ws = panes[p].ws /\ panes'[p].closedAt = panes[p].closedAt
    BY <2>1, <2>4 DEF PaneRecord
  <2> QED
    BY <2>1, <2>3, <2>5 DEF InStep
<1>2. CASE p \notin InState(Live(agents), "done")
  BY <1>2, SameInStep DEF ApplySeenFlip, InStep
<1> QED
  BY <1>1, <1>2

\* Eviction takes no live pane from under a live agent.
LEMMA EvictInStep ==
  ASSUME WellFormed, InStep, EvictExpired
  PROVE  InStep'
<1>1. ASSUME NEW p \in DOMAIN agents'
      PROVE  /\ p \in DOMAIN agents /\ agents'[p] = agents[p]
             /\ p \in DOMAIN panes' /\ panes'[p] = panes[p]
  <2>1. p \in DOMAIN agents /\ p \in Retained(agents) /\ agents'[p] = agents[p]
    BY DEF EvictExpired, Evict, Retained
  <2>2. p \in Retained(panes)
    BY <2>1 DEF Retained, InStep, Live
  <2> QED
    BY <2>1, <2>2 DEF EvictExpired, Evict
<1> QED
  BY <1>1 DEF InStep

\* The pane a snapshot entry describes is in the workspace of one of its places.
LEMMA SnapshotPlace ==
  ASSUME NEW snap \in Snapshots, NEW p \in DOMAIN snap
  PROVE  \E pl \in Places : pl[1] = p /\ pl[2] = snap[p].ws
<1>1. PICK P \in SUBSET Panes :
        snap \in {f \in [P -> Reports] : \A q \in P : f[q] \in PaneReports(q)}
  BY DEF Snapshots
<1>2. snap[p] \in PaneReports(p)
  BY <1>1
<1>3. PICK pl \in {q \in Places : q[1] = p}, a \in Agents \cup {None}, s \in Reported,
           x \in Sessions \cup {None} :
        snap[p] = [ws |-> pl[2], tab |-> pl[3], agent |-> a, status |-> s, session |-> x]
  BY <1>2 DEF PaneReports
<1> QED
  BY <1>3

\* A re-baseline revives no closed agent, as its pane was closed with it.
LEMMA SnapshotInStep ==
  ASSUME WellFormed, InStep, StaysInWorkspace, NEW snap \in Snapshots, ApplySnapshot(snap),
         DOMAIN snap \cap Closed(panes) = {}
  PROVE  InStep'
<1> SUFFICES ASSUME NEW p \in DOMAIN agents'
             PROVE  /\ p \in DOMAIN panes'
                    /\ panes'[p].closedAt = agents'[p].closedAt
                    /\ panes'[p].ws = agents'[p].ws
                    /\ \A pl \in Places : pl[1] = p => pl[2] = agents'[p].ws
                    /\ agents'[p].closedAt = Zero => agents'[p].ledger
  BY DEF InStep
<1>1. p \in DOMAIN snap
  BY DEF ApplySnapshot
<1>2. p \in DOMAIN panes' /\ panes'[p].closedAt = Zero /\ panes'[p].ws = snap[p].ws
  BY <1>1 DEF ApplySnapshot
<1>3. \A pl \in Places : pl[1] = p => pl[2] = snap[p].ws
  BY <1>1, SnapshotPlace DEF StaysInWorkspace
<1>4. CASE p \in DOMAIN agents /\ agents[p].status = snap[p].status
  <2>1. agents[p].closedAt = Zero /\ agents[p].ledger /\ agents[p] \in AgentRecord
    BY <1>1, <1>4 DEF InStep, Closed, Live, WellFormed
  <2>2. agents'[p] = [agents[p] EXCEPT !.ws = snap[p].ws, !.closedAt = Zero]
    BY <1>1, <1>4 DEF ApplySnapshot
  <2>3. agents'[p].ws = snap[p].ws /\ agents'[p].closedAt = Zero /\ agents'[p].ledger
    BY <2>1, <2>2 DEF AgentRecord
  <2> QED
    BY <1>2, <1>3, <2>3
<1>5. CASE ~(p \in DOMAIN agents /\ agents[p].status = snap[p].status)
  <2>1. agents'[p] = NewAgent(snap[p].ws, snap[p].status)
    BY <1>1, <1>5 DEF ApplySnapshot
  <2>2. agents'[p].ws = snap[p].ws /\ agents'[p].closedAt = Zero /\ agents'[p].ledger
    BY <2>1 DEF NewAgent
  <2> QED
    BY <1>2, <1>3, <2>2
<1> QED
  BY <1>4, <1>5

\* A re-baseline that lists no closed pane, and the steps that are none.
FreshBaseline ==
  \E snap \in Snapshots : DOMAIN snap \cap Closed(panes) = {} /\ ApplySnapshot(snap)

OtherSteps ==
  \/ Event
  \/ \E p \in Panes : ApplySeenFlip(p) \/ NilMapPanic(p)
  \/ EvictExpired
  \/ Tick

\* Every step keeps agents and panes in step.
LEMMA InStepStep ==
  ASSUME StaysInWorkspace
  PROVE  WellFormed /\ InStep /\ [OtherSteps \/ FreshBaseline]_vars => InStep'
<1> SUFFICES ASSUME WellFormed, InStep, [OtherSteps \/ FreshBaseline]_vars PROVE InStep'
  OBVIOUS
<1>1. CASE UNCHANGED <<agents, panes>>
  BY <1>1, SameInStep DEF InStep
<1>2. CASE Event
  <2>1. PICK pl \in Places :
          \/ ApplyWorkspaceCreated(pl[2])
          \/ ApplyWorkspaceClosed(pl[2])
          \/ ApplyTabCreated(pl[3], pl[2])
          \/ ApplyTabClosed(pl[3])
          \/ \E w \in {pl[2], None} : ApplyTabRenamed(pl[3], w)
          \/ ApplyPaneCreated(pl[1], pl[2], pl[3])
          \/ ApplyPaneClosed(pl[1])
          \/ \E a \in Agents \cup {None} : ApplyAgentDetected(pl[1], a)
          \/ \E a \in Agents \cup {None}, s \in Reported : ApplyAgentStatusChanged(pl[1], pl[2], a, s)
    BY <1>2 DEF Event
  <2>2. CASE ApplyWorkspaceClosed(pl[2])
    <3>1. \A p \in DOMAIN agents : p \in In(agents, pl[2]) <=> p \in In(panes, pl[2])
      BY DEF In, InStep
    <3> QED
      BY <2>2, <3>1, CloseAllInStep DEF ApplyWorkspaceClosed
  <2>3. CASE ApplyTabClosed(pl[3])
    BY <2>3, CloseAllInStep DEF ApplyTabClosed
  <2>4. CASE ApplyPaneClosed(pl[1])
    BY <2>4, CloseAllInStep DEF ApplyPaneClosed
  <2>5. CASE ApplyPaneCreated(pl[1], pl[2], pl[3])
    BY <2>5, PaneCreatedInStep
  <2>6. CASE \E a \in Agents \cup {None} : ApplyAgentDetected(pl[1], a)
    BY <2>6, AgentDetectedInStep, PlaceParts
  <2>7. CASE \E a \in Agents \cup {None}, s \in Reported : ApplyAgentStatusChanged(pl[1], pl[2], a, s)
    BY <2>7, StatusChangedInStep
  <2>8. CASE \/ ApplyWorkspaceCreated(pl[2]) \/ ApplyTabCreated(pl[3], pl[2])
             \/ (\E w \in {pl[2], None} : ApplyTabRenamed(pl[3], w))
    BY <1>1, <2>8 DEF ApplyWorkspaceCreated, ApplyTabCreated, ApplyTabRenamed
  <2> QED
    BY <2>1, <2>2, <2>3, <2>4, <2>5, <2>6, <2>7, <2>8
<1>3. CASE \E p \in Panes : ApplySeenFlip(p)
  BY <1>3, SeenFlipInStep
<1>4. CASE EvictExpired
  BY <1>4, EvictInStep
<1>5. CASE FreshBaseline
  BY <1>5, SnapshotInStep DEF FreshBaseline
<1>6. CASE (\E p \in Panes : NilMapPanic(p)) \/ Tick \/ UNCHANGED vars
  BY <1>1, <1>6 DEF NilMapPanic, Tick, vars
<1> QED
  BY <1>2, <1>3, <1>4, <1>5, <1>6 DEF OtherSteps

\* A new tracker has no agents.
LEMMA InStepInit == Init => InStep
<1> SUFFICES ASSUME Init PROVE InStep
  OBVIOUS
<1> DEFINE empty == <<>>
<1>1. DOMAIN empty = {} /\ agents = empty
  BY DEF Init
<1> HIDE DEF empty
<1> QED
  BY <1>1 DEF InStep

\* While panes stay in their workspace and no snapshot lists a closed pane, a
\* live agent always has a DurationByState map to write to (closeAgentLocked,
\* ApplyAgentStatusChanged and ApplySeenFlip write to it unchecked).
THEOREM LedgerSafe ==
  ASSUME StaysInWorkspace, ~ClosedPanesReturn
  PROVE  Spec => []LedgerAllocated
<1>1. WellFormed /\ InStep /\ [Next]_vars => InStep'
  BY InStepStep DEF Next, OtherSteps, Rebaseline, FreshBaseline
<1>2. Spec => []InStep
  BY InStepInit, <1>1, WellFormedAlways, PTL DEF Spec
<1> QED
  BY <1>2, InStepSuffices, PTL

\* Under the same conditions no cascade closes a pane and leaves its agent
\* counted as live.
THEOREM AgentsSitInPanes ==
  ASSUME StaysInWorkspace, ~ClosedPanesReturn
  PROVE  Spec => []AgentInLivePane
<1>1. WellFormed /\ InStep /\ [Next]_vars => InStep'
  BY InStepStep DEF Next, OtherSteps, Rebaseline, FreshBaseline
<1>2. Spec => []InStep
  BY InStepInit, <1>1, WellFormedAlways, PTL DEF Spec
<1> QED
  BY <1>2, InStepSuffices, PTL

-----------------------------------------------------------------------------
(* Exported samples.                                                       *)

Handled(pl) ==
  \/ ApplyWorkspaceCreated(pl[2])
  \/ ApplyWorkspaceClosed(pl[2])
  \/ ApplyTabCreated(pl[3], pl[2])
  \/ ApplyTabClosed(pl[3])
  \/ \E w \in {pl[2], None} : ApplyTabRenamed(pl[3], w)
  \/ ApplyPaneCreated(pl[1], pl[2], pl[3])
  \/ ApplyPaneClosed(pl[1])
  \/ \E a \in Agents \cup {None} : ApplyAgentDetected(pl[1], a)
  \/ \E a \in Agents \cup {None}, s \in Reported : ApplyAgentStatusChanged(pl[1], pl[2], a, s)

\* The record of p is another, that entered its state now.
Opens(p) ==
  /\ DOMAIN agents' = DOMAIN agents \cup {p}
  /\ \A q \in DOMAIN agents \ {p} : agents'[q] = agents[q]
  /\ agents'[p].enteredAt = now /\ agents'[p].closedAt = Zero
  /\ \/ agents'[p].attentionAt \in {Zero, now}
     \/ p \in DOMAIN agents /\ agents'[p].attentionAt = agents[p].attentionAt

\* What a step does to the agents: nothing, and says nothing; it closes some,
\* opens an interval of one and ends the one before, evicts, or re-baselines.
LEMMA AgentSteps ==
  ASSUME WellFormed, [Next]_vars
  PROVE  \/ UNCHANGED agents /\ (Silent \/ UNCHANGED <<emitted, sampledTo>>)
         \/ \E T, P, A : CloseAll(T, P, A)
         \/ \E p \in Panes \ DOMAIN agents : Opens(p) /\ Silent
         \/ \E p \in Live(agents) : \E tr : Opens(p) /\ Emit({p}, tr)
         \/ EvictExpired
         \/ Rebaseline
<1>1. ASSUME NEW p \in Live(agents), NEW w \in Workspaces, NEW s \in Status, Move(p, w, s)
      PROVE  Opens(p) /\ \E tr : Emit({p}, tr)
  <2>1. Opens(p)
    BY <1>1, MovedAgent DEF Opens
  <2> QED
    BY <1>1, <2>1 DEF Move
<1>2. CASE Event
  <2>1. PICK pl \in Places : Handled(pl)
    BY <1>2 DEF Event, Handled
  <2>2. CASE ApplyWorkspaceClosed(pl[2]) \/ ApplyTabClosed(pl[3]) \/ ApplyPaneClosed(pl[1])
    BY <2>2 DEF ApplyWorkspaceClosed, ApplyTabClosed, ApplyPaneClosed
  <2>3. CASE \E a \in Agents \cup {None}, s \in Reported : ApplyAgentStatusChanged(pl[1], pl[2], a, s)
    <3>1. PICK a \in Agents \cup {None}, s \in Reported : ApplyAgentStatusChanged(pl[1], pl[2], a, s)
      BY <2>3
    <3>2. pl[1] \in Panes /\ pl[2] \in Workspaces /\ s \in Status
      BY PlaceParts, ReportedAssumption
    <3>3. CASE StatusAbsorbed(pl[1]) \/ StatusRepeated(pl[1], pl[2], a, s)
      BY <3>3 DEF StatusAbsorbed, StatusRepeated
    <3>4. CASE StatusFirstSeen(pl[1], pl[2], a, s)
      BY <3>2, <3>4 DEF StatusFirstSeen, Opens, NewAgent, Put
    <3>5. CASE StatusTransition(pl[1], pl[2], a, s)
      BY <1>1, <3>2, <3>5 DEF StatusTransition, UpsertPane, Closed
    <3> QED
      BY <3>1, <3>3, <3>4, <3>5 DEF ApplyAgentStatusChanged
  <2>4. CASE \/ ApplyWorkspaceCreated(pl[2]) \/ ApplyTabCreated(pl[3], pl[2])
             \/ (\E w \in {pl[2], None} : ApplyTabRenamed(pl[3], w))
             \/ ApplyPaneCreated(pl[1], pl[2], pl[3])
             \/ (\E a \in Agents \cup {None} : ApplyAgentDetected(pl[1], a))
    BY <2>4 DEF ApplyWorkspaceCreated, ApplyTabCreated, ApplyTabRenamed,
                ApplyPaneCreated, ApplyAgentDetected
  <2> QED
    BY <2>1, <2>2, <2>3, <2>4 DEF Handled
<1>3. CASE \E p \in Panes : ApplySeenFlip(p)
  <2>1. PICK p \in Panes : ApplySeenFlip(p)
    BY <1>3
  <2>2. CASE p \in InState(Live(agents), "done")
    <3>1. p \in Live(agents) /\ p \in DOMAIN agents /\ Move(p, agents[p].ws, "idle")
      BY <2>1, <2>2 DEF ApplySeenFlip, InState, Live
    <3>2. agents[p].ws \in Workspaces /\ "idle" \in Status
      BY <3>1 DEF WellFormed, AgentRecord, Status
    <3> QED
      BY <1>1, <3>1, <3>2
  <2>3. CASE p \notin InState(Live(agents), "done")
    BY <2>1, <2>3 DEF ApplySeenFlip
  <2> QED
    BY <2>2, <2>3
<1>4. CASE (\E p \in Panes : NilMapPanic(p)) \/ Tick \/ UNCHANGED vars
  BY <1>4 DEF NilMapPanic, Tick, vars
<1> QED
  BY <1>2, <1>3, <1>4 DEF Next

\* A cascade frees the maps of the agents it closes, and touches no others.
LEMMA CloseAllAgents ==
  ASSUME WellFormed, NEW T, NEW P, NEW A, CloseAll(T, P, A)
  PROVE  /\ DOMAIN agents' = DOMAIN agents
         /\ \A p \in DOMAIN agents : IF p \in A \cap Live(agents) THEN ~agents'[p].ledger
                                      ELSE agents'[p] = agents[p]
         /\ A \cap Live(agents) \in SUBSET DOMAIN agents
         /\ Emit(A \cap Live(agents), {})
<1>1. DOMAIN agents' = DOMAIN agents /\ Emit(A \cap Live(agents), {})
  BY DEF CloseAll
<1>2. ASSUME NEW p \in DOMAIN agents
      PROVE  IF p \in A \cap Live(agents) THEN ~agents'[p].ledger ELSE agents'[p] = agents[p]
  <2>1. agents[p] \in AgentRecord
    BY DEF WellFormed
  <2>2. agents'[p] = IF p \in A \cap Live(agents)
                       THEN [agents[p] EXCEPT !.ledger = FALSE, !.closedAt = now] ELSE agents[p]
    BY DEF CloseAll
  <2> QED
    BY <2>1, <2>2 DEF AgentRecord
<1>3. A \cap Live(agents) \in SUBSET DOMAIN agents
  BY DEF Live
<1> QED
  BY <1>1, <1>2, <1>3

\* A re-baseline samples nothing, and an agent it lists keeps entry and map of
\* its record or is new.
LEMMA SnapshotAgents ==
  ASSUME WellFormed, NEW snap \in Snapshots, ApplySnapshot(snap)
  PROVE  /\ Silent
         /\ \A q \in DOMAIN agents' :
              /\ q \in Panes
              /\ \/ agents'[q].enteredAt = now
                 \/ /\ q \in DOMAIN agents /\ agents'[q].ledger = agents[q].ledger
                    /\ agents'[q].enteredAt = agents[q].enteredAt
<1>1. Silent
  BY DEF ApplySnapshot
<1>2. ASSUME NEW q \in DOMAIN agents'
      PROVE  /\ q \in Panes
             /\ \/ agents'[q].enteredAt = now
                \/ /\ q \in DOMAIN agents /\ agents'[q].ledger = agents[q].ledger
                   /\ agents'[q].enteredAt = agents[q].enteredAt
  <2>1. q \in Panes
    BY SnapshotEntry DEF ApplySnapshot
  <2>2. CASE q \in DOMAIN agents /\ agents[q].status = snap[q].status
    <3>1. agents'[q] = [agents[q] EXCEPT !.ws = snap[q].ws, !.closedAt = Zero]
      BY <2>2 DEF ApplySnapshot
    <3>2. agents[q] \in AgentRecord
      BY <2>2 DEF WellFormed
    <3> QED
      BY <2>1, <2>2, <3>1, <3>2 DEF AgentRecord
  <2>3. CASE ~(q \in DOMAIN agents /\ agents[q].status = snap[q].status)
    <3>1. agents'[q] = NewAgent(snap[q].ws, snap[q].status)
      BY <2>3 DEF ApplySnapshot
    <3> QED
      BY <2>1, <3>1 DEF NewAgent
  <2> QED
    BY <2>2, <2>3
<1> QED
  BY <1>1, <1>2

\* After an emission for the agents of A, only their panes are sampled anew.
LEMMA EmitSamples ==
  ASSUME WellFormed, NEW A, NEW tr, Emit(A, tr)
  PROVE  \A p \in Panes : sampledTo'[p] = IF p \in A THEN now ELSE sampledTo[p]
  BY DEF Emit, WellFormed

\* Time stands still but for the clock's own step.
LEMMA NowStep ==
  ASSUME [Next]_vars PROVE now' = now \/ now' = now + 1
<1>1. ASSUME NEW pl \in Places, Handled(pl) PROVE now' = now
  BY <1>1 DEF Handled, ApplyWorkspaceCreated, ApplyWorkspaceClosed, ApplyTabCreated,
         ApplyTabClosed, ApplyTabRenamed, ApplyPaneCreated, ApplyPaneClosed,
         ApplyAgentDetected, ApplyAgentStatusChanged, CloseAll
<1>2. Event => now' = now
  BY <1>1 DEF Event, Handled
<1>3. (\E p \in Panes : ApplySeenFlip(p) \/ NilMapPanic(p)) \/ EvictExpired \/ UNCHANGED vars
        => now' = now
  BY DEF ApplySeenFlip, NilMapPanic, EvictExpired, vars
<1>4. Rebaseline => now' = now
  BY DEF Rebaseline, ApplySnapshot
<1>5. Tick => now' = now + 1
  BY DEF Tick
<1> QED
  BY <1>2, <1>3, <1>4, <1>5 DEF Next

-----------------------------------------------------------------------------
(* Time stamps.                                                            *)

\* Every record of the map g has the close stamp it has in f, none, or now's.
Stamped(f, g) ==
  \A k \in DOMAIN g : \/ g[k].closedAt \in {Zero, now}
                      \/ k \in DOMAIN f /\ g[k].closedAt = f[k].closedAt

\* Storing a record stamps nothing.
LEMMA PutStamps ==
  ASSUME NEW f, NEW k, NEW r, r.closedAt = Zero \/ (k \in DOMAIN f /\ r.closedAt = f[k].closedAt)
  PROVE  Stamped(f, Put(f, k, r))
  BY DEF Stamped, Put

\* A close stamps what was live with now, an eviction stamps nothing.
LEMMA CloseStamps ==
  ASSUME NEW f, NEW K, NEW D, MapOf(f, K, TabRecord) \/ MapOf(f, K, PaneRecord)
  PROVE  Stamped(f, Close(f, D)) /\ Stamped(f, Evict(f))
<1>1. \A k \in DOMAIN f : f[k] \in TabRecord \cup PaneRecord
  BY DEF MapOf
<1>2. \A r \in TabRecord \cup PaneRecord : [r EXCEPT !.closedAt = now].closedAt = now
  BY DEF TabRecord, PaneRecord
<1>3. Stamped(f, Close(f, D))
  BY <1>1, <1>2 DEF Stamped, Close
<1>4. Stamped(f, Evict(f))
  BY DEF Stamped, Evict, Retained
<1> QED
  BY <1>3, <1>4

\* Changing the other fields of a tab keeps its stamp.
LEMMA TabUpsertStamps ==
  ASSUME RecordsOK, NEW t, NEW w
  PROVE  Stamped(tabs, Put(tabs, t, [At(tabs, t, NewTab) EXCEPT !.ws = w]))
<1> DEFINE r == [At(tabs, t, NewTab) EXCEPT !.ws = w]
<1>1. r.closedAt = Zero \/ (t \in DOMAIN tabs /\ r.closedAt = tabs[t].closedAt)
  BY DEF RecordsOK, MapOf, At, NewTab, TabRecord
<1> HIDE DEF r
<1>2. Stamped(tabs, Put(tabs, t, r))
  BY <1>1, PutStamps
<1> QED
  BY <1>2 DEF r

\* So does naming the agent of a pane, and a status event's upsert.
LEMMA PaneUpsertStamps ==
  ASSUME RecordsOK, NEW p, NEW w, NEW a, NEW s
  PROVE  /\ Stamped(panes, Put(panes, p, [At(panes, p, NewPane) EXCEPT !.agent = a]))
         /\ Stamped(panes, Put(panes, p, [At(panes, p, NewPane) EXCEPT
                                            !.ws = w, !.agent = a, !.status = s]))
<1> DEFINE r == [At(panes, p, NewPane) EXCEPT !.agent = a]
           u == [At(panes, p, NewPane) EXCEPT !.ws = w, !.agent = a, !.status = s]
<1>1. r.closedAt = Zero \/ (p \in DOMAIN panes /\ r.closedAt = panes[p].closedAt)
  BY DEF RecordsOK, MapOf, At, NewPane, PaneRecord
<1>2. u.closedAt = Zero \/ (p \in DOMAIN panes /\ u.closedAt = panes[p].closedAt)
  BY DEF RecordsOK, MapOf, At, NewPane, PaneRecord
<1> HIDE DEF r, u
<1>3. Stamped(panes, Put(panes, p, r)) /\ Stamped(panes, Put(panes, p, u))
  BY <1>1, <1>2, PutStamps
<1> QED
  BY <1>3 DEF r, u

\* A step stamps tabs and panes with nothing but now.
LEMMA StampStep ==
  ASSUME WellFormed, [Next]_vars
  PROVE  Stamped(tabs, tabs') /\ Stamped(panes, panes')
<1>1. RecordsOK
  BY TypeParts
<1>2. Stamped(tabs, tabs) /\ Stamped(panes, panes)
  BY DEF Stamped
<1>3. ASSUME NEW T, NEW P, NEW A, CloseAll(T, P, A)
      PROVE  Stamped(tabs, tabs') /\ Stamped(panes, panes')
  BY <1>1, <1>3, CloseStamps DEF CloseAll, RecordsOK
<1>4. CASE Event
  <2>1. PICK pl \in Places : Handled(pl)
    BY <1>4 DEF Event, Handled
  <2>2. CASE ApplyWorkspaceClosed(pl[2]) \/ ApplyTabClosed(pl[3]) \/ ApplyPaneClosed(pl[1])
    BY <1>3, <2>2 DEF ApplyWorkspaceClosed, ApplyTabClosed, ApplyPaneClosed
  <2>3. CASE ApplyWorkspaceCreated(pl[2])
    BY <1>2, <2>3 DEF ApplyWorkspaceCreated
  <2>4. CASE ApplyTabCreated(pl[3], pl[2])
    BY <1>1, <1>2, <2>4, TabUpsertStamps DEF ApplyTabCreated
  <2>5. CASE \E w \in {pl[2], None} : ApplyTabRenamed(pl[3], w)
    <3>1. PICK w \in {pl[2], None} : ApplyTabRenamed(pl[3], w)
      BY <2>5
    <3>2. PICK v : tabs' = Put(tabs, pl[3], [At(tabs, pl[3], NewTab) EXCEPT !.ws = v])
      BY <3>1 DEF ApplyTabRenamed
    <3>3. Stamped(tabs, tabs')
      BY <1>1, <3>2, TabUpsertStamps
    <3> QED
      BY <1>2, <3>1, <3>3 DEF ApplyTabRenamed
  <2>6. CASE ApplyPaneCreated(pl[1], pl[2], pl[3])
    <3>1. [NewPane EXCEPT !.ws = pl[2], !.tab = pl[3]].closedAt = Zero
      BY DEF NewPane
    <3>2. Stamped(panes, panes')
      BY <1>2, <2>6, <3>1, PutStamps DEF ApplyPaneCreated
    <3>3. Stamped(tabs, tabs')
      BY <1>1, <1>2, <2>6, TabUpsertStamps DEF ApplyPaneCreated
    <3> QED
      BY <3>2, <3>3
  <2>7. CASE \E a \in Agents \cup {None} : ApplyAgentDetected(pl[1], a)
    BY <1>1, <1>2, <2>7, PaneUpsertStamps DEF ApplyAgentDetected
  <2>8. CASE \E a \in Agents \cup {None}, s \in Reported :
               ApplyAgentStatusChanged(pl[1], pl[2], a, s)
    <3>1. PICK a \in Agents \cup {None}, s \in Reported :
                 ApplyAgentStatusChanged(pl[1], pl[2], a, s)
      BY <2>8
    <3>2. UNCHANGED panes \/ UpsertPane(pl[1], pl[2], a, s)
      BY <3>1 DEF ApplyAgentStatusChanged, StatusAbsorbed, StatusFirstSeen, StatusRepeated,
                  StatusTransition
    <3>3. Stamped(panes, panes')
      <4>1. CASE UNCHANGED panes
        BY <1>2, <4>1
      <4>2. CASE UpsertPane(pl[1], pl[2], a, s)
        BY <1>1, <4>2, PaneUpsertStamps DEF UpsertPane
      <4> QED
        BY <3>2, <4>1, <4>2
    <3> QED
      BY <1>2, <3>1, <3>3 DEF ApplyAgentStatusChanged
  <2> QED
    BY <2>1, <2>2, <2>3, <2>4, <2>5, <2>6, <2>7, <2>8 DEF Handled
<1>5. CASE \E p \in Panes : ApplySeenFlip(p)
  <2>1. PICK p \in Panes : ApplySeenFlip(p)
    BY <1>5
  <2>2. UNCHANGED panes \/ (p \in DOMAIN panes /\ panes' = [panes EXCEPT ![p].status = "idle"])
    BY <2>1 DEF ApplySeenFlip
  <2>3. Stamped(panes, panes')
    BY <1>1, <1>2, <2>2 DEF Stamped, RecordsOK, MapOf, PaneRecord
  <2> QED
    BY <1>2, <2>1, <2>3 DEF ApplySeenFlip
<1>6. CASE EvictExpired
  BY <1>1, <1>6, CloseStamps DEF EvictExpired, RecordsOK
<1>7. CASE Rebaseline
  <2>1. PICK snap \in Snapshots : ApplySnapshot(snap)
    BY <1>7 DEF Rebaseline
  <2>2. \A t \in DOMAIN tabs' : tabs'[t].closedAt = Zero
    BY <2>1 DEF ApplySnapshot
  <2>3. \A p \in DOMAIN panes' : panes'[p].closedAt = Zero
    BY <2>1 DEF ApplySnapshot
  <2> QED
    BY <2>2, <2>3 DEF Stamped
<1>8. CASE (\E p \in Panes : NilMapPanic(p)) \/ Tick \/ UNCHANGED vars
  BY <1>2, <1>8 DEF NilMapPanic, Tick, vars
<1> QED
  BY <1>4, <1>5, <1>6, <1>7, <1>8 DEF Next

\* A step gives an agent no other clocks than the ones it had, none, or now.
AgentStamped(q) ==
  /\ agents'[q].enteredAt = now
     \/ (q \in DOMAIN agents /\ agents'[q].enteredAt = agents[q].enteredAt)
  /\ agents'[q].attentionAt \in {Zero, now}
     \/ (q \in DOMAIN agents /\ agents'[q].attentionAt = agents[q].attentionAt)
  /\ agents'[q].closedAt \in {Zero, now}
     \/ (q \in DOMAIN agents /\ agents'[q].closedAt = agents[q].closedAt)

\* Every step gives an agent only clocks that it had, or that are zero or now.
LEMMA AgentStampStep ==
  ASSUME WellFormed, [Next]_vars
  PROVE  \A q \in DOMAIN agents' : AgentStamped(q)
<1>1. \A q \in DOMAIN agents : agents[q] \in AgentRecord
  BY DEF WellFormed
<1>2. ASSUME NEW q \in DOMAIN agents, agents'[q] = agents[q] PROVE AgentStamped(q)
  BY <1>2 DEF AgentStamped
<1>3. CASE UNCHANGED agents
  BY <1>2, <1>3
<1>4. CASE \E T, P, A : CloseAll(T, P, A)
  <2>1. PICK T, P, A : CloseAll(T, P, A)
    BY <1>4
  <2> SUFFICES ASSUME NEW q \in DOMAIN agents' PROVE AgentStamped(q)
    OBVIOUS
  <2>2. q \in DOMAIN agents
        /\ \/ agents'[q] = agents[q]
           \/ agents'[q] = [agents[q] EXCEPT !.ledger = FALSE, !.closedAt = now]
    BY <2>1 DEF CloseAll
  <2> QED
    BY <1>1, <2>2 DEF AgentStamped, AgentRecord
<1>5. CASE \E p \in (Panes \ DOMAIN agents) \cup Live(agents) : Opens(p)
  BY <1>2, <1>5 DEF Opens, AgentStamped
<1>6. CASE EvictExpired
  BY <1>2, <1>6 DEF EvictExpired, Evict, Retained
<1>7. CASE Rebaseline
  <2>1. PICK snap \in Snapshots : ApplySnapshot(snap)
    BY <1>7 DEF Rebaseline
  <2> SUFFICES ASSUME NEW q \in DOMAIN agents' PROVE AgentStamped(q)
    OBVIOUS
  <2>2. CASE q \in DOMAIN agents /\ agents[q].status = snap[q].status
    <3>1. agents'[q] = [agents[q] EXCEPT !.ws = snap[q].ws, !.closedAt = Zero]
      BY <2>1, <2>2 DEF ApplySnapshot
    <3> QED
      BY <1>1, <2>2, <3>1 DEF AgentStamped, AgentRecord
  <2>3. CASE ~(q \in DOMAIN agents /\ agents[q].status = snap[q].status)
    <3>1. agents'[q] = NewAgent(snap[q].ws, snap[q].status)
      BY <2>1, <2>3 DEF ApplySnapshot
    <3> QED
      BY <3>1 DEF AgentStamped, NewAgent
  <2> QED
    BY <2>2, <2>3
<1> QED
  BY <1>3, <1>4, <1>5, <1>6, <1>7, AgentSteps

\* No step moves a clock ahead of now.
LEMMA NoClockAheadStep == WellFormed /\ NoClockAhead /\ [Next]_vars => NoClockAhead'
<1> SUFFICES ASSUME WellFormed, NoClockAhead, [Next]_vars PROVE NoClockAhead'
  OBVIOUS
<1>1. now \in Nat /\ (now' = now \/ now' = now + 1) /\ Zero <= now
  BY NowStep DEF WellFormed, Zero
<1>2. ASSUME NEW x, x = now \/ x = Zero \/ (x \in Nat /\ x <= now) PROVE x <= now' /\ now' >= x
  BY <1>1, <1>2 DEF Zero
<1>3. ASSUME NEW t \in DOMAIN tabs' PROVE tabs'[t].closedAt <= now'
  <2>1. \/ tabs'[t].closedAt \in {Zero, now}
        \/ t \in DOMAIN tabs /\ tabs'[t].closedAt = tabs[t].closedAt
    BY StampStep DEF Stamped
  <2>2. t \in DOMAIN tabs => tabs[t].closedAt \in Nat /\ tabs[t].closedAt <= now
    BY DEF WellFormed, TabRecord, NoClockAhead
  <2> QED
    BY <1>2, <2>1, <2>2
<1>4. ASSUME NEW p \in DOMAIN panes' PROVE panes'[p].closedAt <= now'
  <2>1. \/ panes'[p].closedAt \in {Zero, now}
        \/ p \in DOMAIN panes /\ panes'[p].closedAt = panes[p].closedAt
    BY StampStep DEF Stamped
  <2>2. p \in DOMAIN panes => panes[p].closedAt \in Nat /\ panes[p].closedAt <= now
    BY DEF WellFormed, PaneRecord, NoClockAhead
  <2> QED
    BY <1>2, <2>1, <2>2
<1>5. ASSUME NEW p \in DOMAIN agents'
      PROVE  /\ now' >= agents'[p].enteredAt
             /\ now' >= agents'[p].attentionAt
             /\ now' >= agents'[p].closedAt
  <2>1. AgentStamped(p)
    BY AgentStampStep
  <2>2. p \in DOMAIN agents =>
          /\ agents[p].enteredAt \in Nat /\ agents[p].enteredAt <= now
          /\ agents[p].attentionAt \in Nat /\ agents[p].attentionAt <= now
          /\ agents[p].closedAt \in Nat /\ agents[p].closedAt <= now
    BY <1>1 DEF WellFormed, AgentRecord, NoClockAhead
  <2>3. now' >= agents'[p].enteredAt
    BY <1>2, <2>1, <2>2 DEF AgentStamped
  <2>4. now' >= agents'[p].attentionAt
    BY <1>2, <2>1, <2>2 DEF AgentStamped
  <2>5. now' >= agents'[p].closedAt
    BY <1>2, <2>1, <2>2 DEF AgentStamped
  <2> QED
    BY <2>3, <2>4, <2>5
<1>6. ASSUME NEW p \in Panes PROVE sampledTo'[p] <= now'
  <2>1. sampledTo[p] \in Nat /\ sampledTo[p] <= now
    BY DEF WellFormed, NoClockAhead
  <2>2. UNCHANGED sampledTo \/ \E A, tr : Emit(A, tr)
    BY AgentSteps, CloseAllAgents, SnapshotAgents DEF Silent, EvictExpired, Rebaseline
  <2>3. sampledTo'[p] = sampledTo[p] \/ sampledTo'[p] = now
    BY <2>2, EmitSamples
  <2> QED
    BY <1>2, <2>1, <2>3
<1> QED
  BY <1>3, <1>4, <1>5, <1>6 DEF NoClockAhead

\* In every reachable state the tracker's records and counts are well formed, and
\* no time stamp of a record or of a sample is later than now.
THEOREM TypeCorrect == Spec => []TypeOK
<1>1. Init => NoClockAhead
  <2> SUFFICES ASSUME Init PROVE NoClockAhead
    OBVIOUS
  <2> DEFINE empty == <<>>
  <2>1. DOMAIN empty = {} /\ tabs = empty /\ panes = empty /\ agents = empty
    BY DEF Init
  <2> HIDE DEF empty
  <2> QED
    BY <2>1 DEF Init, NoClockAhead, Zero
<1>2. Spec => []NoClockAhead
  BY <1>1, NoClockAheadStep, WellFormedAlways, PTL DEF Spec
<1>3. WellFormed /\ NoClockAhead => TypeOK
  BY DEF TypeOK
<1> QED
  BY <1>2, <1>3, WellFormedAlways, PTL

-----------------------------------------------------------------------------
(* What is exported.                                                       *)

\* The samples of an emission agree, for every clock that runs in done runs
\* from its entry.
LEMMA EmissionAgrees ==
  ASSUME AttentionClock, NEW A \in SUBSET DOMAIN agents, NEW tr, Emit(A, tr)
  PROVE  LatencyIsDoneDuration'
<1>1. \A p \in InState(A, "done") : agents[p].attentionAt = agents[p].enteredAt
  BY DEF AttentionClock, InState
<1>2. {[pane |-> l.pane, duration |-> l.duration] : l \in emitted'.latencies}
        = {[pane |-> p, duration |-> now - agents[p].enteredAt] : p \in InState(A, "done")}
  BY <1>1 DEF Emit
<1> DEFINE sample(p) == [pane |-> p, state |-> agents[p].status, duration |-> now - agents[p].enteredAt]
           part(d) == [pane |-> d.pane, duration |-> d.duration]
<1>3. {e \in emitted'.durations : e.state = "done"} = {sample(p) : p \in InState(A, "done")}
  BY DEF Emit, InState
<1>4. {part(d) : d \in {sample(p) : p \in InState(A, "done")}}
        = {part(sample(p)) : p \in InState(A, "done")}
  <2> HIDE DEF part, sample
  <2> QED
    OBVIOUS
<1>5. \A p : part(sample(p)) = [pane |-> p, duration |-> now - agents[p].enteredAt]
  OBVIOUS
<1> QED
  BY <1>2, <1>3, <1>4, <1>5 DEF LatencyIsDoneDuration

\* No call exports an attention latency without the duration of the same done
\* interval, or the other way round (emitAttentionLatency, emitStateDuration).
THEOREM LatenciesAgree == Spec => []LatencyIsDoneDuration
<1>1. Nothing.latencies = {} /\ Nothing.durations = {}
  BY DEF Nothing
<1>2. Init => LatencyIsDoneDuration
  BY <1>1 DEF Init, LatencyIsDoneDuration
<1>3. WellFormed /\ AttentionClock /\ LatencyIsDoneDuration /\ [Next]_vars => LatencyIsDoneDuration'
  <2> SUFFICES ASSUME WellFormed, AttentionClock, LatencyIsDoneDuration, [Next]_vars
               PROVE  LatencyIsDoneDuration'
    OBVIOUS
  <2>1. CASE Silent
    BY <1>1, <2>1 DEF Silent, LatencyIsDoneDuration
  <2>2. CASE UNCHANGED emitted
    BY <2>2 DEF LatencyIsDoneDuration
  <2>3. CASE \E A \in SUBSET DOMAIN agents : \E tr : Emit(A, tr)
    BY <2>3, EmissionAgrees
  <2>4. (\E T, P, A : CloseAll(T, P, A)) => \E A \in SUBSET DOMAIN agents : \E tr : Emit(A, tr)
    BY CloseAllAgents
  <2>5. (\E p \in Live(agents) : \E tr : Emit({p}, tr))
          => \E A \in SUBSET DOMAIN agents : \E tr : Emit(A, tr)
    BY DEF Live
  <2>6. EvictExpired \/ Rebaseline => Silent
    BY SnapshotAgents DEF EvictExpired, Rebaseline
  <2> QED
    BY <2>1, <2>2, <2>3, <2>4, <2>5, <2>6, AgentSteps
<1> QED
  BY <1>2, <1>3, WellFormedAlways, AttentionCorrect, PTL DEF Spec

\* Why no stretch of time is exported twice: an interval is exported when its
\* map is freed or the next one opens, so an agent that still has its map has
\* not been sampled since it entered its state, even if it was closed since.
Unsampled ==
  /\ \A p \in Panes : sampledTo[p] <= now
  /\ \A p \in DOMAIN agents : agents[p].ledger => agents[p].enteredAt >= sampledTo[p]

\* A step keeps every interval still to be exported unsampled.
LEMMA UnsampledStep ==
  ASSUME WellFormed, Unsampled, [Next]_vars
  PROVE  Unsampled'
<1>1. now \in Nat /\ sampledTo \in [Panes -> Nat] /\ DOMAIN agents \subseteq Panes
  BY DEF WellFormed
<1>2. now' = now \/ now' = now + 1
  BY NowStep
<1>3. ASSUME \A p \in Panes : sampledTo'[p] \in {sampledTo[p], now},
             NEW A, \A p \in Panes \ A : sampledTo'[p] = sampledTo[p],
             \A p \in DOMAIN agents' :
               /\ p \in Panes
               /\ agents'[p].ledger =>
                    \/ agents'[p].enteredAt = now
                    \/ /\ p \in DOMAIN agents \ A /\ agents[p].ledger
                       /\ agents'[p].enteredAt = agents[p].enteredAt
      PROVE  Unsampled'
  BY <1>1, <1>2, <1>3 DEF Unsampled
<1>4. CASE UNCHANGED agents /\ (Silent \/ UNCHANGED <<emitted, sampledTo>>)
  <2>1. UNCHANGED sampledTo
    BY <1>4 DEF Silent
  <2> QED
    BY <1>1, <1>2, <1>4, <2>1 DEF Unsampled
<1>5. CASE \E T, P, A : CloseAll(T, P, A)
  <2>1. PICK T, P, A : CloseAll(T, P, A)
    BY <1>5
  <2> DEFINE C == A \cap Live(agents)
  <2>2. Emit(C, {}) /\ DOMAIN agents' = DOMAIN agents
        /\ \A p \in DOMAIN agents : IF p \in C THEN ~agents'[p].ledger ELSE agents'[p] = agents[p]
    BY <2>1, CloseAllAgents
  <2>3. \A p \in Panes : sampledTo'[p] = IF p \in C THEN now ELSE sampledTo[p]
    BY <2>2, EmitSamples
  <2> HIDE DEF C
  <2> QED
    BY <1>1, <1>3, <2>2, <2>3
<1>6. ASSUME NEW p \in Panes, Opens(p), \A q \in Panes \ {p} : sampledTo'[q] = sampledTo[q],
             sampledTo'[p] \in {sampledTo[p], now}
      PROVE  Unsampled'
  <2>1. \A q \in DOMAIN agents' : /\ q \in Panes
                                  /\ q # p => q \in DOMAIN agents /\ agents'[q] = agents[q]
    BY <1>1, <1>6 DEF Opens
  <2>2. p \in DOMAIN agents' /\ agents'[p].enteredAt = now
    BY <1>6 DEF Opens
  <2>3. \A q \in Panes : sampledTo'[q] \in {sampledTo[q], now}
    BY <1>6
  <2>4. \A q \in Panes \ {p} : sampledTo'[q] = sampledTo[q]
    BY <1>6
  <2>5. ASSUME NEW q \in DOMAIN agents', agents'[q].ledger
        PROVE  \/ agents'[q].enteredAt = now
               \/ /\ q \in DOMAIN agents \ {p} /\ agents[q].ledger
                  /\ agents'[q].enteredAt = agents[q].enteredAt
    <3>1. CASE q = p
      BY <2>2, <3>1
    <3>2. CASE q # p
      BY <2>1, <2>5, <3>2
    <3> QED
      BY <3>1, <3>2
  <2> QED
    BY <1>3, <2>1, <2>3, <2>4, <2>5
<1>7. CASE \E p \in Panes \ DOMAIN agents : Opens(p) /\ Silent
  BY <1>6, <1>7 DEF Silent
<1>8. CASE \E p \in Live(agents) : \E tr : Opens(p) /\ Emit({p}, tr)
  <2>1. PICK p \in Live(agents) : \E tr : Opens(p) /\ Emit({p}, tr)
    BY <1>8
  <2>2. p \in Panes
    BY <1>1 DEF Live
  <2> QED
    BY <1>6, <2>1, <2>2, EmitSamples
<1>9. CASE EvictExpired
  <2>1. UNCHANGED sampledTo /\ \A p \in DOMAIN agents' : p \in DOMAIN agents /\ agents'[p] = agents[p]
    BY <1>9, EvictMap, TypeParts DEF EvictExpired, RecordsOK, Silent
  <2> QED
    BY <1>1, <1>3, <2>1
<1>10. CASE Rebaseline
  <2>1. PICK snap \in Snapshots : ApplySnapshot(snap)
    BY <1>10 DEF Rebaseline
  <2>2. UNCHANGED sampledTo
    BY <2>1, SnapshotAgents DEF Silent
  <2>3. \A q \in DOMAIN agents' :
          /\ q \in Panes
          /\ \/ agents'[q].enteredAt = now
             \/ /\ q \in DOMAIN agents /\ agents'[q].ledger = agents[q].ledger
                /\ agents'[q].enteredAt = agents[q].enteredAt
    BY <2>1, SnapshotAgents
  <2> QED
    BY ZenonT(40), <1>1, <1>3, <2>2, <2>3
<1> QED
  BY <1>4, <1>5, <1>7, <1>8, <1>9, <1>10, AgentSteps

\* Nothing has been sampled when the tracker is new.
LEMMA UnsampledInit == Init => Unsampled
<1> SUFFICES ASSUME Init PROVE Unsampled
  OBVIOUS
<1> DEFINE empty == <<>>
<1>1. DOMAIN empty = {} /\ agents = empty
  BY DEF Init
<1> HIDE DEF empty
<1> QED
  BY <1>1 DEF Init, Unsampled, Zero

\* Under the conditions that rule out the nil map, no stretch of a pane's time
\* is exported twice, however closes, moves and re-baselines alternate.
THEOREM SampledOnce ==
  ASSUME StaysInWorkspace, ~ClosedPanesReturn
  PROVE  Spec => []NoIntervalSampledTwice
<1>1. Unsampled /\ LedgerAllocated => NoIntervalSampledTwice
  BY DEF Unsampled, LedgerAllocated, NoIntervalSampledTwice, Live
<1>2. WellFormed /\ Unsampled /\ [Next]_vars => Unsampled'
  BY UnsampledStep
<1>3. Spec => []Unsampled
  BY UnsampledInit, <1>2, WellFormedAlways, PTL DEF Spec
<1>4. Spec => []LedgerAllocated
  BY LedgerSafe
<1> QED
  BY <1>1, <1>3, <1>4, PTL

\* Within its grace window nothing but a re-baseline touches a closed agent.
THEOREM ClosedStaysFinal == Spec => ClosedIsFinal
<1> DEFINE Final(p) ==
      \/ p \in DOMAIN agents' /\ agents'[p] = agents[p]
      \/ p \notin DOMAIN agents' /\ now - agents[p].closedAt > GraceWindow
      \/ Rebaseline
<1>1. ASSUME WellFormed, [Next]_vars, NEW p \in Closed(agents) PROVE Final(p)
  <2>1. p \in DOMAIN agents /\ p \notin Live(agents) /\ agents[p] \in AgentRecord
    BY <1>1 DEF Closed, WellFormed
  <2>2. CASE UNCHANGED agents
    BY <2>1, <2>2
  <2>3. CASE \E T, P, A : CloseAll(T, P, A)
    BY <1>1, <2>1, <2>3, CloseAllAgents
  <2>4. CASE \E q \in (Panes \ DOMAIN agents) \cup Live(agents) : Opens(q)
    BY <2>1, <2>4 DEF Opens
  <2>5. CASE EvictExpired
    <3>1. agents' = Evict(agents)
      BY <2>5 DEF EvictExpired
    <3>2. p \in Retained(agents) => p \in DOMAIN agents' /\ agents'[p] = agents[p]
      BY <3>1 DEF Evict
    <3>3. p \notin Retained(agents) => p \notin DOMAIN agents'
      BY <3>1 DEF Evict
    <3>4. p \notin Retained(agents) => ~(now - agents[p].closedAt <= GraceWindow)
      BY <2>1 DEF Retained
    <3>5. now \in Nat /\ agents[p].closedAt \in Nat /\ GraceWindow \in Nat
      BY <1>1, <2>1, TimeAssumption DEF WellFormed, AgentRecord
    <3> QED
      BY <3>2, <3>3, <3>4, <3>5
  <2> QED
    BY <1>1, <2>2, <2>3, <2>4, <2>5, AgentSteps
<1>2. WellFormed /\ [Next]_vars => [\A p \in Closed(agents) : Final(p)]_vars
  BY <1>1
<1> QED
  BY <1>2, WellFormedAlways, PTL DEF Spec, ClosedIsFinal

-----------------------------------------------------------------------------
(* Gauges.                                                                 *)

\* A workspace has a bucket exactly when a live agent is in it.
LEMMA ListedWorkspaces ==
  ASSUME WellFormed, CountsMatch
  PROVE  {k[1] : k \in DOMAIN counts.workspace} = {agents[p].ws : p \in Live(agents)}
<1>1. ASSUME NEW k \in DOMAIN counts.workspace
      PROVE  \E p \in Live(agents) : agents[p].ws = k[1]
  <2>1. k \in Workspaces \X Status /\ counts.workspace[k] \in Nat \ {0}
    BY <1>1 DEF WellFormed
  <2>2. k = <<k[1], k[2]>> /\ k[1] \in Workspaces /\ k[2] \in Status
    BY <2>1
  <2>3. Count(counts.workspace, <<k[1], k[2]>>) = counts.workspace[k]
    BY <1>1, <2>2 DEF Count
  <2>4. Cardinality(InBucket(Live(agents), k[1], k[2])) # 0
    BY <2>1, <2>2, <2>3 DEF CountsMatch
  <2>5. InBucket(Live(agents), k[1], k[2]) # {}
    BY <2>4, FS_EmptySet
  <2> QED
    BY <2>5 DEF InBucket, InState
<1>2. ASSUME NEW p \in Live(agents)
      PROVE  \E k \in DOMAIN counts.workspace : k[1] = agents[p].ws
  <2> DEFINE w == agents[p].ws
             s == agents[p].status
             B == InBucket(Live(agents), w, s)
  <2>1. w \in Workspaces /\ s \in Status
    BY <1>2 DEF Live, WellFormed, AgentRecord
  <2>2. p \in B
    BY <1>2 DEF InBucket, InState
  <2>3. IsFiniteSet(B)
    BY LiveFinite, FS_Subset DEF InBucket, InState
  <2>4. Count(counts.workspace, <<w, s>>) = Cardinality(B)
    BY <2>1 DEF CountsMatch
  <2> HIDE DEF B, w, s
  <2>5. Cardinality(B) # 0
    BY <2>2, <2>3, FS_EmptySet
  <2>6. <<w, s>> \in DOMAIN counts.workspace
    BY <2>4, <2>5 DEF Count
  <2>7. <<w, s>>[1] = w
    OBVIOUS
  <2> QED
    BY <2>6, <2>7 DEF w
<1> QED
  BY <1>1, <1>2

\* Two states of a workspace hold different agents.
LEMMA BusyAgents ==
  ASSUME WellFormed, CountsMatch, NEW w \in Workspaces
  PROVE  Count(counts.workspace, <<w, "working">>) + Count(counts.workspace, <<w, "blocked">>)
           = Cardinality({p \in Live(agents) : /\ agents[p].ws = w
                                               /\ agents[p].status \in {"working", "blocked"}})
<1> DEFINE X == InBucket(Live(agents), w, "working")
           Y == InBucket(Live(agents), w, "blocked")
           Z == {p \in Live(agents) : /\ agents[p].ws = w
                                      /\ agents[p].status \in {"working", "blocked"}}
<1>1. IsFiniteSet(X) /\ IsFiniteSet(Y)
  BY LiveFinite, FS_Subset DEF InBucket, InState
<1>2. X \cap Y = {} /\ Z = X \cup Y
  BY DEF InBucket, InState
<1>3. /\ Count(counts.workspace, <<w, "working">>) = Cardinality(X)
      /\ Count(counts.workspace, <<w, "blocked">>) = Cardinality(Y)
  BY DEF CountsMatch, Status
<1> HIDE DEF X, Y, Z
<1>4. Cardinality(X) \in Nat /\ Cardinality(Y) \in Nat
  BY <1>1, FS_CardinalityType
<1>5. Cardinality(X \cup Y) = Cardinality(X) + Cardinality(Y) - Cardinality(X \cap Y)
  BY <1>1, FS_Union
<1>6. Cardinality(X \cap Y) = 0
  BY <1>2, FS_EmptySet
<1>7. Cardinality(Z) = Cardinality(X) + Cardinality(Y)
  BY <1>2, <1>4, <1>5, <1>6
<1> QED
  BY <1>3, <1>7 DEF Z

\* What a collection observes is the session, for any sets of workspaces,
\* panes and agents: it follows from the counts alone.
THEOREM GaugesCorrect == Spec => []GaugesTruthful
<1>1. ASSUME WellFormed, CountsMatch PROVE GaugesTruthful
  <2> DEFINE listed == {k[1] : k \in DOMAIN counts.workspace}
  <2>1. listed = {agents[p].ws : p \in Live(agents)} /\ listed \subseteq Workspaces
    <3>1. listed = {agents[p].ws : p \in Live(agents)}
      BY <1>1, ListedWorkspaces
    <3> QED
      BY <1>1, <3>1 DEF Live, WellFormed, AgentRecord
  <2>2. /\ Gauges.total = [s \in Gauged |-> Count(counts.global, s)]
        /\ Gauges.within = [w \in listed |-> [s \in Gauged |-> Count(counts.workspace, <<w, s>>)]]
        /\ Gauges.concurrent = [w \in listed |->
             Count(counts.workspace, <<w, "working">>) + Count(counts.workspace, <<w, "blocked">>)]
    BY DEF Gauges
  <2> HIDE DEF listed
  <2>3. \A s \in Gauged : Gauges.total[s] = Cardinality(InState(Live(agents), s))
    BY <1>1, <2>2 DEF CountsMatch, Gauged
  <2>4. DOMAIN Gauges.within = {agents[p].ws : p \in Live(agents)}
    BY <2>1, <2>2
  <2>5. \A w \in listed, s \in Gauged :
          Gauges.within[w][s] = Cardinality(InBucket(Live(agents), w, s))
    <3>1. \A w \in listed, s \in Gauged :
            Gauges.within[w][s] = Count(counts.workspace, <<w, s>>)
      BY <2>2
    <3>2. \A w \in listed, s \in Gauged : w \in Workspaces /\ s \in Status
      BY <2>1 DEF Gauged
    <3> QED
      BY <1>1, <3>1, <3>2 DEF CountsMatch
  <2>6. \A w \in listed : Gauges.concurrent[w] =
          Cardinality({p \in Live(agents) : /\ agents[p].ws = w
                                            /\ agents[p].status \in {"working", "blocked"}})
    BY <1>1, <2>1, <2>2, BusyAgents
  <2>7. DOMAIN Gauges.within = listed /\ DOMAIN Gauges.concurrent = listed
    BY <2>2
  <2> QED
    BY <2>3, <2>4, <2>5, <2>6, <2>7 DEF GaugesTruthful
<1> QED
  BY <1>1, WellFormedAlways, CountsCorrect, PTL
=============================================================================
