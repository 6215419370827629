------------------------------- MODULE Opencode -------------------------------
(***************************************************************************)
(* internal/usage/adapters/opencode: one PollUsage call. The session a     *)
(* pane shows is resolved to the root of its tree by one SELECT per        *)
(* ancestor, and one recursive query then returns the tree. Each statement *)
(* sees the rows committed when it runs: opencode creates and prunes       *)
(* sessions between them.                                                  *)
(*                                                                         *)
(* The adapter keeps nothing between polls, so one poll is all there is.   *)
(* Abstracted: the counters of a row (one statement reads them all) and    *)
(* the path of the database.                                               *)
(***************************************************************************)
EXTENDS Naturals, FiniteSets

CONSTANTS
  Ids,               \* session ids
  maxParentWalkDepth,
  MaxWrites          \* bound on the sessions opencode creates or prunes

None == "" \* a NULL or empty parent_id

ASSUME IdsAssumption == IsFiniteSet(Ids) /\ None \notin Ids
ASSUME DepthAssumption == maxParentWalkDepth \in Nat \ {0}
ASSUME WritesAssumption == MaxWrites \in Nat

VARIABLES
  parent,  \* the parent_id a session has for as long as its row exists
  rows,    \* the sessions that have a row
  writes,  \* rows created or pruned so far
  poll,    \* where PollUsage is
  ref,     \* the session it was asked for
  root,    \* resolveRoot's root
  depth,   \* ... and how often it has climbed
  result,  \* the sessions returned
  created, pruned \* history: the rows that came and went since the poll began

dbVars == <<rows, writes, created, pruned>>
pollVars == <<poll, ref, root, depth, result>>
vars == <<parent, dbVars, pollVars>>

\* Any parent links: missing ancestors and cycles are what the code expects.
Init ==
  /\ parent \in [Ids -> Ids \cup {None}] /\ rows \in SUBSET Ids
  /\ writes = 0 /\ created = {} /\ pruned = {}
  /\ poll = "idle" /\ ref = None /\ root = None /\ depth = 0 /\ result = {}

-----------------------------------------------------------------------------
(* opencode, writing to its database.                                      *)

Write == writes < MaxWrites /\ writes' = writes + 1

Create(x) ==
  /\ x \notin rows
  /\ Write
  /\ rows' = rows \cup {x} /\ created' = created \cup {x}
  /\ UNCHANGED <<parent, pruned, pollVars>>

Prune(x) ==
  /\ x \in rows
  /\ Write
  /\ rows' = rows \ {x} /\ pruned' = pruned \cup {x}
  /\ UNCHANGED <<parent, created, pollVars>>

-----------------------------------------------------------------------------
(* The tree below a session, as the recursive query computes it: the least *)
(* set that holds the session and the children of all it holds.            *)

\* Mutant: a NULL parent_id joins.
HasChildrenAndRoots(D) == \A x \in rows : parent[x] \in D \cup {None} => x \in D

HasChildren(D) == \A x \in rows : parent[x] \in D => x \in D

Tree(r) == {x \in Ids : \A D \in SUBSET Ids : r \in D /\ HasChildren(D) => x \in D}

-----------------------------------------------------------------------------
(* PollUsage.                                                              *)

PollUsage(r) ==
  /\ poll = "idle"
  /\ poll' = "resolve" /\ ref' = r /\ root' = r /\ depth' = 0
  /\ created' = {} /\ pruned' = {}
  /\ UNCHANGED <<parent, rows, writes, result>>

\* A ref of kind path, a database that is missing or cannot be opened, a
\* statement that fails.
PollFails ==
  /\ poll \in {"resolve", "query"}
  /\ poll' = "failed"
  /\ UNCHANGED <<parent, dbVars, ref, root, depth, result>>

Resolved == poll' = "query" /\ UNCHANGED <<root, depth>>

\* Mutant: any missing row is a session that does not exist.
RowMissingAlwaysFails ==
  /\ root \notin rows
  /\ poll' = "notFound" /\ UNCHANGED <<root, depth>>

\* The row of root is gone: if it is the session asked for, that is reported.
\* A missing ancestor is the root all the same.
RowMissing ==
  /\ root \notin rows
  /\ IF root = ref THEN poll' = "notFound" /\ UNCHANGED <<root, depth>>
                   ELSE Resolved

IsTop == root \in rows /\ parent[root] = None /\ Resolved

\* Mutants: the walk ends one ancestor early; it goes one too far; it does not
\* count.
ClimbTooShort ==
  /\ root \in rows /\ parent[root] # None
  /\ root' = parent[root] /\ depth' = depth + 1
  /\ poll' = IF depth' + 1 >= maxParentWalkDepth THEN "query" ELSE "resolve"
ClimbTooFar ==
  /\ root \in rows /\ parent[root] # None
  /\ root' = parent[root] /\ depth' = depth + 1
  /\ poll' = IF depth' > maxParentWalkDepth THEN "query" ELSE "resolve"
ClimbUncounted ==
  /\ root \in rows /\ parent[root] # None
  /\ root' = parent[root] /\ UNCHANGED <<poll, depth>>

Climb ==
  /\ root \in rows /\ parent[root] # None
  /\ root' = parent[root] /\ depth' = depth + 1
  /\ poll' = IF depth' = maxParentWalkDepth THEN "query" ELSE "resolve"

resolveRoot ==
  /\ poll = "resolve"
  /\ RowMissing \/ IsTop \/ Climb
  /\ UNCHANGED <<parent, dbVars, ref, result>>

QueryTree ==
  /\ poll = "query"
  /\ poll' = "done" /\ result' = Tree(root) \cap rows
  /\ UNCHANGED <<parent, dbVars, ref, root, depth>>

-----------------------------------------------------------------------------
Next ==
  \/ \E x \in Ids : Create(x) \/ Prune(x) \/ PollUsage(x)
  \/ PollFails \/ resolveRoot \/ QueryTree

Spec == Init /\ [][Next]_vars

\* A statement returns or fails; opencode owes nothing.
FairSpec == Spec /\ WF_vars(resolveRoot \/ QueryTree)

-----------------------------------------------------------------------------
TypeOK ==
  /\ parent \in [Ids -> Ids \cup {None}]
  /\ rows \subseteq Ids /\ created \subseteq Ids /\ pruned \subseteq Ids
  /\ poll \in {"idle", "resolve", "query", "done", "failed", "notFound"}
  /\ ref \in Ids \cup {None} /\ root \in Ids \cup {None}
  /\ poll # "idle" => ref \in Ids /\ root \in Ids
  /\ depth \in 0..maxParentWalkDepth /\ (poll = "resolve" => depth < maxParentWalkDepth)
  /\ result \subseteq Ids

\* Linked(D): D holds both ends or none of every parent link that the rows of R
\* could have. Related: all that r is so linked to.
Linked(R, D) == \A y \in R : parent[y] \in Ids => (y \in D <=> parent[y] \in D)
Related(R, r) == {x \in Ids : \A D \in SUBSET Ids : r \in D /\ Linked(R, D) => x \in D}

\* r and its ancestors, as far as rows lead.
Ancestry(r) ==
  {x \in Ids : \A D \in SUBSET Ids :
     r \in D /\ (\A y \in D \cap rows : parent[y] \in Ids => parent[y] \in D) => x \in D}

(* A session of another tree is never reported, whatever is created and    *)
(* pruned while the walk is under way.                                     *)
OnlyRelated == result \subseteq Related(Ids, ref)

(* A session that has its row throughout is reported, unless others were   *)
(* pruned under the walk: missing ancestors, cycles and chains beyond the  *)
(* depth limit never blank the usage of the pane that shows it.            *)
RefReported ==
  poll \in {"done", "notFound"} /\ pruned = {} /\ ref \in rows \ created => ref \in result

(* While opencode writes nothing, the poll returns all that hangs below    *)
(* any ancestor that has its row, and where every ancestor has one, cycles *)
(* included, exactly the connected tree, whichever of its                  *)
(* sessions was asked for. The limit lets the walk climb                   *)
(* maxParentWalkDepth times. (Siblings below a missing ancestor are left   *)
(* open: the code returns them, its comments do not promise them.)         *)
WholeTree ==
  poll = "done" /\ created \cup pruned = {}
  /\ Cardinality(Ancestry(ref)) <= maxParentWalkDepth + 1
    => /\ \A x \in Ancestry(ref) \cap rows : Tree(x) \cap rows \subseteq result
       /\ Ancestry(ref) \subseteq rows => result = Related(rows, ref) \cap rows

(* A poll ends, also where parent_id runs in a circle.                     *)
PollEnds == poll = "resolve" ~> poll \in {"done", "failed", "notFound"}
=============================================================================
