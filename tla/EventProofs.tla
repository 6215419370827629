----------------------------- MODULE EventProofs -----------------------------
(***************************************************************************)
(* Why the tracker has the session right when no event was lost: proof of  *)
(* EventSourced, for any session and any capacity of the queue.            *)
(*                                                                         *)
(* EventSourced speaks of an empty queue only. What is inductive speaks of *)
(* any queue: handled one after the other, the events queued lead from the *)
(* outline the tracker has, or will have once the snapshot in hand is      *)
(* applied, to that of the session (Track); and of every pane covered, the *)
(* last status queued, or shown if none is, is the one it has (Covered).   *)
(***************************************************************************)
EXTENDS ObservrProofs

\* The loop follows the session: since the snapshot every event has come.
Following ==
  /\ ~gap
  /\ loop = "subscribe" \/ (loop \in {"select", "apply"} /\ stream \in {"sent", "open"})

-----------------------------------------------------------------------------
(* Outlines: workspaces, tabs and panes, and the ids of closed ones.       *)

\* When handling e does to the outline G what Herdr did.
Before(G, e) ==
  /\ e.kind = KindTabCreated => e.tab \notin G.knownTabs
  /\ e.kind = KindTabRenamed => e.tab \in DOMAIN G.tabs /\ G.tabs[e.tab] = e.ws
  /\ e.kind = KindPaneCreated =>
       e.pane \notin G.knownPanes /\ e.tab \in DOMAIN G.tabs /\ G.tabs[e.tab] = e.ws
  /\ e.kind \in {KindAgentDetected, KindAgentStatusChanged} =>
       e.pane \in DOMAIN G.panes /\ G.panes[e.pane].ws = e.ws

GoneTabs(G, e) ==
  {t \in DOMAIN G.tabs : \/ e.kind = KindWorkspaceClosed /\ G.tabs[t] = e.ws
                         \/ e.kind = KindTabClosed /\ t = e.tab}
GonePanes(G, e) ==
  {p \in DOMAIN G.panes : \/ e.kind = KindWorkspaceClosed /\ G.panes[p].ws = e.ws
                          \/ e.kind = KindTabClosed /\ G.panes[p].tab = e.tab
                          \/ e.kind = KindPaneClosed /\ p = e.pane}
NewTabs(e) == IF e.kind = KindTabCreated THEN {e.tab} ELSE {}
NewPanes(e) == IF e.kind = KindPaneCreated THEN {e.pane} ELSE {}

\* The outline after e.
After(G, e) ==
  [ws |-> IF e.kind = KindWorkspaceCreated THEN G.ws \cup {e.ws}
          ELSE IF e.kind = KindWorkspaceClosed THEN G.ws \ {e.ws} ELSE G.ws,
   tabs |-> [t \in (DOMAIN G.tabs \ GoneTabs(G, e)) \cup NewTabs(e) |->
               IF t \in NewTabs(e) THEN e.ws ELSE G.tabs[t]],
   panes |-> [p \in (DOMAIN G.panes \ GonePanes(G, e)) \cup NewPanes(e) |->
                IF p \in NewPanes(e) THEN [ws |-> e.ws, tab |-> e.tab] ELSE G.panes[p]],
   knownTabs |-> G.knownTabs \cup NewTabs(e),
   knownPanes |-> G.knownPanes \cup NewPanes(e)]

\* The events of q, one after the other, lead from G to H.
Leads(q, G, H) ==
  \E path :
    /\ path[0] = G /\ path[Len(q)] = H
    /\ \A i \in 1..Len(q) : Before(path[i - 1], q[i]) /\ path[i] = After(path[i - 1], q[i])

LEMMA LeadsNone ==
  ASSUME NEW G, NEW H
  PROVE  Leads(<<>>, G, H) <=> G = H
<1>1. Len(<<>>) = 0
  OBVIOUS
<1>2. ASSUME Leads(<<>>, G, H) PROVE G = H
  BY <1>1, <1>2 DEF Leads
<1>3. ASSUME G = H PROVE Leads(<<>>, G, H)
  <2> DEFINE path == [i \in {0} |-> G]
  <2>1. path[0] = G /\ path[Len(<<>>)] = H
    BY <1>1, <1>3
  <2>2. 1..Len(<<>>) = {}
    BY <1>1
  <2> HIDE DEF path
  <2> QED
    BY <2>1, <2>2 DEF Leads
<1> QED
  BY <1>2, <1>3

LEMMA LeadsOn ==
  ASSUME NEW S, NEW q \in Seq(S), NEW G, NEW H, Leads(q, G, H),
         NEW e \in S, Before(H, e)
  PROVE  Leads(Append(q, e), G, After(H, e))
<1> DEFINE n == Len(q)
           r == Append(q, e)
<1>1. n \in Nat /\ Len(r) = n + 1 /\ r[n + 1] = e /\ \A i \in 1..n : r[i] = q[i]
  OBVIOUS
<1>2. PICK path : /\ path[0] = G /\ path[n] = H
                  /\ \A i \in 1..n : Before(path[i - 1], q[i]) /\ path[i] = After(path[i - 1], q[i])
  BY DEF Leads
<1> DEFINE next == [i \in 0..(n + 1) |-> IF i = n + 1 THEN After(H, e) ELSE path[i]]
<1>3. /\ next[0] = G /\ next[n + 1] = After(H, e)
      /\ \A i \in 0..n : next[i] = path[i]
  BY <1>1, <1>2
<1> HIDE DEF next, r, n
<1>4. ASSUME NEW i \in 1..(n + 1)
      PROVE  Before(next[i - 1], r[i]) /\ next[i] = After(next[i - 1], r[i])
  <2>1. CASE i = n + 1
    <3>1. i - 1 = n /\ n \in 0..n
      BY <1>1, <2>1
    <3>2. next[i - 1] = H
      BY <1>2, <1>3, <3>1
    <3> QED
      BY <1>1, <1>3, <2>1, <3>2
  <2>2. CASE i # n + 1
    <3>1. i \in 1..n /\ i \in 0..n /\ i - 1 \in 0..n
      BY <1>1, <2>2
    <3>2. next[i - 1] = path[i - 1] /\ next[i] = path[i] /\ r[i] = q[i]
      BY <1>1, <1>3, <3>1
    <3> QED
      BY <1>2, <3>1, <3>2
  <2> QED
    BY <2>1, <2>2
<1>5. next[0] = G /\ next[Len(r)] = After(H, e)
  BY <1>1, <1>3
<1>6. Leads(r, G, After(H, e))
  BY <1>1, <1>4, <1>5 DEF Leads
<1> QED
  BY <1>6 DEF r

LEMMA LeadsNext ==
  ASSUME NEW S, NEW q \in Seq(S), q # <<>>, NEW G, NEW H, Leads(q, G, H)
  PROVE  Before(G, Head(q)) /\ Leads(Tail(q), After(G, Head(q)), H)
<1> DEFINE n == Len(q)
           r == Tail(q)
<1>1. n \in Nat \ {0} /\ Len(r) = n - 1 /\ Head(q) = q[1] /\ \A i \in 1..(n - 1) : r[i] = q[i + 1]
  OBVIOUS
<1>2. PICK path : /\ path[0] = G /\ path[n] = H
                  /\ \A i \in 1..n : Before(path[i - 1], q[i]) /\ path[i] = After(path[i - 1], q[i])
  BY DEF Leads
<1> HIDE DEF n, r
<1>3. Before(G, q[1]) /\ path[1] = After(G, q[1])
  <2>1. 1 \in 1..n /\ 1 - 1 = 0
    BY <1>1
  <2> QED
    BY <1>2, <2>1
<1> DEFINE next == [i \in 0..(n - 1) |-> path[i + 1]]
<1>4. \A i \in 0..(n - 1) : next[i] = path[i + 1]
  OBVIOUS
<1> HIDE DEF next
<1>5. next[0] = After(G, q[1]) /\ next[Len(r)] = H
  <2>1. 0 \in 0..(n - 1) /\ n - 1 \in 0..(n - 1) /\ (n - 1) + 1 = n /\ 0 + 1 = 1
    BY <1>1
  <2> QED
    BY <1>1, <1>2, <1>3, <1>4, <2>1
<1>6. ASSUME NEW i \in 1..(n - 1)
      PROVE  Before(next[i - 1], r[i]) /\ next[i] = After(next[i - 1], r[i])
  <2>1. i - 1 \in 0..(n - 1) /\ i \in 0..(n - 1) /\ i + 1 \in 1..n
        /\ (i - 1) + 1 = i /\ (i + 1) - 1 = i
    BY <1>1
  <2>2. next[i - 1] = path[i] /\ next[i] = path[i + 1] /\ r[i] = q[i + 1]
    BY <1>1, <1>4, <2>1
  <2>3. Before(path[i], q[i + 1]) /\ path[i + 1] = After(path[i], q[i + 1])
    BY <1>2, <2>1
  <2> QED
    BY <2>2, <2>3
<1>7. Leads(r, After(G, q[1]), H)
  BY <1>1, <1>5, <1>6 DEF Leads
<1> QED
  BY <1>1, <1>3, <1>7 DEF r

-----------------------------------------------------------------------------
(* What a change of the session appends to the queue when nothing is lost. *)

Sends(e) == e # NoEvent /\ (e.kind = KindAgentStatusChanged => e.pane \in scope)
Queued(q, e) == IF Sends(e) THEN Append(q, e) ELSE q

LEMMA SentQueued ==
  ASSUME NEW S, \A e \in S : Possible(e),
         NEW r \in Reading(S), NEW e \in S \cup {NoEvent}
  PROVE  /\ Sent(r, e) \in Reading(S)
         /\ ~Sent(r, e).lost => ~r.lost /\ Sent(r, e).queue = Queued(r.queue, e)
<1>1. CASE e = NoEvent
  BY <1>1, NoEventRead DEF Queued, Sends
<1>2. CASE e # NoEvent
  <2>1. Possible(e) /\ (Sends(e) <=> (e.kind = KindAgentStatusChanged => e.pane \in scope))
    BY <1>2 DEF Sends
  <2>2. Sent(r, e) = IF ~Sends(e) THEN r
                     ELSE IF Len(r.queue) < EventCap THEN [r EXCEPT !.queue = Append(@, e)]
                     ELSE [r EXCEPT !.lost = TRUE]
    BY <2>1, SentOne
  <2>3. DOMAIN r = {"queue", "lost"}
    BY DEF Reading
  <2>4. /\ [r EXCEPT !.lost = TRUE].lost
        /\ [r EXCEPT !.queue = Append(@, e)].lost = r.lost
        /\ [r EXCEPT !.queue = Append(@, e)].queue = Append(r.queue, e)
    BY <2>3
  <2> QED
    BY <2>2, <2>4, SentKeeps DEF Queued
<1> QED
  BY <1>1, <1>2

\* Three events and none lost: all that this subscription gets are queued.
LEMMA PushQueued ==
  ASSUME NEW S, \A e \in S : Possible(e), events \in Seq(S), gap \in BOOLEAN,
         NEW e1 \in S \cup {NoEvent}, NEW e2 \in S \cup {NoEvent},
         NEW e3 \in S \cup {NoEvent}, Push(e1, e2, e3), ~gap'
  PROVE  ~gap /\ stream = "open"
         /\ events' = Queued(Queued(Queued(events, e1), e2), e3)
<1>1. stream = "open" /\ Receive(Sent(Sent(Sent(Unread, e1), e2), e3))
  BY DEF Push
<1> DEFINE r1 == Sent(Unread, e1)
           r2 == Sent(r1, e2)
           r3 == Sent(r2, e3)
<1>2. Unread \in Reading(S) /\ Unread.queue = events /\ Unread.lost = gap
  BY DEF Unread, Reading
<1>3. r1 \in Reading(S) /\ (~r1.lost => ~gap /\ r1.queue = Queued(events, e1))
  BY <1>2, SentQueued
<1> HIDE DEF r1
<1>4. r2 \in Reading(S) /\ (~r2.lost => ~r1.lost /\ r2.queue = Queued(r1.queue, e2))
  BY <1>3, SentQueued
<1> HIDE DEF r2
<1>5. ~r3.lost => ~r2.lost /\ r3.queue = Queued(r2.queue, e3)
  BY <1>4, SentQueued
<1>6. events' = r3.queue /\ gap' = r3.lost
  BY <1>1 DEF Receive, r1, r2
<1> HIDE DEF r3
<1> QED
  BY <1>1, <1>3, <1>4, <1>5, <1>6

\* Queued events are of the kind that was queued.
LEMMA QueuedSeq ==
  ASSUME NEW S, NEW q \in Seq(S), NEW e \in S \cup {NoEvent}
  PROVE  Queued(q, e) \in Seq(S)
  BY DEF Queued, Sends

LEMMA LeadsQueued ==
  ASSUME NEW S, NEW q \in Seq(S), NEW G, NEW H, Leads(q, G, H),
         NEW e \in S \cup {NoEvent}, Sends(e) => Before(H, e)
  PROVE  Leads(Queued(q, e), G, IF Sends(e) THEN After(H, e) ELSE H)
<1>1. CASE Sends(e)
  <2>1. e \in S
    BY <1>1 DEF Sends
  <2> QED
    BY <1>1, <2>1, LeadsOn DEF Queued
<1>2. CASE ~Sends(e)
  BY <1>2 DEF Queued
<1> QED
  BY <1>1, <1>2

-----------------------------------------------------------------------------
(* The end of the track: the session.                                      *)

\* G is the outline of f.
Outlines(G, f) ==
  /\ G.ws = SnapWorkspaces(f)
  /\ DOMAIN G.tabs = SnapTabs(f) /\ DOMAIN G.panes = DOMAIN f
  /\ \A p \in DOMAIN f : /\ G.panes[p].ws = f[p].ws /\ G.panes[p].tab = f[p].tab
                         /\ G.tabs[f[p].tab] = f[p].ws

Ends(H) == Outlines(H, world) /\ H.knownTabs \cup H.knownPanes \subseteq used

\* What each kind of event adds and takes.
LEMMA KindsOfChange ==
  ASSUME NEW G, NEW e
  PROVE  /\ e.kind \notin {KindWorkspaceClosed, KindTabClosed} => GoneTabs(G, e) = {}
         /\ e.kind \notin {KindWorkspaceClosed, KindTabClosed, KindPaneClosed} =>
              GonePanes(G, e) = {}
         /\ e.kind = KindWorkspaceClosed =>
              /\ GoneTabs(G, e) = {t \in DOMAIN G.tabs : G.tabs[t] = e.ws}
              /\ GonePanes(G, e) = {p \in DOMAIN G.panes : G.panes[p].ws = e.ws}
         /\ e.kind = KindTabClosed =>
              /\ GoneTabs(G, e) = DOMAIN G.tabs \cap {e.tab}
              /\ GonePanes(G, e) = {p \in DOMAIN G.panes : G.panes[p].tab = e.tab}
         /\ e.kind = KindPaneClosed => GonePanes(G, e) = DOMAIN G.panes \cap {e.pane}
BY KindsDiffer DEF GoneTabs, GonePanes

\* An event of a tab's name or of an agent leaves the outline.
LEMMA AfterSame ==
  ASSUME NEW G, NEW e, e.kind \in {KindTabRenamed, KindAgentDetected, KindAgentStatusChanged},
         NEW H, H = After(G, e)
  PROVE  /\ H.ws = G.ws
         /\ DOMAIN H.tabs = DOMAIN G.tabs /\ \A t \in DOMAIN G.tabs : H.tabs[t] = G.tabs[t]
         /\ DOMAIN H.panes = DOMAIN G.panes /\ \A p \in DOMAIN G.panes : H.panes[p] = G.panes[p]
         /\ H.knownTabs = G.knownTabs /\ H.knownPanes = G.knownPanes
<1>1. GoneTabs(G, e) = {} /\ GonePanes(G, e) = {} /\ NewTabs(e) = {} /\ NewPanes(e) = {}
      /\ e.kind # KindWorkspaceCreated /\ e.kind # KindWorkspaceClosed
  BY KindsDiffer, KindsOfChange DEF NewTabs, NewPanes
<1> QED
  BY <1>1 DEF After

LEMMA AfterWorkspaceCreated ==
  ASSUME NEW G, NEW e, e.kind = KindWorkspaceCreated, NEW H, H = After(G, e)
  PROVE  /\ H.ws = G.ws \cup {e.ws}
         /\ DOMAIN H.tabs = DOMAIN G.tabs /\ \A t \in DOMAIN G.tabs : H.tabs[t] = G.tabs[t]
         /\ DOMAIN H.panes = DOMAIN G.panes /\ \A p \in DOMAIN G.panes : H.panes[p] = G.panes[p]
         /\ H.knownTabs = G.knownTabs /\ H.knownPanes = G.knownPanes
<1>1. GoneTabs(G, e) = {} /\ GonePanes(G, e) = {} /\ NewTabs(e) = {} /\ NewPanes(e) = {}
  BY KindsDiffer, KindsOfChange DEF NewTabs, NewPanes
<1> QED
  BY <1>1 DEF After

LEMMA AfterTabCreated ==
  ASSUME NEW G, NEW e, e.kind = KindTabCreated, NEW H, H = After(G, e)
  PROVE  /\ H.ws = G.ws
         /\ DOMAIN H.tabs = DOMAIN G.tabs \cup {e.tab}
         /\ \A t \in DOMAIN H.tabs : H.tabs[t] = IF t = e.tab THEN e.ws ELSE G.tabs[t]
         /\ DOMAIN H.panes = DOMAIN G.panes /\ \A p \in DOMAIN G.panes : H.panes[p] = G.panes[p]
         /\ H.knownTabs = G.knownTabs \cup {e.tab} /\ H.knownPanes = G.knownPanes
<1>1. /\ GoneTabs(G, e) = {} /\ GonePanes(G, e) = {} /\ NewTabs(e) = {e.tab} /\ NewPanes(e) = {}
      /\ e.kind # KindWorkspaceCreated /\ e.kind # KindWorkspaceClosed
  BY KindsDiffer, KindsOfChange DEF NewTabs, NewPanes
<1> QED
  BY <1>1 DEF After

LEMMA AfterPaneCreated ==
  ASSUME NEW G, NEW e, e.kind = KindPaneCreated, NEW H, H = After(G, e)
  PROVE  /\ H.ws = G.ws
         /\ DOMAIN H.tabs = DOMAIN G.tabs /\ \A t \in DOMAIN G.tabs : H.tabs[t] = G.tabs[t]
         /\ DOMAIN H.panes = DOMAIN G.panes \cup {e.pane}
         /\ \A p \in DOMAIN H.panes :
              H.panes[p] = IF p = e.pane THEN [ws |-> e.ws, tab |-> e.tab] ELSE G.panes[p]
         /\ H.knownTabs = G.knownTabs /\ H.knownPanes = G.knownPanes \cup {e.pane}
<1>1. /\ GoneTabs(G, e) = {} /\ GonePanes(G, e) = {} /\ NewTabs(e) = {} /\ NewPanes(e) = {e.pane}
      /\ e.kind # KindWorkspaceCreated /\ e.kind # KindWorkspaceClosed
  BY KindsDiffer, KindsOfChange DEF NewTabs, NewPanes
<1> QED
  BY <1>1 DEF After

\* H is G with one pane more, and with what holds it.
OneMore(H, G, p, r) ==
  /\ H.ws = G.ws \cup {r.ws}
  /\ DOMAIN H.tabs = DOMAIN G.tabs \cup {r.tab}
  /\ \A t \in DOMAIN H.tabs : H.tabs[t] = IF t = r.tab THEN r.ws ELSE G.tabs[t]
  /\ DOMAIN H.panes = DOMAIN G.panes \cup {p}
  /\ \A q \in DOMAIN H.panes :
       H.panes[q] = IF q = p THEN [ws |-> r.ws, tab |-> r.tab] ELSE G.panes[q]

TabFits(f, r) == \A q \in DOMAIN f : f[q].tab = r.tab => f[q].ws = r.ws

LEMMA PutOutline ==
  ASSUME NEW G, NEW f, Outlines(G, f), NEW p, p \notin DOMAIN f, NEW r, TabFits(f, r),
         NEW H, OneMore(H, G, p, r)
  PROVE  Outlines(H, Put(f, p, r))
<1> DEFINE g == Put(f, p, r)
<1>1. DOMAIN g = DOMAIN f \cup {p} /\ g[p] = r /\ \A q \in DOMAIN f : g[q] = f[q]
  BY DEF Put
<1> HIDE DEF g
<1>2. /\ G.ws = SnapWorkspaces(f) /\ DOMAIN G.tabs = SnapTabs(f) /\ DOMAIN G.panes = DOMAIN f
      /\ \A q \in DOMAIN f : /\ G.panes[q].ws = f[q].ws /\ G.panes[q].tab = f[q].tab
                             /\ G.tabs[f[q].tab] = f[q].ws
  BY DEF Outlines
<1>3. SnapWorkspaces(g) = SnapWorkspaces(f) \cup {r.ws}
  BY <1>1 DEF SnapWorkspaces
<1>4. SnapTabs(g) = SnapTabs(f) \cup {r.tab}
  BY <1>1 DEF SnapTabs
<1>5. H.ws = SnapWorkspaces(g) /\ DOMAIN H.tabs = SnapTabs(g) /\ DOMAIN H.panes = DOMAIN g
  BY <1>1, <1>2, <1>3, <1>4 DEF OneMore
<1>6. ASSUME NEW q \in DOMAIN g
      PROVE  /\ H.panes[q].ws = g[q].ws /\ H.panes[q].tab = g[q].tab
             /\ H.tabs[g[q].tab] = g[q].ws
  <2>1. CASE q = p
    BY <1>1, <1>5, <2>1 DEF OneMore
  <2>2. CASE q # p
    <3>1. q \in DOMAIN f /\ g[q] = f[q]
      BY <1>1, <2>2
    <3>2. H.panes[q] = G.panes[q]
      BY <1>5, <2>2 DEF OneMore
    <3>3. H.tabs[f[q].tab] = f[q].ws
      BY <1>2, <1>4, <1>5, <3>1 DEF SnapTabs, OneMore, TabFits
    <3> QED
      BY <1>2, <3>1, <3>2, <3>3
  <2> QED
    BY <2>1, <2>2
<1>7. Outlines(H, g)
  BY <1>5, <1>6 DEF Outlines
<1> QED
  BY <1>7 DEF g

\* What a pane brings with it is created first.
LEMMA OpenPaneEnds ==
  ASSUME NEW H, Ends(H), NEW pl \in Places, NEW r, r.ws = pl[2], r.tab = pl[3],
         pl[1] \notin used, world' = Put(world, pl[1], r), used' = used \cup {pl[1], pl[2], pl[3]},
         pl[3] \in used => \E q \in DOMAIN world : world[q].tab = pl[3],
         \A q \in DOMAIN world : world[q].tab = pl[3] => world[q].ws = pl[2],
         DOMAIN world \subseteq used,
         NEW ew, ew = Ev(KindWorkspaceCreated, None, pl[2], None, None, None),
         NEW et, et = Ev(KindTabCreated, None, pl[2], pl[3], None, None),
         NEW ep, ep = Ev(KindPaneCreated, pl[1], pl[2], pl[3], None, None),
         NEW H1, H1 = IF In(world, pl[2]) = {} THEN After(H, ew) ELSE H,
         NEW H2, H2 = IF {q \in DOMAIN world : world[q].tab = pl[3]} = {}
                        THEN After(H1, et) ELSE H1,
         NEW H3, H3 = After(H2, ep)
  PROVE  /\ Before(H, ew)
         /\ {q \in DOMAIN world : world[q].tab = pl[3]} = {} => Before(H1, et)
         /\ Before(H2, ep)
         /\ Ends(H3)'
<1> DEFINE p == pl[1]
           w == pl[2]
           t == pl[3]
           inTab == {q \in DOMAIN world : world[q].tab = t}
<1>1. /\ ew.kind = KindWorkspaceCreated /\ ew.ws = w
      /\ et.kind = KindTabCreated /\ et.ws = w /\ et.tab = t
      /\ ep.kind = KindPaneCreated /\ ep.pane = p /\ ep.ws = w /\ ep.tab = t
  BY DEF Ev
<1>2. /\ Outlines(H, world) /\ H.knownTabs \cup H.knownPanes \subseteq used
      /\ inTab = {} => t \notin used
  BY DEF Ends
<1> HIDE DEF p, w, t, inTab
<1>3. /\ H1.ws = H.ws \cup {w}
      /\ DOMAIN H1.tabs = DOMAIN H.tabs /\ \A x \in DOMAIN H.tabs : H1.tabs[x] = H.tabs[x]
      /\ DOMAIN H1.panes = DOMAIN H.panes /\ \A q \in DOMAIN H.panes : H1.panes[q] = H.panes[q]
      /\ H1.knownTabs = H.knownTabs /\ H1.knownPanes = H.knownPanes
  <2>1. CASE In(world, w) = {}
    <3>1. H1 = After(H, ew)
      BY <2>1 DEF w
    <3> QED
      BY <1>1, <3>1, AfterWorkspaceCreated
  <2>2. CASE In(world, w) # {}
    <3>1. w \in H.ws
      BY <1>2, <2>2 DEF Outlines, SnapWorkspaces, In
    <3> QED
      BY <2>2, <3>1 DEF w
  <2> QED
    BY <2>1, <2>2
<1>4. /\ H2.ws = H1.ws
      /\ DOMAIN H2.tabs = DOMAIN H1.tabs \cup {t}
      /\ \A x \in DOMAIN H2.tabs : H2.tabs[x] = IF x = t THEN w ELSE H1.tabs[x]
      /\ DOMAIN H2.panes = DOMAIN H1.panes /\ \A q \in DOMAIN H1.panes : H2.panes[q] = H1.panes[q]
      /\ H2.knownTabs \subseteq H1.knownTabs \cup {t} /\ H2.knownPanes = H1.knownPanes
  <2>1. CASE inTab = {}
    <3>1. H2 = After(H1, et)
      BY <2>1 DEF inTab, t
    <3> QED
      BY <1>1, <3>1, AfterTabCreated
  <2>2. CASE inTab # {}
    <3>1. PICK q \in DOMAIN world : world[q].tab = t /\ world[q].ws = w
      BY <2>2 DEF inTab, t, w
    <3>2. t \in DOMAIN H.tabs /\ H.tabs[t] = w
      BY <1>2, <3>1 DEF Outlines, SnapTabs
    <3>3. H2 = H1
      BY <2>2 DEF inTab, t
    <3> QED
      BY <1>3, <3>2, <3>3
  <2> QED
    BY <2>1, <2>2
<1>5. /\ H3.ws = H2.ws
      /\ DOMAIN H3.tabs = DOMAIN H2.tabs /\ \A x \in DOMAIN H2.tabs : H3.tabs[x] = H2.tabs[x]
      /\ DOMAIN H3.panes = DOMAIN H2.panes \cup {p}
      /\ \A q \in DOMAIN H3.panes : H3.panes[q] = IF q = p THEN [ws |-> w, tab |-> t] ELSE H2.panes[q]
      /\ H3.knownTabs = H2.knownTabs /\ H3.knownPanes = H2.knownPanes \cup {p}
  BY <1>1, AfterPaneCreated
<1>6. Before(H, ew)
  BY <1>1, KindsDiffer DEF Before
<1>7. inTab = {} => Before(H1, et)
  BY <1>1, <1>2, <1>3, KindsDiffer DEF Before
<1>8. Before(H2, ep)
  <2>1. p \notin H2.knownPanes
    BY <1>2, <1>3, <1>4 DEF p
  <2> QED
    BY <1>1, <1>4, <2>1, KindsDiffer DEF Before
<1>9. r.ws = w /\ r.tab = t
  BY DEF w, t
<1>10. OneMore(H3, H, p, r)
  <2>1. H3.ws = H.ws \cup {r.ws}
    BY <1>3, <1>4, <1>5, <1>9
  <2>2. DOMAIN H3.tabs = DOMAIN H.tabs \cup {r.tab}
    BY <1>3, <1>4, <1>5, <1>9
  <2>3. ASSUME NEW x \in DOMAIN H3.tabs
        PROVE  H3.tabs[x] = IF x = r.tab THEN r.ws ELSE H.tabs[x]
    BY <1>3, <1>4, <1>5, <1>9
  <2>4. DOMAIN H3.panes = DOMAIN H.panes \cup {p}
    BY SMTT(30), <1>3, <1>4, <1>5
  <2>5. ASSUME NEW q \in DOMAIN H3.panes
        PROVE  H3.panes[q] = IF q = p THEN [ws |-> r.ws, tab |-> r.tab] ELSE H.panes[q]
    BY <1>3, <1>4, <1>5, <1>9
  <2> QED
    BY <2>1, <2>2, <2>3, <2>4, <2>5 DEF OneMore
<1>11. Outlines(H3, world')
  <2>1. TabFits(world, r)
    BY DEF TabFits
  <2>2. world' = Put(world, p, r) /\ p \notin DOMAIN world
    BY DEF p
  <2> QED
    BY <1>2, <1>10, <2>1, <2>2, PutOutline
<1>12. H3.knownTabs \cup H3.knownPanes \subseteq used'
  <2>1. used' = used \cup {p, w, t}
    BY DEF p, w, t
  <2>2. H3.knownTabs \subseteq H.knownTabs \cup {t}
    BY <1>3, <1>4, <1>5
  <2>3. H3.knownPanes = H.knownPanes \cup {p}
    BY SMTT(30), <1>3, <1>4, <1>5
  <2> QED
    BY <1>2, <2>1, <2>2, <2>3
<1>13. Ends(H3)'
  BY <1>11, <1>12 DEF Ends
<1> QED
  BY <1>6, <1>7, <1>8, <1>13 DEF inTab, t

\* Events of a change and where they lead.
SessionEvents == {e \in NormalizedEvents : Possible(e)}

LEMMA PushLeads ==
  ASSUME LawInv, NEW e1 \in SessionEvents \cup {NoEvent}, NEW e2 \in SessionEvents \cup {NoEvent},
         NEW e3 \in SessionEvents \cup {NoEvent}, Push(e1, e2, e3), ~gap',
         NEW G, NEW H, Leads(events, G, H),
         NEW H1, H1 = IF Sends(e1) THEN After(H, e1) ELSE H,
         NEW H2, H2 = IF Sends(e2) THEN After(H1, e2) ELSE H1,
         NEW H3, H3 = IF Sends(e3) THEN After(H2, e3) ELSE H2,
         Sends(e1) => Before(H, e1), Sends(e2) => Before(H1, e2), Sends(e3) => Before(H2, e3)
  PROVE  Leads(events', G, H3)
<1> DEFINE S == SessionEvents
           q1 == Queued(events, e1)
           q2 == Queued(q1, e2)
<1>1. \A e \in S : Possible(e)
  BY DEF SessionEvents
<1>2. events \in Seq(S) /\ gap \in BOOLEAN
  <2>1. LawfulEvents \subseteq S
    BY DEF LawfulEvents, SessionEvents, Lawful
  <2> QED
    BY <2>1 DEF LawInv
<1> HIDE DEF S
<1>3. events' = Queued(q2, e3)
  BY <1>1, <1>2, PushQueued DEF S
<1>4. q1 \in Seq(S) /\ Leads(q1, G, H1)
  BY <1>2, QueuedSeq, LeadsQueued DEF S
<1> HIDE DEF q1
<1>5. q2 \in Seq(S) /\ Leads(q2, G, H2)
  BY <1>4, QueuedSeq, LeadsQueued DEF S
<1> HIDE DEF q2
<1>6. Leads(Queued(q2, e3), G, H3)
  BY <1>5, LeadsQueued DEF S
<1> QED
  BY <1>3, <1>6

-----------------------------------------------------------------------------
(* The start of the track: the tracker, or the snapshot it will get.       *)

Tracks(G) ==
  /\ G.ws = workspaces
  /\ DOMAIN G.tabs = Live(tabs) /\ \A t \in Live(tabs) : G.tabs[t] = tabs[t].ws
  /\ DOMAIN G.panes = Live(panes)
  /\ \A p \in Live(panes) : G.panes[p].ws = panes[p].ws /\ G.panes[p].tab = panes[p].tab
  /\ DOMAIN tabs \subseteq G.knownTabs /\ DOMAIN panes \cup DOMAIN agents \subseteq G.knownPanes

Fetched(G) ==
  /\ Outlines(G, fetched)
  /\ SnapTabs(fetched) \subseteq G.knownTabs /\ DOMAIN fetched \subseteq G.knownPanes

Starts(G) == IF loop = "select" THEN Tracks(G) ELSE Fetched(G)

\* The agents go with their panes.
AgentsFollow ==
  /\ Live(agents) \subseteq Live(panes) /\ Closed(agents) \cap Live(panes) = {}
  /\ \A p \in Live(agents) : agents[p].ws = panes[p].ws /\ agents[p].status = panes[p].status

Track ==
  Following =>
    /\ \E G, H : Starts(G) /\ Leads(events, G, H) /\ Ends(H)
    /\ loop = "select" => AgentsFollow

\* A change of the session that the subscription saw whole.
LEMMA PushFollowing ==
  ASSUME LawInv, NEW e1, NEW e2, NEW e3, Push(e1, e2, e3), Following',
         UNCHANGED <<stream, loop, scope>>
  PROVE  stream = "open" /\ loop \in {"select", "apply"} /\ ~gap'
<1>1. ~gap' /\ stream = "open"
  BY DEF Following, Push
<1>2. loop # "subscribe"
  BY <1>1 DEF LawInv
<1> QED
  BY <1>1, <1>2 DEF Following

LEMMA PushTrack ==
  ASSUME LawInv, Track,
         NEW e1 \in SessionEvents \cup {NoEvent}, NEW e2 \in SessionEvents \cup {NoEvent},
         NEW e3 \in SessionEvents \cup {NoEvent}, Push(e1, e2, e3),
         UNCHANGED <<vars, stream, loop, scope, fetched>>,
         \A H : Ends(H) =>
           \E H1, H2, H3 :
             /\ H1 = IF Sends(e1) THEN After(H, e1) ELSE H
             /\ H2 = IF Sends(e2) THEN After(H1, e2) ELSE H1
             /\ H3 = IF Sends(e3) THEN After(H2, e3) ELSE H2
             /\ Sends(e1) => Before(H, e1)
             /\ Sends(e2) => Before(H1, e2)
             /\ Sends(e3) => Before(H2, e3)
             /\ Ends(H3)'
  PROVE  Track'
<1> SUFFICES ASSUME Following'
             PROVE  /\ \E G, H : Starts(G)' /\ Leads(events, G, H)' /\ Ends(H)'
                    /\ loop' = "select" => AgentsFollow'
  BY DEF Track
<1>1. stream = "open" /\ loop \in {"select", "apply"} /\ ~gap'
  BY PushFollowing
<1>2. Following
  <2>1. \A e \in SessionEvents : Possible(e)
    BY DEF SessionEvents
  <2>2. events \in Seq(SessionEvents) /\ gap \in BOOLEAN
    <3>1. LawfulEvents \subseteq SessionEvents
      BY DEF LawfulEvents, SessionEvents, Lawful
    <3> QED
      BY <3>1 DEF LawInv
  <2>3. ~gap
    BY <1>1, <2>1, <2>2, PushQueued
  <2> QED
    BY <1>1, <2>3 DEF Following
<1>3. PICK G, H : Starts(G) /\ Leads(events, G, H) /\ Ends(H)
  BY <1>2 DEF Track
<1>4. PICK H1, H2, H3 :
        /\ H1 = IF Sends(e1) THEN After(H, e1) ELSE H
        /\ H2 = IF Sends(e2) THEN After(H1, e2) ELSE H1
        /\ H3 = IF Sends(e3) THEN After(H2, e3) ELSE H2
        /\ Sends(e1) => Before(H, e1)
        /\ Sends(e2) => Before(H1, e2)
        /\ Sends(e3) => Before(H2, e3)
        /\ Ends(H3)'
  BY <1>3
<1>5. Leads(events', G, H3)
  BY <1>1, <1>3, <1>4, PushLeads
<1>6. Starts(G)'
  BY <1>3 DEF Starts, Tracks, Fetched, Outlines, SnapTabs, SnapWorkspaces, Live, vars
<1>7. loop' = "select" => AgentsFollow'
  BY <1>2 DEF Track, AgentsFollow, Live, Closed, vars
<1>8. Leads(events, G, H3)'
  BY <1>5 DEF Leads
<1> QED
  BY <1>4, <1>6, <1>7, <1>8

-----------------------------------------------------------------------------
(* The track, through every change of the session.                         *)

\* The events about a place of the session.
LEMMA EventsOfPlace ==
  ASSUME NEW pl \in Places
  PROVE  /\ Ev(KindWorkspaceCreated, None, pl[2], None, None, None) \in SessionEvents
         /\ Ev(KindTabCreated, None, pl[2], pl[3], None, None) \in SessionEvents
         /\ Ev(KindPaneCreated, pl[1], pl[2], pl[3], None, None) \in SessionEvents
         /\ Ev(KindWorkspaceClosed, None, pl[2], None, None, None) \in SessionEvents
         /\ Ev(KindTabClosed, None, pl[2], pl[3], None, None) \in SessionEvents
         /\ Ev(KindTabRenamed, None, pl[2], pl[3], None, None) \in SessionEvents
         /\ Ev(KindPaneClosed, pl[1], pl[2], None, None, None) \in SessionEvents
         /\ \A a \in Agents :
              Ev(KindAgentDetected, pl[1], pl[2], None, a, None) \in SessionEvents
         /\ \A a \in Agents, s \in Reported :
              Ev(KindAgentStatusChanged, pl[1], pl[2], None, a, s) \in SessionEvents
<1>1. \A k, p, w, t, a, s : Ev(k, p, w, t, a, s).kind = k
  BY DEF Ev
<1>2. Possible(Ev(KindWorkspaceCreated, None, pl[2], None, None, None))
  BY <1>1, KindsDiffer DEF Possible, Kinds
<1>3. Possible(Ev(KindTabCreated, None, pl[2], pl[3], None, None))
  BY <1>1, KindsDiffer DEF Possible, Kinds
<1>4. Possible(Ev(KindPaneCreated, pl[1], pl[2], pl[3], None, None))
  BY <1>1, KindsDiffer DEF Possible, Kinds
<1>5. Possible(Ev(KindWorkspaceClosed, None, pl[2], None, None, None))
  BY <1>1, KindsDiffer DEF Possible, Kinds
<1>6. Possible(Ev(KindTabClosed, None, pl[2], pl[3], None, None))
  BY <1>1, KindsDiffer DEF Possible, Kinds
<1>7. Possible(Ev(KindTabRenamed, None, pl[2], pl[3], None, None))
  BY <1>1, KindsDiffer DEF Possible, Kinds
<1>8. Possible(Ev(KindPaneClosed, pl[1], pl[2], None, None, None))
  BY <1>1, KindsDiffer DEF Possible, Kinds
<1>9. \A a \in Agents : Possible(Ev(KindAgentDetected, pl[1], pl[2], None, a, None))
  BY <1>1, KindsDiffer DEF Possible, Kinds
<1>10. \A a \in Agents, s \in Reported :
         Possible(Ev(KindAgentStatusChanged, pl[1], pl[2], None, a, s))
  BY <1>1, KindsDiffer DEF Possible, Kinds
<1> QED
  BY <1>2, <1>3, <1>4, <1>5, <1>6, <1>7, <1>8, <1>9, <1>10, PossibleTyped DEF SessionEvents

LEMMA NoEventKind ==
  ASSUME NEW e, e.kind \in Kinds
  PROVE  e # NoEvent /\ (e.kind # KindAgentStatusChanged => Sends(e))
<1>1. e # NoEvent
  BY KindsDiffer DEF NoEvent, Ev
<1> QED
  BY <1>1 DEF Sends

LEMMA OpenPaneTrack ==
  ASSUME LawInv, Track, NEW pl \in Places, OpenPane(pl)
  PROVE  Track'
<1> DEFINE inTab == {q \in DOMAIN world : world[q].tab = pl[3]}
           r == [ws |-> pl[2], tab |-> pl[3], agent |-> None, status |-> "unknown",
                 session |-> None]
           ew == Ev(KindWorkspaceCreated, None, pl[2], None, None, None)
           et == Ev(KindTabCreated, None, pl[2], pl[3], None, None)
           ep == Ev(KindPaneCreated, pl[1], pl[2], pl[3], None, None)
           e1 == Unless(In(world, pl[2]) # {}, ew)
           e2 == Unless(inTab # {}, et)
<1>1. /\ pl[1] \notin used /\ (pl[3] \in used => inTab # {})
      /\ \A q \in inTab : world[q].ws = pl[2]
      /\ used' = used \cup {pl[1], pl[3], pl[2]} /\ world' = Put(world, pl[1], r)
      /\ UNCHANGED <<vars, stream, loop, scope, fetched>>
      /\ Push(e1, e2, ep)
  BY DEF OpenPane, InTab, Changing, lvars
<1>2. DOMAIN world \subseteq used
  BY DEF LawInv, SessionLawful
<1>3. r.ws = pl[2] /\ r.tab = pl[3]
  OBVIOUS
<1>4. /\ ew \in SessionEvents /\ et \in SessionEvents /\ ep \in SessionEvents
      /\ ew.kind = KindWorkspaceCreated /\ et.kind = KindTabCreated /\ ep.kind = KindPaneCreated
  <2>1. ew \in SessionEvents /\ et \in SessionEvents /\ ep \in SessionEvents
    BY EventsOfPlace
  <2> QED
    BY <2>1 DEF Ev
<1> HIDE DEF r, ew, et, ep
<1>5. Sends(ew) /\ Sends(et) /\ Sends(ep) /\ ~Sends(NoEvent)
  BY <1>4, KindsDiffer, NoEventKind DEF Kinds, Sends
<1>6. /\ e1 \in SessionEvents \cup {NoEvent} /\ e2 \in SessionEvents \cup {NoEvent}
      /\ Sends(e1) <=> In(world, pl[2]) = {}
      /\ Sends(e1) => e1 = ew
      /\ Sends(e2) <=> inTab = {}
      /\ Sends(e2) => e2 = et
  BY <1>4, <1>5 DEF Unless
<1>7. ASSUME NEW H, Ends(H)
      PROVE  \E H1, H2, H3 :
               /\ H1 = IF Sends(e1) THEN After(H, e1) ELSE H
               /\ H2 = IF Sends(e2) THEN After(H1, e2) ELSE H1
               /\ H3 = IF Sends(ep) THEN After(H2, ep) ELSE H2
               /\ Sends(e1) => Before(H, e1)
               /\ Sends(e2) => Before(H1, e2)
               /\ Sends(ep) => Before(H2, ep)
               /\ Ends(H3)'
  <2>1. PICK H1 : H1 = IF In(world, pl[2]) = {} THEN After(H, ew) ELSE H
    OBVIOUS
  <2>2. PICK H2 : H2 = IF inTab = {} THEN After(H1, et) ELSE H1
    OBVIOUS
  <2>3. PICK H3 : H3 = After(H2, ep)
    OBVIOUS
  <2>4. Before(H, ew) /\ (inTab = {} => Before(H1, et)) /\ Before(H2, ep) /\ Ends(H3)'
    <3>1. /\ ew = Ev(KindWorkspaceCreated, None, pl[2], None, None, None)
          /\ et = Ev(KindTabCreated, None, pl[2], pl[3], None, None)
          /\ ep = Ev(KindPaneCreated, pl[1], pl[2], pl[3], None, None)
      BY DEF ew, et, ep
    <3>2. /\ used' = used \cup {pl[1], pl[2], pl[3]}
          /\ pl[3] \in used => \E q \in DOMAIN world : world[q].tab = pl[3]
          /\ \A q \in DOMAIN world : world[q].tab = pl[3] => world[q].ws = pl[2]
      BY <1>1
    <3> QED
      BY <1>1, <1>2, <1>3, <1>7, <2>1, <2>2, <2>3, <3>1, <3>2, OpenPaneEnds
  <2> HIDE DEF e1, e2, inTab
  <2>5. /\ H1 = IF Sends(e1) THEN After(H, e1) ELSE H
        /\ H2 = IF Sends(e2) THEN After(H1, e2) ELSE H1
        /\ H3 = IF Sends(ep) THEN After(H2, ep) ELSE H2
    BY <1>5, <1>6, <2>1, <2>2, <2>3
  <2>6. (Sends(e1) => Before(H, e1)) /\ (Sends(e2) => Before(H1, e2)) /\ Before(H2, ep)
    BY <1>6, <2>4
  <2> QED
    BY <2>4, <2>5, <2>6
<1> HIDE DEF e1, e2
<1> QED
  BY <1>1, <1>4, <1>6, <1>7, PushTrack

\* An outline but for its workspaces.
Inside(H, g) ==
  /\ DOMAIN H.tabs = SnapTabs(g) /\ DOMAIN H.panes = DOMAIN g
  /\ \A q \in DOMAIN g : /\ H.panes[q].ws = g[q].ws /\ H.panes[q].tab = g[q].tab
                         /\ H.tabs[g[q].tab] = g[q].ws

Less(f, P) == [q \in DOMAIN f \ P |-> f[q]]

\* A close that reaches the panes of P, and the tabs that only they were in.
LEMMA LessInside ==
  ASSUME NEW G, NEW f, Outlines(G, f), NEW P, NEW e,
         e.kind \in {KindWorkspaceClosed, KindTabClosed, KindPaneClosed},
         GonePanes(G, e) = P, SnapTabs(Less(f, P)) = SnapTabs(f) \ GoneTabs(G, e),
         NEW H, H = After(G, e)
  PROVE  /\ Inside(H, Less(f, P))
         /\ H.ws = IF e.kind = KindWorkspaceClosed THEN G.ws \ {e.ws} ELSE G.ws
         /\ H.knownTabs = G.knownTabs /\ H.knownPanes = G.knownPanes
<1> DEFINE g == Less(f, P)
<1>1. DOMAIN g = DOMAIN f \ P /\ \A q \in DOMAIN g : g[q] = f[q]
  BY DEF Less
<1> HIDE DEF g
<1>2. /\ H.ws = IF e.kind = KindWorkspaceClosed THEN G.ws \ {e.ws} ELSE G.ws
      /\ DOMAIN H.tabs = DOMAIN G.tabs \ GoneTabs(G, e)
      /\ \A t \in DOMAIN H.tabs : H.tabs[t] = G.tabs[t]
      /\ DOMAIN H.panes = DOMAIN G.panes \ GonePanes(G, e)
      /\ \A q \in DOMAIN H.panes : H.panes[q] = G.panes[q]
      /\ H.knownTabs = G.knownTabs /\ H.knownPanes = G.knownPanes
  <2>1. NewTabs(e) = {} /\ NewPanes(e) = {} /\ e.kind # KindWorkspaceCreated
    BY KindsDiffer DEF NewTabs, NewPanes
  <2> QED
    BY <2>1 DEF After
<1>3. /\ DOMAIN G.tabs = SnapTabs(f) /\ DOMAIN G.panes = DOMAIN f
      /\ \A q \in DOMAIN f : /\ G.panes[q].ws = f[q].ws /\ G.panes[q].tab = f[q].tab
                             /\ G.tabs[f[q].tab] = f[q].ws
  BY DEF Outlines
<1>4. SnapTabs(g) = SnapTabs(f) \ GoneTabs(G, e)
  BY DEF g
<1>5. DOMAIN H.tabs = SnapTabs(g) /\ DOMAIN H.panes = DOMAIN g
  BY <1>1, <1>2, <1>3, <1>4
<1>6. ASSUME NEW q \in DOMAIN g
      PROVE  /\ H.panes[q].ws = g[q].ws /\ H.panes[q].tab = g[q].tab
             /\ H.tabs[g[q].tab] = g[q].ws
  <2>1. q \in DOMAIN f /\ g[q] = f[q] /\ g[q].tab \in SnapTabs(g)
    BY <1>1 DEF SnapTabs
  <2> QED
    BY <1>2, <1>3, <1>5, <2>1
<1>7. Inside(H, g)
  BY <1>5, <1>6 DEF Inside
<1> QED
  BY <1>2, <1>7 DEF g

\* The close of a workspace that nothing is left in.
LEMMA EmptyWorkspaceClosed ==
  ASSUME NEW G, NEW g, Inside(G, g), NEW e, e.kind = KindWorkspaceClosed,
         \A q \in DOMAIN g : g[q].ws # e.ws, NEW H, H = After(G, e)
  PROVE  Inside(H, g) /\ H.ws = G.ws \ {e.ws}
         /\ H.knownTabs = G.knownTabs /\ H.knownPanes = G.knownPanes
<1>1. /\ H.ws = G.ws \ {e.ws}
      /\ DOMAIN H.tabs = DOMAIN G.tabs \ GoneTabs(G, e)
      /\ \A t \in DOMAIN H.tabs : H.tabs[t] = G.tabs[t]
      /\ DOMAIN H.panes = DOMAIN G.panes \ GonePanes(G, e)
      /\ \A q \in DOMAIN H.panes : H.panes[q] = G.panes[q]
      /\ H.knownTabs = G.knownTabs /\ H.knownPanes = G.knownPanes
  <2>1. NewTabs(e) = {} /\ NewPanes(e) = {} /\ e.kind # KindWorkspaceCreated
    BY KindsDiffer DEF NewTabs, NewPanes
  <2> QED
    BY <2>1 DEF After
<1>2. GoneTabs(G, e) = {} /\ GonePanes(G, e) = {}
  <2>1. GoneTabs(G, e) = {t \in DOMAIN G.tabs : G.tabs[t] = e.ws}
        /\ GonePanes(G, e) = {p \in DOMAIN G.panes : G.panes[p].ws = e.ws}
    BY KindsOfChange
  <2>2. \A t \in DOMAIN G.tabs : G.tabs[t] # e.ws
    BY DEF Inside, SnapTabs
  <2>3. \A p \in DOMAIN G.panes : G.panes[p].ws # e.ws
    BY DEF Inside
  <2> QED
    BY <2>1, <2>2, <2>3
<1>3. Inside(H, g)
  BY <1>1, <1>2 DEF Inside, SnapTabs
<1> QED
  BY <1>1, <1>3

\* Panes vanish, told by a close and perhaps the close of their workspace.
LEMMA VanishTrack ==
  ASSUME LawInv, Track, NEW P, NEW e1 \in SessionEvents, NEW e2 \in SessionEvents \cup {NoEvent},
         Vanish(P, e1, e2),
         e1.kind \in {KindWorkspaceClosed, KindTabClosed, KindPaneClosed},
         e2 # NoEvent => e2.kind = KindWorkspaceClosed,
         \A H : Ends(H) =>
           \E H1, H2 : /\ H1 = After(H, e1)
                       /\ H2 = IF e2 # NoEvent THEN After(H1, e2) ELSE H1
                       /\ Ends(H2)'
  PROVE  Track'
<1>1. /\ UNCHANGED <<vars, stream, loop, scope, fetched>>
      /\ Push(e1, e2, NoEvent)
  BY DEF Vanish, Changing, lvars
<1>2. /\ Sends(e1) /\ (Sends(e2) <=> e2 # NoEvent) /\ ~Sends(NoEvent)
      /\ \A H : Before(H, e1) /\ (Sends(e2) => Before(H, e2))
  <2>1. Sends(e1)
    BY NoEventKind, KindsDiffer DEF Kinds
  <2>2. Sends(e2) <=> e2 # NoEvent
    BY KindsDiffer DEF Sends
  <2>3. ~Sends(NoEvent)
    BY DEF Sends
  <2>4. \A H : Before(H, e1)
    BY KindsDiffer DEF Before
  <2>5. \A H : e2.kind = KindWorkspaceClosed => Before(H, e2)
    BY KindsDiffer DEF Before
  <2> QED
    BY <2>1, <2>2, <2>3, <2>4, <2>5
<1>3. ASSUME NEW H, Ends(H)
      PROVE  \E H1, H2, H3 :
               /\ H1 = IF Sends(e1) THEN After(H, e1) ELSE H
               /\ H2 = IF Sends(e2) THEN After(H1, e2) ELSE H1
               /\ H3 = IF Sends(NoEvent) THEN After(H2, NoEvent) ELSE H2
               /\ Sends(e1) => Before(H, e1)
               /\ Sends(e2) => Before(H1, e2)
               /\ Sends(NoEvent) => Before(H2, NoEvent)
               /\ Ends(H3)'
  <2>1. PICK H1, H2 : /\ H1 = After(H, e1)
                      /\ H2 = IF e2 # NoEvent THEN After(H1, e2) ELSE H1
                      /\ Ends(H2)'
    BY <1>3
  <2>2. H1 = IF Sends(e1) THEN After(H, e1) ELSE H
    BY <1>2, <2>1
  <2>3. H2 = IF Sends(e2) THEN After(H1, e2) ELSE H1
    BY <1>2, <2>1
  <2> QED
    BY <1>2, <2>1, <2>2, <2>3
<1> QED
  BY <1>1, <1>3, PushTrack

\* A pane closes and leaves others in its tab.
LEMMA ClosePaneTrack ==
  ASSUME LawInv, Track, NEW p \in Panes, ClosePane(p)
  PROVE  Track'
<1> DEFINE left == Less(world, {p})
<1>1. /\ p \in DOMAIN world /\ InTab(world[p].tab) # {p}
      /\ Vanish({p}, Ev(KindPaneClosed, p, world[p].ws, None, None, None), NoEvent)
  BY DEF ClosePane
<1>2. world' = left /\ UNCHANGED used
  BY <1>1 DEF Vanish, Less
<1>3. Consistent(world)
  BY DEF LawInv, SessionLawful
<1>4. PICK pl \in Places : pl[1] = p /\ pl[2] = world[p].ws /\ pl[3] = world[p].tab
  BY <1>1, <1>3, PaneOf
<1> DEFINE ep == Ev(KindPaneClosed, pl[1], pl[2], None, None, None)
<1>5. ep \in SessionEvents /\ ep.kind = KindPaneClosed /\ ep.pane = p
  <2>1. ep \in SessionEvents
    BY EventsOfPlace
  <2> QED
    BY <1>4, <2>1 DEF Ev
<1>6. Vanish({p}, ep, NoEvent)
  BY <1>1, <1>4
<1> HIDE DEF ep
<1>7. DOMAIN left = DOMAIN world \ {p} /\ \A q \in DOMAIN left : left[q] = world[q]
  BY DEF Less
<1>8. PICK q \in DOMAIN left : world[q].tab = world[p].tab /\ world[q].ws = world[p].ws
  <2>1. PICK q \in DOMAIN world : q # p /\ world[q].tab = world[p].tab
    BY <1>1 DEF InTab
  <2> QED
    BY <1>1, <1>3, <1>7, <2>1 DEF Consistent
<1> HIDE DEF left
<1>9. SnapTabs(left) = SnapTabs(world) /\ SnapWorkspaces(left) = SnapWorkspaces(world)
  BY <1>1, <1>7, <1>8 DEF SnapTabs, SnapWorkspaces
<1>10. ASSUME NEW H, Ends(H), NEW H1, H1 = After(H, ep)
       PROVE  Ends(H1)'
  <2>1. Outlines(H, world) /\ H.knownTabs \cup H.knownPanes \subseteq used
    BY <1>10 DEF Ends
  <2>2. GoneTabs(H, ep) = {} /\ GonePanes(H, ep) = {p}
    BY <1>1, <1>5, <2>1, KindsDiffer, KindsOfChange DEF Outlines
  <2>3. SnapTabs(Less(world, {p})) = SnapTabs(world) \ GoneTabs(H, ep)
    BY <1>9, <2>2 DEF left
  <2>4. /\ Inside(H1, left) /\ H1.ws = H.ws
        /\ H1.knownTabs = H.knownTabs /\ H1.knownPanes = H.knownPanes
    <3>1. ep.kind \in {KindWorkspaceClosed, KindTabClosed, KindPaneClosed}
      BY <1>5
    <3>2. GonePanes(H, ep) = {p}
      BY <2>2
    <3>3. /\ Inside(H1, Less(world, {p}))
          /\ H1.ws = IF ep.kind = KindWorkspaceClosed THEN H.ws \ {ep.ws} ELSE H.ws
          /\ H1.knownTabs = H.knownTabs /\ H1.knownPanes = H.knownPanes
      BY <1>10, <2>1, <2>3, <3>1, <3>2, LessInside
    <3> QED
      BY <1>5, <3>3, KindsDiffer DEF left
  <2> QED
    BY <1>2, <1>9, <2>1, <2>4 DEF Ends, Outlines, Inside
<1>11. \A H : Ends(H) =>
         \E H1, H2 : /\ H1 = After(H, ep)
                     /\ H2 = IF NoEvent # NoEvent THEN After(H1, NoEvent) ELSE H1
                     /\ Ends(H2)'
  BY <1>10
<1> QED
  BY <1>5, <1>6, <1>11, VanishTrack

\* A tab closes with its panes, and its workspace if it was the last.
LEMMA CloseTabTrack ==
  ASSUME LawInv, Track, NEW t \in Tabs, CloseTab(t)
  PROVE  Track'
<1> DEFINE P == InTab(t)
           left == Less(world, P)
           w == wsOf(t)
<1>1. Vanish(P, Ev(KindTabClosed, None, w, t, None, None),
             Unless(In(world, w) # P, Ev(KindWorkspaceClosed, None, w, None, None, None)))
  BY DEF CloseTab
<1>2. world' = left /\ UNCHANGED used /\ P # {}
  BY <1>1 DEF Vanish, Less
<1>3. /\ \A q \in P : q \in DOMAIN world /\ world[q].tab = t /\ world[q].ws = w
      /\ \A q \in DOMAIN world : world[q].tab = t => q \in P
      /\ P \subseteq In(world, w) /\ t \in SnapTabs(world) /\ w \in SnapWorkspaces(world)
  BY <1>2, TabOf DEF LawInv, InTab
<1>4. PICK pl \in Places : pl[2] = w /\ pl[3] = t
  BY <1>2, TabOf DEF LawInv
<1> DEFINE et == Ev(KindTabClosed, None, pl[2], pl[3], None, None)
           ew == Ev(KindWorkspaceClosed, None, pl[2], None, None, None)
           e2 == Unless(In(world, w) # P, ew)
<1>5. /\ et \in SessionEvents /\ ew \in SessionEvents
      /\ et.kind = KindTabClosed /\ et.tab = t
      /\ ew.kind = KindWorkspaceClosed /\ ew.ws = w
  <2>1. et \in SessionEvents /\ ew \in SessionEvents
    BY EventsOfPlace
  <2> QED
    BY <1>4, <2>1 DEF Ev
<1>6. Vanish(P, et, e2)
  BY <1>1, <1>4
<1> HIDE DEF et, ew, w, P
<1>7. /\ e2 \in SessionEvents \cup {NoEvent}
      /\ e2 # NoEvent => e2 = ew
      /\ e2 # NoEvent <=> In(world, w) = P
  <2>1. ew # NoEvent
    BY <1>5, NoEventKind DEF Kinds
  <2> QED
    BY <1>5, <2>1 DEF Unless
<1> HIDE DEF e2
<1>8. DOMAIN left = DOMAIN world \ P /\ \A q \in DOMAIN left : left[q] = world[q]
  BY DEF Less
<1> HIDE DEF left
<1>9. SnapTabs(left) = SnapTabs(world) \ {t}
  BY <1>3, <1>8 DEF SnapTabs
<1>10. ASSUME NEW H, Ends(H)
       PROVE  \E H1, H2 : /\ H1 = After(H, et)
                          /\ H2 = IF e2 # NoEvent THEN After(H1, e2) ELSE H1
                          /\ Ends(H2)'
  <2>1. PICK H1 : H1 = After(H, et)
    OBVIOUS
  <2>2. PICK H2 : H2 = IF e2 # NoEvent THEN After(H1, e2) ELSE H1
    OBVIOUS
  <2>3. Outlines(H, world) /\ H.knownTabs \cup H.knownPanes \subseteq used
    BY <1>10 DEF Ends
  <2>4. GoneTabs(H, et) = {t} /\ GonePanes(H, et) = P
    <3>1. /\ GoneTabs(H, et) = DOMAIN H.tabs \cap {t}
          /\ GonePanes(H, et) = {q \in DOMAIN H.panes : H.panes[q].tab = t}
      BY <1>5, KindsOfChange
    <3> QED
      BY <1>3, <2>3, <3>1 DEF Outlines
  <2>5. SnapTabs(Less(world, P)) = SnapTabs(world) \ GoneTabs(H, et)
    BY <1>9, <2>4 DEF left
  <2>6. /\ Inside(H1, left) /\ H1.ws = SnapWorkspaces(world)
        /\ H1.knownTabs = H.knownTabs /\ H1.knownPanes = H.knownPanes
    <3>1. /\ Inside(H1, left) /\ H1.ws = H.ws
          /\ H1.knownTabs = H.knownTabs /\ H1.knownPanes = H.knownPanes
      <4>1. et.kind \in {KindWorkspaceClosed, KindTabClosed, KindPaneClosed}
        BY <1>5
      <4>2. /\ Inside(H1, Less(world, P))
            /\ H1.ws = IF et.kind = KindWorkspaceClosed THEN H.ws \ {et.ws} ELSE H.ws
            /\ H1.knownTabs = H.knownTabs /\ H1.knownPanes = H.knownPanes
        <5>1. GonePanes(H, et) = P
          BY <2>4
        <5> QED
          BY <2>1, <2>3, <2>5, <4>1, <5>1, LessInside
      <4> QED
        BY <1>5, <4>2, KindsDiffer DEF left
    <3> QED
      BY <2>3, <3>1 DEF Outlines
  <2>7. /\ Inside(H2, left) /\ H2.ws = SnapWorkspaces(left)
        /\ H2.knownTabs = H.knownTabs /\ H2.knownPanes = H.knownPanes
    <3>1. CASE In(world, w) = P
      <4>1. H2 = After(H1, ew)
        BY <1>7, <2>2, <3>1
      <4>2. \A q \in DOMAIN left : left[q].ws # ew.ws
        BY <1>5, <1>8, <3>1 DEF In
      <4>3. Inside(H2, left) /\ H2.ws = H1.ws \ {ew.ws}
            /\ H2.knownTabs = H1.knownTabs /\ H2.knownPanes = H1.knownPanes
        BY <1>5, <2>6, <4>1, <4>2, EmptyWorkspaceClosed
      <4>4. SnapWorkspaces(left) = SnapWorkspaces(world) \ {w}
        BY <1>3, <1>5, <1>8, <4>2 DEF SnapWorkspaces
      <4> QED
        BY <1>5, <2>6, <4>3, <4>4
    <3>2. CASE In(world, w) # P
      <4>1. H2 = H1
        BY <1>7, <2>2, <3>2
      <4>2. PICK q \in DOMAIN left : left[q].ws = w
        BY <1>3, <1>8, <3>2 DEF In
      <4>3. SnapWorkspaces(left) = SnapWorkspaces(world)
        BY <1>3, <1>8, <4>2 DEF SnapWorkspaces
      <4> QED
        BY <2>6, <4>1, <4>3
    <3> QED
      BY <3>1, <3>2
  <2>8. Ends(H2)'
    BY <1>2, <2>3, <2>7 DEF Ends, Outlines, Inside
  <2> QED
    BY <2>1, <2>2, <2>8
<1> QED
  BY <1>5, <1>6, <1>7, <1>10, VanishTrack

\* A workspace closes with all it holds.
LEMMA CloseWorkspaceTrack ==
  ASSUME LawInv, Track, NEW w \in Workspaces, CloseWorkspace(w)
  PROVE  Track'
<1> DEFINE P == In(world, w)
           left == Less(world, P)
<1>1. Vanish(P, Ev(KindWorkspaceClosed, None, w, None, None, None), NoEvent)
  BY DEF CloseWorkspace
<1>2. world' = left /\ UNCHANGED used /\ P # {}
  BY <1>1 DEF Vanish, Less
<1>3. PICK pl \in Places : pl[2] = w
  <2>1. PICK q \in DOMAIN world : world[q].ws = w
    BY <1>2 DEF In
  <2> QED
    BY <2>1, PaneOf DEF LawInv, SessionLawful
<1> DEFINE ew == Ev(KindWorkspaceClosed, None, pl[2], None, None, None)
<1>4. ew \in SessionEvents /\ ew.kind = KindWorkspaceClosed /\ ew.ws = w
  <2>1. ew \in SessionEvents
    BY EventsOfPlace
  <2> QED
    BY <1>3, <2>1 DEF Ev
<1>5. Vanish(P, ew, NoEvent)
  BY <1>1, <1>3
<1> HIDE DEF ew
<1>6. /\ \A q \in DOMAIN world : q \in P <=> world[q].ws = w
      /\ P \subseteq DOMAIN world
  BY DEF In
<1>7. DOMAIN left = DOMAIN world \ P /\ \A q \in DOMAIN left : left[q] = world[q]
  BY DEF Less
<1> HIDE DEF P, left
<1>8. SnapWorkspaces(left) = SnapWorkspaces(world) \ {w}
  BY <1>6, <1>7 DEF SnapWorkspaces
<1>9. ASSUME NEW H, Ends(H), NEW H1, H1 = After(H, ew)
      PROVE  Ends(H1)'
  <2>1. Outlines(H, world) /\ H.knownTabs \cup H.knownPanes \subseteq used
    BY <1>9 DEF Ends
  <2>2. /\ GoneTabs(H, ew) = {t \in DOMAIN H.tabs : H.tabs[t] = w}
        /\ GonePanes(H, ew) = {q \in DOMAIN H.panes : H.panes[q].ws = w}
    BY <1>4, KindsOfChange
  <2>3. GonePanes(H, ew) = P
    BY <1>6, <2>1, <2>2 DEF Outlines
  <2>4. SnapTabs(left) = SnapTabs(world) \ GoneTabs(H, ew)
    BY <1>6, <1>7, <2>1, <2>2 DEF Outlines, SnapTabs
  <2>5. /\ Inside(H1, left) /\ H1.ws = H.ws \ {w}
        /\ H1.knownTabs = H.knownTabs /\ H1.knownPanes = H.knownPanes
    <3>1. ew.kind \in {KindWorkspaceClosed, KindTabClosed, KindPaneClosed}
      BY <1>4
    <3>2. SnapTabs(Less(world, P)) = SnapTabs(world) \ GoneTabs(H, ew)
      BY <2>4 DEF left
    <3>3. /\ Inside(H1, Less(world, P))
          /\ H1.ws = IF ew.kind = KindWorkspaceClosed THEN H.ws \ {ew.ws} ELSE H.ws
          /\ H1.knownTabs = H.knownTabs /\ H1.knownPanes = H.knownPanes
      BY <1>9, <2>1, <2>3, <3>1, <3>2, LessInside
    <3> QED
      BY <1>4, <3>3 DEF left
  <2> QED
    BY <1>2, <1>8, <2>1, <2>5 DEF Ends, Outlines, Inside
<1>10. \A H : Ends(H) =>
         \E H1, H2 : /\ H1 = After(H, ew)
                     /\ H2 = IF NoEvent # NoEvent THEN After(H1, NoEvent) ELSE H1
                     /\ Ends(H2)'
  BY <1>9
<1> QED
  BY <1>4, <1>5, <1>10, VanishTrack

\* Events that leave the outline, at a session whose outline is as it was.
LEMMA SameEnds ==
  ASSUME NEW H, Ends(H), DOMAIN world' = DOMAIN world, UNCHANGED used,
         \A q \in DOMAIN world : world'[q].ws = world[q].ws /\ world'[q].tab = world[q].tab
  PROVE  Ends(H)'
<1>1. SnapTabs(world') = SnapTabs(world) /\ SnapWorkspaces(world') = SnapWorkspaces(world)
  BY DEF SnapTabs, SnapWorkspaces
<1> QED
  BY <1>1 DEF Ends, Outlines

LEMMA SameOutline ==
  ASSUME NEW H, NEW f, Outlines(H, f),
         NEW e, e.kind \in {KindTabRenamed, KindAgentDetected, KindAgentStatusChanged},
         NEW H1, H1 = After(H, e)
  PROVE  Outlines(H1, f) /\ H1.knownTabs = H.knownTabs /\ H1.knownPanes = H.knownPanes
<1>1. /\ H1.ws = H.ws
      /\ DOMAIN H1.tabs = DOMAIN H.tabs /\ \A t \in DOMAIN H.tabs : H1.tabs[t] = H.tabs[t]
      /\ DOMAIN H1.panes = DOMAIN H.panes /\ \A p \in DOMAIN H.panes : H1.panes[p] = H.panes[p]
      /\ H1.knownTabs = H.knownTabs /\ H1.knownPanes = H.knownPanes
  BY AfterSame
<1> QED
  BY <1>1 DEF Outlines, SnapTabs

LEMMA SeenTrack ==
  ASSUME LawInv, Track, NEW p \in Panes, Seen(p)
  PROVE  Track'
<1>1. UNCHANGED <<events, gap>>
  BY NoEventRead DEF Seen, Receive, Unread
<1>2. /\ p \in DOMAIN world /\ UNCHANGED used
      /\ world' = [world EXCEPT ![p].status = "idle"]
      /\ UNCHANGED <<vars, stream, loop, scope, fetched>>
  BY DEF Seen, Changing, lvars
<1>3. "idle" \in Reported /\ world[p].agent \in Agents \cup {None} /\ SessionLawful
  BY <1>2, PaneOf, StatesAssumption DEF LawInv, SessionLawful
<1>4. /\ DOMAIN world' = DOMAIN world
      /\ \A q \in DOMAIN world : world'[q].ws = world[q].ws /\ world'[q].tab = world[q].tab
  BY <1>2, <1>3, WorldChanges
<1>5. ASSUME NEW H, Ends(H) PROVE Ends(H)'
  BY <1>2, <1>4, <1>5, SameEnds
<1>6. Following' => Following
  BY <1>1, <1>2 DEF Following
<1>7. \A G : Starts(G) => Starts(G)'
  BY <1>2 DEF Starts, Tracks, Fetched, Outlines, SnapTabs, SnapWorkspaces, Live, vars
<1>8. \A G, H : Leads(events, G, H) => Leads(events, G, H)'
  BY <1>1 DEF Leads
<1>9. AgentsFollow => AgentsFollow'
  BY <1>2 DEF AgentsFollow, Live, Closed, vars
<1> QED
  BY <1>2, <1>5, <1>6, <1>7, <1>8, <1>9 DEF Track

LEMMA AgentChangesTrack ==
  ASSUME LawInv, Track, NEW p \in Panes, NEW a \in Agents, NEW s \in AgentStates,
         AgentChanges(p, a, s)
  PROVE  Track'
<1>1. /\ p \in DOMAIN world /\ UNCHANGED used
      /\ world' = [world EXCEPT ![p].agent = a, ![p].status = s]
      /\ UNCHANGED <<vars, stream, loop, scope, fetched>>
      /\ Push(Unless(world[p].agent # None,
                     Ev(KindAgentDetected, p, world[p].ws, None, a, None)),
              Ev(KindAgentStatusChanged, p, world[p].ws, None, a, s), NoEvent)
  BY DEF AgentChanges, Changing, lvars
<1>2. SessionLawful /\ Consistent(world) /\ s \in Reported
  BY StatesAssumption DEF LawInv, SessionLawful
<1>3. /\ DOMAIN world' = DOMAIN world
      /\ \A q \in DOMAIN world : world'[q].ws = world[q].ws /\ world'[q].tab = world[q].tab
  BY <1>1, <1>2, WorldChanges
<1>4. PICK pl \in Places : pl[1] = p /\ pl[2] = world[p].ws /\ pl[3] = world[p].tab
  BY <1>1, <1>2, PaneOf
<1> DEFINE ed == Ev(KindAgentDetected, pl[1], pl[2], None, a, None)
           es == Ev(KindAgentStatusChanged, pl[1], pl[2], None, a, s)
           e1 == Unless(world[p].agent # None, ed)
<1>5. Push(e1, es, NoEvent)
  BY <1>1, <1>4
<1>6. /\ ed \in SessionEvents /\ es \in SessionEvents
      /\ ed.kind = KindAgentDetected /\ ed.pane = p /\ ed.ws = world[p].ws
      /\ es.kind = KindAgentStatusChanged /\ es.pane = p /\ es.ws = world[p].ws
  <2>1. ed \in SessionEvents /\ es \in SessionEvents
    BY <1>2, EventsOfPlace
  <2> QED
    BY <1>4, <2>1 DEF Ev
<1> HIDE DEF ed, es
<1>7. e1 \in SessionEvents \cup {NoEvent} /\ (Sends(e1) => e1 = ed) /\ ~Sends(NoEvent)
  BY <1>6 DEF Unless, Sends
<1> HIDE DEF e1
<1>8. ASSUME NEW H, Ends(H)
      PROVE  \E H1, H2, H3 :
               /\ H1 = IF Sends(e1) THEN After(H, e1) ELSE H
               /\ H2 = IF Sends(es) THEN After(H1, es) ELSE H1
               /\ H3 = IF Sends(NoEvent) THEN After(H2, NoEvent) ELSE H2
               /\ Sends(e1) => Before(H, e1)
               /\ Sends(es) => Before(H1, es)
               /\ Sends(NoEvent) => Before(H2, NoEvent)
               /\ Ends(H3)'
  <2>1. PICK H1 : H1 = IF Sends(e1) THEN After(H, e1) ELSE H
    OBVIOUS
  <2>2. PICK H2 : H2 = IF Sends(es) THEN After(H1, es) ELSE H1
    OBVIOUS
  <2>3. Outlines(H, world) /\ H.knownTabs \cup H.knownPanes \subseteq used
    BY <1>8 DEF Ends
  <2>4. Outlines(H1, world) /\ H1.knownTabs = H.knownTabs /\ H1.knownPanes = H.knownPanes
    BY <1>6, <1>7, <2>1, <2>3, SameOutline
  <2>5. Outlines(H2, world) /\ H2.knownTabs = H.knownTabs /\ H2.knownPanes = H.knownPanes
    BY <1>6, <2>2, <2>4, SameOutline
  <2>6. Ends(H2)
    BY <2>3, <2>5 DEF Ends
  <2>7. Ends(H2)'
    BY <1>1, <1>3, <2>6, SameEnds
  <2>8. Sends(e1) => Before(H, e1)
    BY <1>1, <1>6, <1>7, <2>3, KindsDiffer DEF Before, Outlines
  <2>9. Before(H1, es)
    BY <1>1, <1>6, <2>4, KindsDiffer DEF Before, Outlines
  <2> QED
    BY <1>7, <2>1, <2>2, <2>7, <2>8, <2>9
<1> QED
  BY <1>1, <1>5, <1>6, <1>7, <1>8, PushTrack

LEMMA RenameTabTrack ==
  ASSUME LawInv, Track, NEW t \in Tabs, RenameTab(t)
  PROVE  Track'
<1>1. /\ t \in SnapTabs(world) /\ UNCHANGED <<used, world>>
      /\ UNCHANGED <<vars, stream, loop, scope, fetched>>
      /\ Push(Ev(KindTabRenamed, None, wsOf(t), t, None, None), NoEvent, NoEvent)
  BY DEF RenameTab, Changing, lvars
<1>2. Consistent(world)
  BY DEF LawInv, SessionLawful
<1>3. \E p \in DOMAIN world : world[p].tab = t
  BY <1>1 DEF SnapTabs
<1>4. PICK p \in DOMAIN world : world[p].tab = t /\ wsOf(t) = world[p].ws
  BY <1>3 DEF wsOf
<1>5. PICK pl \in Places : pl[1] = p /\ pl[2] = world[p].ws /\ pl[3] = world[p].tab
  BY <1>2, <1>4, PaneOf
<1> DEFINE e1 == Ev(KindTabRenamed, None, pl[2], pl[3], None, None)
<1>6. Push(e1, NoEvent, NoEvent)
  BY <1>1, <1>4, <1>5
<1>7. /\ e1 \in SessionEvents /\ e1.kind = KindTabRenamed
      /\ e1.ws = world[p].ws /\ e1.tab = world[p].tab
  <2>1. e1 \in SessionEvents
    BY EventsOfPlace
  <2> QED
    BY <1>5, <2>1 DEF Ev
<1> HIDE DEF e1
<1>8. ~Sends(NoEvent) /\ Sends(e1)
  BY <1>7, NoEventKind, KindsDiffer DEF Sends, Kinds
<1>9. ASSUME NEW H, Ends(H)
      PROVE  \E H1, H2, H3 :
               /\ H1 = IF Sends(e1) THEN After(H, e1) ELSE H
               /\ H2 = IF Sends(NoEvent) THEN After(H1, NoEvent) ELSE H1
               /\ H3 = IF Sends(NoEvent) THEN After(H2, NoEvent) ELSE H2
               /\ Sends(e1) => Before(H, e1)
               /\ Sends(NoEvent) => Before(H1, NoEvent)
               /\ Sends(NoEvent) => Before(H2, NoEvent)
               /\ Ends(H3)'
  <2>1. PICK H1 : H1 = After(H, e1)
    OBVIOUS
  <2>2. Outlines(H, world) /\ H.knownTabs \cup H.knownPanes \subseteq used
    BY <1>9 DEF Ends
  <2>3. Outlines(H1, world) /\ H1.knownTabs = H.knownTabs /\ H1.knownPanes = H.knownPanes
    BY <1>7, <2>1, <2>2, SameOutline
  <2>4. Ends(H1)
    BY <2>2, <2>3 DEF Ends
  <2>5. Ends(H1)'
    BY <1>1, <2>4 DEF Ends, Outlines, SnapTabs, SnapWorkspaces
  <2>6. Before(H, e1)
    BY <1>7, <2>2, KindsDiffer DEF Before, Outlines, SnapTabs
  <2> QED
    BY <1>8, <2>1, <2>5, <2>6
<1> QED
  BY <1>1, <1>6, <1>7, <1>9, PushTrack

\* Whatever Herdr does.
LEMMA HerdrTrack == LawInv /\ Track /\ Herdr => Track'
<1> SUFFICES ASSUME LawInv, Track, Herdr PROVE Track'
  OBVIOUS
<1>1. CASE \E i \in 1..EventCap : Disturb(i)
  BY <1>1 DEF Disturb, Track, Following
<1>2. CASE Break
  <2>1. stream' = "broken" /\ UNCHANGED loop /\ stream # "none"
    BY <1>2 DEF Break, lvars
  <2>2. ~Following'
    BY <2>1 DEF LawInv, Following
  <2> QED
    BY <2>2 DEF Track
<1>3. CASE Register
  <2>1. UNCHANGED <<vars, world, used, events, gap, loop, fetched>> /\ stream = "sent"
    BY <1>3, NoEventRead DEF Register, Receive, Unread, hvars, lvars
  <2>2. Following' => Following
    BY <2>1 DEF Following
  <2>3. \A G : Starts(G) => Starts(G)'
    BY <2>1 DEF Starts, Tracks, Fetched, Outlines, SnapTabs, SnapWorkspaces, Live, vars
  <2>4. \A G, H : Leads(events, G, H) => Leads(events, G, H)'
    BY <2>1 DEF Leads
  <2>5. \A H : Ends(H) => Ends(H)'
    BY <2>1 DEF Ends, Outlines, SnapTabs, SnapWorkspaces
  <2>6. AgentsFollow => AgentsFollow'
    BY <2>1 DEF AgentsFollow, Live, Closed, vars
  <2> QED
    BY <2>1, <2>2, <2>3, <2>4, <2>5, <2>6 DEF Track
<1> QED
  BY <1>1, <1>2, <1>3, OpenPaneTrack, ClosePaneTrack, CloseTabTrack, CloseWorkspaceTrack,
     SeenTrack, AgentChangesTrack, RenameTabTrack DEF Herdr


-----------------------------------------------------------------------------
(* The track, as the loop handles the events.                              *)

\* What a cascade leaves live, when it reaches an agent and its pane together.
LEMMA CascadeLeaves ==
  ASSUME WellFormed, AgentsFollow, NEW T, NEW P, NEW A, CloseAll(T, P, A),
         A \cap Live(agents) = P \cap Live(agents)
  PROVE  /\ AgentsFollow'
         /\ DOMAIN tabs' = DOMAIN tabs /\ Live(tabs') = Live(tabs) \ T
         /\ \A t \in Live(tabs) \ T : tabs'[t] = tabs[t]
         /\ DOMAIN panes' = DOMAIN panes /\ Live(panes') = Live(panes) \ P
         /\ \A p \in Live(panes) \ P : panes'[p] = panes[p]
         /\ DOMAIN agents' = DOMAIN agents
<1>1. now # Zero
  BY DEF WellFormed, Zero
<1>2. ASSUME NEW t \in DOMAIN tabs
      PROVE  IF t \in T \cap Live(tabs) THEN tabs'[t].closedAt # Zero ELSE tabs'[t] = tabs[t]
  <2>1. tabs[t] \in TabRecord
    BY DEF WellFormed
  <2>2. tabs'[t] = IF t \in T \cap Live(tabs) THEN [tabs[t] EXCEPT !.closedAt = now] ELSE tabs[t]
    BY DEF CloseAll, Close
  <2> QED
    BY <1>1, <2>1, <2>2 DEF TabRecord
<1>3. ASSUME NEW p \in DOMAIN panes
      PROVE  IF p \in P \cap Live(panes) THEN panes'[p].closedAt # Zero ELSE panes'[p] = panes[p]
  <2>1. panes[p] \in PaneRecord
    BY DEF WellFormed
  <2>2. panes'[p] = IF p \in P \cap Live(panes) THEN [panes[p] EXCEPT !.closedAt = now] ELSE panes[p]
    BY DEF CloseAll, Close
  <2> QED
    BY <1>1, <2>1, <2>2 DEF PaneRecord
<1>4. ASSUME NEW p \in DOMAIN agents
      PROVE  IF p \in A \cap Live(agents) THEN agents'[p].closedAt # Zero ELSE agents'[p] = agents[p]
  <2>1. agents[p] \in AgentRecord
    BY DEF WellFormed
  <2>2. agents'[p] = IF p \in A \cap Live(agents)
                       THEN [agents[p] EXCEPT !.ledger = FALSE, !.closedAt = now] ELSE agents[p]
    BY DEF CloseAll
  <2> QED
    BY <1>1, <2>1, <2>2 DEF AgentRecord
<1>5. DOMAIN tabs' = DOMAIN tabs /\ DOMAIN panes' = DOMAIN panes /\ DOMAIN agents' = DOMAIN agents
  BY DEF CloseAll, Close
<1>6. Live(tabs') = Live(tabs) \ T /\ \A t \in Live(tabs) \ T : tabs'[t] = tabs[t]
  BY <1>2, <1>5 DEF Live
<1>7. Live(panes') = Live(panes) \ P /\ \A p \in Live(panes) \ P : panes'[p] = panes[p]
  BY <1>3, <1>5 DEF Live
<1>8. Live(agents') = Live(agents) \ A /\ \A p \in Live(agents) \ A : agents'[p] = agents[p]
  BY <1>4, <1>5 DEF Live
<1>9. Live(agents') = Live(agents) \ P
  BY <1>8
<1>10. Closed(agents') \cap Live(panes') = {}
  BY <1>5, <1>7, <1>9 DEF Closed, AgentsFollow
<1>11. \A p \in Live(agents') : agents'[p].ws = panes'[p].ws /\ agents'[p].status = panes'[p].status
  BY <1>7, <1>8, <1>9 DEF AgentsFollow
<1>12. Live(agents') \subseteq Live(panes')
  BY <1>7, <1>9 DEF AgentsFollow
<1> QED
  BY <1>5, <1>6, <1>7, <1>10, <1>11, <1>12 DEF AgentsFollow, Live, Closed

LEMMA CloseTracks ==
  ASSUME WellFormed, NEW G, Tracks(G), AgentsFollow, NEW e,
         e.kind \in {KindWorkspaceClosed, KindTabClosed, KindPaneClosed}, Handle(e),
         NEW H, H = After(G, e)
  PROVE  Tracks(H)' /\ AgentsFollow'
<1>1. PICK T, P, A :
        /\ CloseAll(T, P, A) /\ A \cap Live(agents) = P \cap Live(agents)
        /\ DOMAIN G.tabs \cap T = GoneTabs(G, e) /\ DOMAIN G.panes \cap P = GonePanes(G, e)
        /\ workspaces' = IF e.kind = KindWorkspaceClosed THEN workspaces \ {e.ws} ELSE workspaces
  <2>1. CASE e.kind = KindWorkspaceClosed
    <3>1. ApplyWorkspaceClosed(e.ws)
      BY <2>1, KindsDiffer DEF Handle
    <3>2. /\ CloseAll(In(tabs, e.ws), In(panes, e.ws), In(agents, e.ws))
          /\ workspaces' = workspaces \ {e.ws}
      BY <3>1 DEF ApplyWorkspaceClosed
    <3>3. In(agents, e.ws) \cap Live(agents) = In(panes, e.ws) \cap Live(agents)
      BY DEF In, AgentsFollow, Live
    <3>4. DOMAIN G.tabs \cap In(tabs, e.ws) = GoneTabs(G, e)
      BY <2>1, KindsOfChange DEF In, Tracks, Live
    <3>5. DOMAIN G.panes \cap In(panes, e.ws) = GonePanes(G, e)
      BY <2>1, KindsOfChange DEF In, Tracks, Live
    <3> QED
      BY <2>1, <3>2, <3>3, <3>4, <3>5
  <2>2. CASE e.kind = KindTabClosed
    <3> DEFINE P == {p \in DOMAIN panes : panes[p].tab = e.tab}
    <3>1. ApplyTabClosed(e.tab)
      BY <2>2, KindsDiffer DEF Handle
    <3>2. CloseAll({e.tab}, P, P) /\ UNCHANGED workspaces
      BY <3>1 DEF ApplyTabClosed
    <3>3. DOMAIN G.tabs \cap {e.tab} = GoneTabs(G, e)
      BY <2>2, KindsOfChange
    <3>4. DOMAIN G.panes \cap P = GonePanes(G, e)
      BY <2>2, KindsOfChange DEF Tracks, Live
    <3> HIDE DEF P
    <3> QED
      BY <2>2, <3>2, <3>3, <3>4, KindsDiffer
  <2>3. CASE e.kind = KindPaneClosed
    <3>1. ApplyPaneClosed(e.pane)
      BY <2>3, KindsDiffer DEF Handle
    <3>2. CloseAll({}, {e.pane}, {e.pane}) /\ UNCHANGED workspaces
      BY <3>1 DEF ApplyPaneClosed
    <3>3. GoneTabs(G, e) = {} /\ GonePanes(G, e) = DOMAIN G.panes \cap {e.pane}
      BY <2>3, KindsOfChange, KindsDiffer
    <3> QED
      BY <2>3, <3>2, <3>3, KindsDiffer
  <2> QED
    BY <2>1, <2>2, <2>3
<1>2. /\ AgentsFollow'
      /\ DOMAIN tabs' = DOMAIN tabs /\ Live(tabs') = Live(tabs) \ T
      /\ \A t \in Live(tabs) \ T : tabs'[t] = tabs[t]
      /\ DOMAIN panes' = DOMAIN panes /\ Live(panes') = Live(panes) \ P
      /\ \A p \in Live(panes) \ P : panes'[p] = panes[p]
      /\ DOMAIN agents' = DOMAIN agents
  BY <1>1, CascadeLeaves
<1>3. /\ H.ws = IF e.kind = KindWorkspaceClosed THEN G.ws \ {e.ws} ELSE G.ws
      /\ DOMAIN H.tabs = DOMAIN G.tabs \ GoneTabs(G, e)
      /\ \A t \in DOMAIN H.tabs : H.tabs[t] = G.tabs[t]
      /\ DOMAIN H.panes = DOMAIN G.panes \ GonePanes(G, e)
      /\ \A p \in DOMAIN H.panes : H.panes[p] = G.panes[p]
      /\ H.knownTabs = G.knownTabs /\ H.knownPanes = G.knownPanes
  <2>1. NewTabs(e) = {} /\ NewPanes(e) = {} /\ e.kind # KindWorkspaceCreated
    BY KindsDiffer DEF NewTabs, NewPanes
  <2> QED
    BY <2>1 DEF After
<1>4. /\ G.ws = workspaces
      /\ DOMAIN G.tabs = Live(tabs) /\ \A t \in Live(tabs) : G.tabs[t] = tabs[t].ws
      /\ DOMAIN G.panes = Live(panes)
      /\ \A p \in Live(panes) : G.panes[p].ws = panes[p].ws /\ G.panes[p].tab = panes[p].tab
      /\ DOMAIN tabs \subseteq G.knownTabs /\ DOMAIN panes \cup DOMAIN agents \subseteq G.knownPanes
  BY DEF Tracks
<1>5. H.ws = workspaces'
  BY <1>1, <1>3, <1>4
<1>6. DOMAIN H.tabs = Live(tabs') /\ \A t \in Live(tabs') : H.tabs[t] = tabs'[t].ws
  BY <1>1, <1>2, <1>3, <1>4
<1>7. DOMAIN H.panes = Live(panes')
      /\ \A p \in Live(panes') : H.panes[p].ws = panes'[p].ws /\ H.panes[p].tab = panes'[p].tab
  BY <1>1, <1>2, <1>3, <1>4
<1> QED
  BY <1>2, <1>3, <1>4, <1>5, <1>6, <1>7 DEF Tracks, Live


\* What is created, and a tab's name.
LEMMA CreatedTracks ==
  ASSUME WellFormed, NEW G, Tracks(G), AgentsFollow, NEW e, Before(G, e),
         e.kind \in {KindWorkspaceCreated, KindTabCreated, KindTabRenamed, KindPaneCreated},
         Handle(e), NEW H, H = After(G, e)
  PROVE  Tracks(H)' /\ AgentsFollow'
<1>1. /\ G.ws = workspaces
      /\ DOMAIN G.tabs = Live(tabs) /\ \A t \in Live(tabs) : G.tabs[t] = tabs[t].ws
      /\ DOMAIN G.panes = Live(panes)
      /\ \A p \in Live(panes) : G.panes[p].ws = panes[p].ws /\ G.panes[p].tab = panes[p].tab
      /\ DOMAIN tabs \subseteq G.knownTabs /\ DOMAIN panes \cup DOMAIN agents \subseteq G.knownPanes
  BY DEF Tracks
<1>2. CASE e.kind = KindWorkspaceCreated
  <2>1. workspaces' = workspaces \cup {e.ws} /\ UNCHANGED <<tabs, panes, agents>>
    BY <1>2, KindsDiffer DEF Handle, ApplyWorkspaceCreated
  <2>2. /\ H.ws = G.ws \cup {e.ws}
        /\ DOMAIN H.tabs = DOMAIN G.tabs /\ \A t \in DOMAIN G.tabs : H.tabs[t] = G.tabs[t]
        /\ DOMAIN H.panes = DOMAIN G.panes /\ \A p \in DOMAIN G.panes : H.panes[p] = G.panes[p]
        /\ H.knownTabs = G.knownTabs /\ H.knownPanes = G.knownPanes
    BY <1>2, AfterWorkspaceCreated
  <2> QED
    BY <1>1, <2>1, <2>2 DEF Tracks, AgentsFollow, Live, Closed
<1>3. CASE e.kind = KindTabCreated
  <2> DEFINE r == [At(tabs, e.tab, NewTab) EXCEPT !.ws = e.ws]
  <2>1. tabs' = Put(tabs, e.tab, r) /\ UNCHANGED <<workspaces, panes, agents>>
    BY <1>3, KindsDiffer DEF Handle, ApplyTabCreated
  <2>2. e.tab \notin DOMAIN tabs
    BY <1>1, <1>3 DEF Before
  <2>3. r.ws = e.ws /\ r.closedAt = Zero
    BY <2>2 DEF At, NewTab
  <2> HIDE DEF r
  <2>4. /\ DOMAIN tabs' = DOMAIN tabs \cup {e.tab}
        /\ \A t \in DOMAIN tabs' : tabs'[t] = IF t = e.tab THEN r ELSE tabs[t]
    BY <2>1 DEF Put
  <2>5. Live(tabs') = Live(tabs) \cup {e.tab}
    BY <2>2, <2>3, <2>4 DEF Live
  <2>6. /\ H.ws = G.ws
        /\ DOMAIN H.tabs = DOMAIN G.tabs \cup {e.tab}
        /\ \A t \in DOMAIN H.tabs : H.tabs[t] = IF t = e.tab THEN e.ws ELSE G.tabs[t]
        /\ DOMAIN H.panes = DOMAIN G.panes /\ \A p \in DOMAIN G.panes : H.panes[p] = G.panes[p]
        /\ H.knownTabs = G.knownTabs \cup {e.tab} /\ H.knownPanes = G.knownPanes
    BY <1>3, AfterTabCreated
  <2>7. \A t \in Live(tabs') : H.tabs[t] = tabs'[t].ws
    BY <1>1, <2>3, <2>4, <2>5, <2>6 DEF Live
  <2> QED
    BY <1>1, <2>1, <2>4, <2>5, <2>6, <2>7 DEF Tracks, AgentsFollow, Live, Closed
<1>4. CASE e.kind = KindTabRenamed
  <2> DEFINE r == [At(tabs, e.tab, NewTab) EXCEPT !.ws = IF e.ws = None THEN @ ELSE e.ws]
  <2>1. tabs' = Put(tabs, e.tab, r) /\ UNCHANGED <<workspaces, panes, agents>>
    BY <1>4, KindsDiffer DEF Handle, ApplyTabRenamed
  <2>2. e.tab \in Live(tabs) /\ e.tab \in DOMAIN tabs /\ tabs[e.tab].ws = e.ws
    BY <1>1, <1>4 DEF Before, Live
  <2>3. tabs[e.tab] \in TabRecord
    BY <2>2 DEF WellFormed
  <2>4. r.ws = tabs[e.tab].ws /\ r.closedAt = tabs[e.tab].closedAt
    BY <2>2, <2>3 DEF At, TabRecord
  <2> HIDE DEF r
  <2>5. /\ DOMAIN tabs' = DOMAIN tabs
        /\ \A t \in DOMAIN tabs : /\ tabs'[t].ws = tabs[t].ws
                                  /\ tabs'[t].closedAt = tabs[t].closedAt
    BY <2>1, <2>2, <2>4 DEF Put
  <2>6. /\ H.ws = G.ws
        /\ DOMAIN H.tabs = DOMAIN G.tabs /\ \A t \in DOMAIN G.tabs : H.tabs[t] = G.tabs[t]
        /\ DOMAIN H.panes = DOMAIN G.panes /\ \A p \in DOMAIN G.panes : H.panes[p] = G.panes[p]
        /\ H.knownTabs = G.knownTabs /\ H.knownPanes = G.knownPanes
    BY <1>4, AfterSame
  <2> QED
    BY <1>1, <2>1, <2>5, <2>6 DEF Tracks, AgentsFollow, Live, Closed
<1>5. CASE e.kind = KindPaneCreated
  <2> DEFINE r == [NewPane EXCEPT !.ws = e.ws, !.tab = e.tab]
             y == [At(tabs, e.tab, NewTab) EXCEPT !.ws = e.ws]
  <2>1. /\ e.pane \notin DOMAIN panes /\ e.pane \notin DOMAIN agents
        /\ e.tab \in DOMAIN tabs /\ e.tab \in Live(tabs) /\ tabs[e.tab].ws = e.ws
    BY <1>1, <1>5 DEF Before, Live
  <2>2. e.pane \notin Closed(panes)
    BY <2>1 DEF Closed
  <2>3. /\ panes' = Put(panes, e.pane, r) /\ UNCHANGED <<workspaces, agents>>
        /\ UNCHANGED tabs \/ tabs' = Put(tabs, e.tab, y)
    BY <1>5, <2>2, KindsDiffer DEF Handle, ApplyPaneCreated
  <2>4. r.ws = e.ws /\ r.tab = e.tab /\ r.closedAt = Zero
    BY DEF NewPane
  <2>5. tabs[e.tab] \in TabRecord
    BY <2>1 DEF WellFormed
  <2>6. y.ws = tabs[e.tab].ws /\ y.closedAt = tabs[e.tab].closedAt
    BY <2>1, <2>5 DEF At, TabRecord
  <2> HIDE DEF r, y
  <2>7. /\ DOMAIN tabs' = DOMAIN tabs
        /\ \A t \in DOMAIN tabs : /\ tabs'[t].ws = tabs[t].ws
                                  /\ tabs'[t].closedAt = tabs[t].closedAt
    BY <2>1, <2>3, <2>6 DEF Put
  <2>8. /\ DOMAIN panes' = DOMAIN panes \cup {e.pane}
        /\ \A q \in DOMAIN panes' : panes'[q] = IF q = e.pane THEN r ELSE panes[q]
    BY <2>3 DEF Put
  <2>9. Live(panes') = Live(panes) \cup {e.pane} /\ Live(tabs') = Live(tabs)
    BY <2>1, <2>4, <2>7, <2>8 DEF Live
  <2>10. /\ H.ws = G.ws
         /\ DOMAIN H.tabs = DOMAIN G.tabs /\ \A t \in DOMAIN G.tabs : H.tabs[t] = G.tabs[t]
         /\ DOMAIN H.panes = DOMAIN G.panes \cup {e.pane}
         /\ \A p \in DOMAIN H.panes :
              H.panes[p] = IF p = e.pane THEN [ws |-> e.ws, tab |-> e.tab] ELSE G.panes[p]
         /\ H.knownTabs = G.knownTabs /\ H.knownPanes = G.knownPanes \cup {e.pane}
    BY <1>5, AfterPaneCreated
  <2>11. \A p \in Live(panes') : H.panes[p].ws = panes'[p].ws /\ H.panes[p].tab = panes'[p].tab
    BY <1>1, <2>4, <2>8, <2>9, <2>10 DEF Live
  <2>12. \A t \in Live(tabs') : H.tabs[t] = tabs'[t].ws
    BY <1>1, <2>7, <2>9, <2>10 DEF Live
  <2>13. Tracks(H)'
    BY <1>1, <2>3, <2>7, <2>8, <2>9, <2>10, <2>11, <2>12 DEF Tracks, Live
  <2>14. AgentsFollow'
    BY <2>1, <2>3, <2>8, <2>9 DEF AgentsFollow, Live, Closed
  <2> QED
    BY <2>13, <2>14
<1> QED
  BY <1>2, <1>3, <1>4, <1>5

\* What an upsert leaves of a live pane.
LEMMA UpsertTracks ==
  ASSUME NEW G, Tracks(G), NEW p \in Live(panes), NEW r, panes' = Put(panes, p, r),
         r.ws = panes[p].ws, r.tab = panes[p].tab, r.closedAt = Zero,
         UNCHANGED <<workspaces, tabs>>, DOMAIN agents' \subseteq DOMAIN agents \cup {p},
         NEW e, e.kind \in {KindAgentDetected, KindAgentStatusChanged},
         NEW H, H = After(G, e)
  PROVE  /\ Tracks(H)' /\ DOMAIN panes' = DOMAIN panes /\ Live(panes') = Live(panes)
         /\ panes'[p] = r /\ \A q \in DOMAIN panes : q # p => panes'[q] = panes[q]
<1>1. /\ G.ws = workspaces
      /\ DOMAIN G.tabs = Live(tabs) /\ \A t \in Live(tabs) : G.tabs[t] = tabs[t].ws
      /\ DOMAIN G.panes = Live(panes)
      /\ \A q \in Live(panes) : G.panes[q].ws = panes[q].ws /\ G.panes[q].tab = panes[q].tab
      /\ DOMAIN tabs \subseteq G.knownTabs /\ DOMAIN panes \cup DOMAIN agents \subseteq G.knownPanes
  BY DEF Tracks
<1>2. p \in DOMAIN panes /\ panes[p].closedAt = Zero
  BY DEF Live
<1>3. /\ DOMAIN panes' = DOMAIN panes /\ panes'[p] = r
      /\ \A q \in DOMAIN panes : q # p => panes'[q] = panes[q]
  BY <1>2 DEF Put
<1>4. Live(panes') = Live(panes)
  BY <1>2, <1>3 DEF Live
<1>5. /\ H.ws = G.ws
      /\ DOMAIN H.tabs = DOMAIN G.tabs /\ \A t \in DOMAIN G.tabs : H.tabs[t] = G.tabs[t]
      /\ DOMAIN H.panes = DOMAIN G.panes /\ \A q \in DOMAIN G.panes : H.panes[q] = G.panes[q]
      /\ H.knownTabs = G.knownTabs /\ H.knownPanes = G.knownPanes
  BY AfterSame
<1>6. \A q \in Live(panes') : H.panes[q].ws = panes'[q].ws /\ H.panes[q].tab = panes'[q].tab
  BY <1>1, <1>3, <1>4, <1>5 DEF Live
<1>7. Tracks(H)'
  BY <1>1, <1>2, <1>3, <1>4, <1>5, <1>6 DEF Tracks, Live
<1> QED
  BY <1>3, <1>4, <1>7

LEMMA DetectedTracks ==
  ASSUME WellFormed, NEW G, Tracks(G), AgentsFollow, NEW e, Before(G, e),
         e.kind = KindAgentDetected, Handle(e), NEW H, H = After(G, e)
  PROVE  Tracks(H)' /\ AgentsFollow'
<1> DEFINE r == [At(panes, e.pane, NewPane) EXCEPT !.agent = e.agent]
<1>1. e.pane \in Live(panes) /\ e.pane \in DOMAIN panes /\ e.pane \notin Closed(panes)
  BY DEF Before, Tracks, Live, Closed
<1>2. panes' = Put(panes, e.pane, r) /\ UNCHANGED <<workspaces, tabs, agents>>
  BY <1>1, KindsDiffer DEF Handle, ApplyAgentDetected
<1>3. panes[e.pane] \in PaneRecord
  BY <1>1 DEF WellFormed
<1>4. /\ r.ws = panes[e.pane].ws /\ r.tab = panes[e.pane].tab /\ r.closedAt = Zero
      /\ r.status = panes[e.pane].status
  BY <1>1, <1>3 DEF At, PaneRecord, Live
<1> HIDE DEF r
<1>5. /\ Tracks(H)' /\ DOMAIN panes' = DOMAIN panes /\ Live(panes') = Live(panes)
      /\ panes'[e.pane] = r /\ \A q \in DOMAIN panes : q # e.pane => panes'[q] = panes[q]
  BY <1>1, <1>2, <1>4, UpsertTracks
<1>6. AgentsFollow'
  BY <1>2, <1>4, <1>5 DEF AgentsFollow, Live, Closed
<1> QED
  BY <1>5, <1>6

\* What a status event makes of its pane and of the agent there.
Updated(p, w, a, s) == [At(panes, p, NewPane) EXCEPT !.ws = w, !.agent = a, !.status = s]

LEMMA StatusPuts ==
  ASSUME WellFormed, NEW p, p \notin Closed(panes), p \notin Closed(agents), NEW w, NEW a, NEW s,
         ApplyAgentStatusChanged(p, w, a, s)
  PROVE  /\ panes' = Put(panes, p, Updated(p, w, a, s))
         /\ UNCHANGED <<workspaces, tabs>>
         /\ \/ UNCHANGED agents /\ p \in DOMAIN agents /\ agents[p].status = s
            \/ \E n : n.ws = w /\ n.status = s /\ n.closedAt = Zero /\ agents' = Put(agents, p, n)
<1>1. UNCHANGED <<workspaces, tabs>>
  BY DEF ApplyAgentStatusChanged
<1>2. ~StatusAbsorbed(p)
  BY DEF StatusAbsorbed
<1>3. \/ StatusFirstSeen(p, w, a, s)
      \/ StatusRepeated(p, w, a, s)
      \/ StatusTransition(p, w, a, s)
  BY <1>2 DEF ApplyAgentStatusChanged
<1>4. panes' = Put(panes, p, Updated(p, w, a, s))
  BY <1>3 DEF StatusFirstSeen, StatusRepeated, StatusTransition, UpsertPane, Updated
<1>5. CASE StatusFirstSeen(p, w, a, s)
  <2>1. agents' = Put(agents, p, NewAgent(w, s))
    BY <1>5 DEF StatusFirstSeen
  <2>2. NewAgent(w, s).ws = w /\ NewAgent(w, s).status = s /\ NewAgent(w, s).closedAt = Zero
    BY DEF NewAgent
  <2> QED
    BY <1>1, <1>4, <2>1, <2>2
<1>6. CASE StatusRepeated(p, w, a, s)
  BY <1>1, <1>4, <1>6 DEF StatusRepeated
<1>7. CASE StatusTransition(p, w, a, s)
  <2>1. p \in Live(agents) /\ Move(p, w, s)
    BY <1>7 DEF StatusTransition, Live, Closed
  <2>2. \E n : n.ws = w /\ n.status = s /\ n.closedAt = Zero /\ agents' = Put(agents, p, n)
    BY <2>1, MovesPut
  <2> QED
    BY <1>1, <1>4, <2>2
<1> QED
  BY <1>3, <1>5, <1>6, <1>7

LEMMA StatusTracks ==
  ASSUME WellFormed, NEW G, Tracks(G), AgentsFollow, NEW e, Before(G, e),
         e.kind = KindAgentStatusChanged, Handle(e), NEW H, H = After(G, e)
  PROVE  Tracks(H)' /\ AgentsFollow'
<1> DEFINE p == e.pane
           r == Updated(p, e.ws, e.agent, e.status)
<1>1. p \in Live(panes) /\ p \in DOMAIN panes /\ panes[p].ws = e.ws
  BY DEF Before, Tracks, Live
<1>2. p \notin Closed(panes) /\ p \notin Closed(agents)
  BY <1>1 DEF AgentsFollow, Closed
<1>3. ApplyAgentStatusChanged(p, e.ws, e.agent, e.status)
  BY KindsDiffer DEF Handle
<1>4. /\ panes' = Put(panes, p, r) /\ UNCHANGED <<workspaces, tabs>>
      /\ \/ UNCHANGED agents /\ p \in DOMAIN agents /\ agents[p].status = e.status
         \/ \E n : n.ws = e.ws /\ n.status = e.status /\ n.closedAt = Zero
                  /\ agents' = Put(agents, p, n)
  BY <1>2, <1>3, StatusPuts
<1>5. panes[p] \in PaneRecord
  BY <1>1 DEF WellFormed
<1>6. r.ws = e.ws /\ r.tab = panes[p].tab /\ r.closedAt = Zero /\ r.status = e.status
  BY <1>1, <1>5 DEF At, PaneRecord, Live, Updated
<1> HIDE DEF r, p
<1>7. DOMAIN agents' \subseteq DOMAIN agents \cup {p}
  BY <1>4 DEF Put
<1>8. /\ Tracks(H)' /\ DOMAIN panes' = DOMAIN panes /\ Live(panes') = Live(panes)
      /\ panes'[p] = r /\ \A q \in DOMAIN panes : q # p => panes'[q] = panes[q]
  BY <1>1, <1>4, <1>6, <1>7, UpsertTracks
<1>9. AgentsFollow'
  <2>1. CASE UNCHANGED agents /\ p \in DOMAIN agents /\ agents[p].status = e.status
    BY <1>1, <1>6, <1>8, <2>1 DEF AgentsFollow, Live, Closed
  <2>2. ASSUME NEW n, n.ws = e.ws, n.status = e.status, n.closedAt = Zero, agents' = Put(agents, p, n)
        PROVE  AgentsFollow'
    <3>1. /\ DOMAIN agents' = DOMAIN agents \cup {p} /\ agents'[p] = n
          /\ \A q \in DOMAIN agents : q # p => agents'[q] = agents[q]
      BY <2>2 DEF Put
    <3>2. Live(agents') = Live(agents) \cup {p} /\ Closed(agents') \subseteq Closed(agents)
      BY <2>2, <3>1 DEF Live, Closed
    <3>3. Live(agents') \subseteq Live(panes') /\ Closed(agents') \cap Live(panes') = {}
      BY <1>1, <1>8, <3>2 DEF AgentsFollow
    <3>4. \A q \in Live(agents') : agents'[q].ws = panes'[q].ws /\ agents'[q].status = panes'[q].status
      BY <1>6, <1>8, <2>2, <3>1, <3>2 DEF AgentsFollow, Live
    <3> QED
      BY <3>3, <3>4 DEF AgentsFollow, Live, Closed
  <2> QED
    BY <1>4, <2>1, <2>2
<1> QED
  BY <1>8, <1>9

\* An event that comes in its turn does to the tracker what it does to the
\* outline it has.
LEMMA HandleTracks ==
  ASSUME WellFormed, NEW G, Tracks(G), AgentsFollow, NEW e, e.kind \in Kinds, Before(G, e),
         Handle(e), NEW H, H = After(G, e)
  PROVE  Tracks(H)' /\ AgentsFollow'
BY CloseTracks, CreatedTracks, DetectedTracks, StatusTracks DEF Kinds


LEMMA TakeEventTrack ==
  ASSUME WellFormed, LawInv, Track, TakeEvent
  PROVE  Track'
<1> SUFFICES ASSUME Following'
             PROVE  /\ \E G, H : Starts(G)' /\ Leads(events, G, H)' /\ Ends(H)'
                    /\ loop' = "select" => AgentsFollow'
  BY DEF Track
<1>1. /\ loop = "select" /\ events # <<>> /\ Handle(Head(events)) /\ events' = Tail(events)
      /\ UNCHANGED <<world, used, stream, loop, gap>>
  BY DEF TakeEvent, hvars, lvars
<1>2. Following
  BY <1>1 DEF Following
<1>3. PICK G, H : Starts(G) /\ Leads(events, G, H) /\ Ends(H)
  BY <1>2 DEF Track
<1>4. Tracks(G) /\ AgentsFollow
  BY <1>1, <1>2, <1>3 DEF Track, Starts
<1>5. PICK e : e = Head(events)
  OBVIOUS
<1>6. e.kind \in Kinds
  <2>1. e \in LawfulEvents
    BY <1>1, <1>5, HeadTailProperties DEF LawInv
  <2> QED
    BY <2>1 DEF LawfulEvents, NormalizedEvents
<1>7. events \in Seq(LawfulEvents)
  BY DEF LawInv
<1>8. PICK K : K = After(G, e)
  OBVIOUS
<1>9. Before(G, e) /\ Leads(Tail(events), K, H)
  BY <1>1, <1>3, <1>5, <1>7, <1>8, LeadsNext
<1>10. Tracks(K)' /\ AgentsFollow'
  BY <1>1, <1>4, <1>5, <1>6, <1>8, <1>9, HandleTracks
<1>11. Starts(K)'
  BY <1>1, <1>10 DEF Starts
<1>12. Leads(events, K, H)'
  BY <1>1, <1>9 DEF Leads
<1>13. Ends(H)'
  BY <1>1, <1>3 DEF Ends, Outlines, SnapTabs, SnapWorkspaces
<1> QED
  BY <1>10, <1>11, <1>12, <1>13

\* The snapshot in hand starts the track anew: its outline is the session's.
LEMMA FetchTrack ==
  ASSUME LawInv, FetchSnapshot
  PROVE  Track'
<1> DEFINE G == [ws |-> SnapWorkspaces(world), tabs |-> [t \in SnapTabs(world) |-> wsOf(t)],
                 panes |-> [p \in DOMAIN world |-> [ws |-> world[p].ws, tab |-> world[p].tab]],
                 knownTabs |-> SnapTabs(world), knownPanes |-> DOMAIN world]
<1>1. /\ loop' = "subscribe" /\ fetched' = world /\ events = <<>>
      /\ UNCHANGED <<world, used, events>>
  BY DEF FetchSnapshot, LawInv, hvars, svars
<1>2. Consistent(world) /\ SnapTabs(world) \cup DOMAIN world \subseteq used
  BY DEF LawInv, SessionLawful
<1>3. ASSUME NEW p \in DOMAIN world
      PROVE  G.tabs[world[p].tab] = world[p].ws
  <2>1. world[p].tab \in SnapTabs(world)
    BY DEF SnapTabs
  <2>2. PICK q \in DOMAIN world : world[q].tab = world[p].tab /\ wsOf(world[p].tab) = world[q].ws
    BY DEF wsOf
  <2> QED
    BY <1>2, <2>1, <2>2 DEF Consistent
<1>4. /\ G.ws = SnapWorkspaces(world)
      /\ DOMAIN G.tabs = SnapTabs(world) /\ DOMAIN G.panes = DOMAIN world
      /\ \A p \in DOMAIN world : G.panes[p].ws = world[p].ws /\ G.panes[p].tab = world[p].tab
      /\ G.knownTabs = SnapTabs(world) /\ G.knownPanes = DOMAIN world
  OBVIOUS
<1>5. PICK K : K = G
  OBVIOUS
<1> HIDE DEF G
<1>6. Outlines(K, world)
  BY <1>3, <1>4, <1>5 DEF Outlines
<1>7. K.knownTabs = SnapTabs(world) /\ K.knownPanes = DOMAIN world
  BY <1>4, <1>5
<1>8. Starts(K)'
  BY <1>1, <1>6, <1>7 DEF Starts, Fetched, Outlines, SnapTabs, SnapWorkspaces
<1>9. Ends(K)'
  BY <1>1, <1>2, <1>6, <1>7 DEF Ends, Outlines, SnapTabs, SnapWorkspaces
<1>10. Leads(events, K, K)'
  <2>1. Leads(<<>>, K, K)
    BY LeadsNone
  <2> QED
    BY <1>1, <2>1 DEF Leads
<1> QED
  BY <1>1, <1>8, <1>9, <1>10 DEF Track

LEMMA SubscribeTrack ==
  ASSUME Track, Subscribe
  PROVE  Track'
<1>1. /\ loop = "subscribe" /\ loop' = "apply" /\ UNCHANGED <<world, used, fetched>>
      /\ UNCHANGED <<events, gap>>
  BY DEF Subscribe, hvars
<1>2. Following' => Following
  BY <1>1 DEF Following
<1>3. \A G : Starts(G) => Starts(G)'
  BY <1>1 DEF Starts, Fetched, Outlines, SnapTabs, SnapWorkspaces
<1>4. \A H : Ends(H) => Ends(H)'
  BY <1>1 DEF Ends, Outlines, SnapTabs, SnapWorkspaces
<1>5. \A G, H : Leads(events, G, H) => Leads(events, G, H)'
  BY <1>1 DEF Leads
<1> QED
  BY <1>1, <1>2, <1>3, <1>4, <1>5 DEF Track

\* The tracker takes over the snapshot's panes and agents, ...
LEMMA SnapshotShows ==
  ASSUME WellFormed, NEW snap, ApplySnapshot(snap)
  PROVE  /\ Live(panes') = DOMAIN snap /\ DOMAIN panes' = DOMAIN snap
         /\ \A p \in DOMAIN snap : /\ panes'[p].ws = snap[p].ws /\ panes'[p].tab = snap[p].tab
                                   /\ panes'[p].agent = snap[p].agent
                                   /\ panes'[p].status = snap[p].status
         /\ Live(agents') = {p \in DOMAIN snap : snap[p].agent # None}
         /\ DOMAIN agents' = Live(agents')
         /\ \A p \in Live(agents') : /\ agents'[p].ws = snap[p].ws
                                     /\ agents'[p].status = snap[p].status
<1> DEFINE held == {p \in DOMAIN snap : snap[p].agent # None}
           kept(p) == p \in DOMAIN agents /\ agents[p].status = snap[p].status
<1>1. /\ panes' = [p \in DOMAIN snap |->
                     [ws |-> snap[p].ws, tab |-> snap[p].tab, agent |-> snap[p].agent,
                      status |-> snap[p].status, session |-> snap[p].session,
                      closedAt |-> Zero]]
      /\ agents' = [p \in held |->
                      IF kept(p) THEN [agents[p] EXCEPT !.ws = snap[p].ws, !.closedAt = Zero]
                                 ELSE NewAgent(snap[p].ws, snap[p].status)]
  BY DEF ApplySnapshot
<1>2. Live(panes') = DOMAIN snap /\ DOMAIN panes' = DOMAIN snap
      /\ \A p \in DOMAIN snap : /\ panes'[p].ws = snap[p].ws /\ panes'[p].tab = snap[p].tab
                                /\ panes'[p].agent = snap[p].agent
                                /\ panes'[p].status = snap[p].status
  BY <1>1 DEF Live
<1>3. \A p \in held : kept(p) => agents[p] \in AgentRecord
  BY DEF WellFormed
<1>4. \A p \in held : /\ agents'[p].ws = snap[p].ws /\ agents'[p].closedAt = Zero
                      /\ agents'[p].status = snap[p].status
  BY <1>1, <1>3 DEF AgentRecord, NewAgent
<1>5. DOMAIN agents' = held
  BY <1>1
<1> HIDE DEF held
<1>6. Live(agents') = held
  BY <1>4, <1>5 DEF Live
<1> QED
  BY <1>2, <1>4, <1>5, <1>6 DEF held

\* ... and its outline.
LEMMA SnapshotTracks ==
  ASSUME WellFormed, NEW snap, ApplySnapshot(snap), NEW G, Outlines(G, snap),
         SnapTabs(snap) \subseteq G.knownTabs, DOMAIN snap \subseteq G.knownPanes
  PROVE  Tracks(G)' /\ AgentsFollow'
<1>1. /\ workspaces' = SnapWorkspaces(snap)
      /\ tabs' = [t \in SnapTabs(snap) |->
                    [ws |-> (CHOOSE r \in {snap[p] : p \in DOMAIN snap} : r.tab = t).ws,
                     closedAt |-> Zero]]
  BY DEF ApplySnapshot
<1>2. ASSUME NEW t \in SnapTabs(snap)
      PROVE  tabs'[t].ws = G.tabs[t] /\ tabs'[t].closedAt = Zero
  <2> DEFINE R == {snap[p] : p \in DOMAIN snap}
  <2>1. \E r \in R : r.tab = t
    BY DEF SnapTabs
  <2>2. PICK q \in DOMAIN snap : snap[q].tab = t /\ (CHOOSE r \in R : r.tab = t) = snap[q]
    BY <2>1
  <2> HIDE DEF R
  <2>3. G.tabs[t] = snap[q].ws
    BY <2>2 DEF Outlines
  <2> QED
    BY <1>1, <2>2, <2>3 DEF R
<1>3. Live(tabs') = SnapTabs(snap) /\ DOMAIN tabs' = SnapTabs(snap)
  BY <1>1 DEF Live
<1> DEFINE held == {p \in DOMAIN snap : snap[p].agent # None}
<1>4. /\ Live(panes') = DOMAIN snap /\ DOMAIN panes' = DOMAIN snap
      /\ \A p \in DOMAIN snap : /\ panes'[p].ws = snap[p].ws /\ panes'[p].tab = snap[p].tab
                                /\ panes'[p].status = snap[p].status
      /\ Live(agents') = held /\ DOMAIN agents' = held
      /\ \A p \in held : agents'[p].ws = snap[p].ws /\ agents'[p].status = snap[p].status
  BY SnapshotShows
<1>5. held \subseteq DOMAIN snap
  OBVIOUS
<1> HIDE DEF held
<1>6. AgentsFollow'
  BY <1>4, <1>5 DEF AgentsFollow, Live, Closed
<1>7. Tracks(G)'
  BY <1>1, <1>2, <1>3, <1>4, <1>5 DEF Tracks, Outlines, Live
<1> QED
  BY <1>6, <1>7

LEMMA BaselineTrack ==
  ASSUME WellFormed, Track, Baseline
  PROVE  Track'
<1> SUFFICES ASSUME Following'
             PROVE  /\ \E G, H : Starts(G)' /\ Leads(events, G, H)' /\ Ends(H)'
                    /\ loop' = "select" => AgentsFollow'
  BY DEF Track
<1>1. /\ loop = "apply" /\ loop' = "select" /\ ApplySnapshot(fetched)
      /\ UNCHANGED <<world, used, stream, events, gap>>
  BY DEF Baseline, hvars, svars
<1>2. Following
  BY <1>1 DEF Following
<1>3. PICK G, H : Fetched(G) /\ Leads(events, G, H) /\ Ends(H)
  BY <1>1, <1>2 DEF Track, Starts
<1>4. Tracks(G)' /\ AgentsFollow'
  BY <1>1, <1>3, SnapshotTracks DEF Fetched
<1>5. Starts(G)'
  BY <1>1, <1>4 DEF Starts
<1>6. Leads(events, G, H)'
  BY <1>1, <1>3 DEF Leads
<1>7. Ends(H)'
  BY <1>1, <1>3 DEF Ends, Outlines, SnapTabs, SnapWorkspaces
<1> QED
  BY <1>4, <1>5, <1>6, <1>7

\* A seen-flip changes a status, of the agent and of its pane.
LEMMA FlipTracks ==
  ASSUME WellFormed, NEW p, ApplySeenFlip(p)
  PROVE  /\ \A G : Tracks(G) => Tracks(G)'
         /\ AgentsFollow => AgentsFollow'
<1>1. CASE UNCHANGED <<panes, agents>>
  <2>1. UNCHANGED <<workspaces, tabs>>
    BY DEF ApplySeenFlip
  <2> QED
    BY <1>1, <2>1 DEF Tracks, AgentsFollow, Live, Closed
<1>2. CASE p \in InState(Live(agents), "done")
  <2>0. /\ p \in DOMAIN agents /\ p \in Live(agents) /\ Move(p, agents[p].ws, "idle")
        /\ panes' = IF p \in DOMAIN panes THEN [panes EXCEPT ![p].status = "idle"] ELSE panes
        /\ UNCHANGED <<workspaces, tabs>>
    BY <1>2 DEF ApplySeenFlip, InState, Live
  <2> PICK n : /\ n.ws = agents[p].ws /\ n.status = "idle" /\ n.closedAt = Zero
               /\ agents' = Put(agents, p, n)
    BY <2>0, MovesPut
  <2>1. /\ p \in DOMAIN agents /\ p \in Live(agents) /\ agents' = Put(agents, p, n)
        /\ n.ws = agents[p].ws /\ n.closedAt = Zero /\ n.status = "idle"
        /\ panes' = IF p \in DOMAIN panes THEN [panes EXCEPT ![p].status = "idle"] ELSE panes
        /\ UNCHANGED <<workspaces, tabs>>
    BY <2>0
  <2>2. /\ DOMAIN panes' = DOMAIN panes
        /\ \A q \in DOMAIN panes :
             /\ panes'[q].ws = panes[q].ws /\ panes'[q].tab = panes[q].tab
             /\ panes'[q].closedAt = panes[q].closedAt
             /\ panes'[q].status = IF q = p THEN "idle" ELSE panes[q].status
    <3>1. p \in DOMAIN panes => panes[p] \in PaneRecord
      BY DEF WellFormed
    <3> QED
      BY <2>1, <3>1 DEF PaneRecord
  <2>3. /\ DOMAIN agents' = DOMAIN agents /\ agents'[p] = n
        /\ \A q \in DOMAIN agents : q # p => agents'[q] = agents[q]
    BY <2>1 DEF Put
  <2>4. Live(panes') = Live(panes)
    BY <2>2 DEF Live
  <2>5. Live(agents') = Live(agents) /\ Closed(agents') = Closed(agents)
    BY <2>1, <2>3 DEF Live, Closed
  <2>6. \A G : Tracks(G) => Tracks(G)'
    BY <2>1, <2>2, <2>3, <2>4 DEF Tracks, Live
  <2>7. ASSUME AgentsFollow PROVE AgentsFollow'
    <3>1. Live(agents) \subseteq Live(panes) /\ Closed(agents) \cap Live(panes) = {}
          /\ \A q \in Live(agents) : agents[q].ws = panes[q].ws /\ agents[q].status = panes[q].status
      BY <2>7 DEF AgentsFollow
    <3>2. \A q \in Live(agents) : q \in DOMAIN panes /\ q \in DOMAIN agents
      BY <3>1 DEF Live
    <3>3. \A q \in Live(agents') : agents'[q].ws = panes'[q].ws /\ agents'[q].status = panes'[q].status
      BY <2>1, <2>2, <2>3, <2>5, <3>1, <3>2
    <3> QED
      BY <2>4, <2>5, <3>1, <3>3 DEF AgentsFollow, Live, Closed
  <2> QED
    BY <2>6, <2>7
<1> QED
  BY <1>1, <1>2 DEF ApplySeenFlip

\* Steps of the loop and of the reconcile goroutine that the track does not see.
LEMMA SameTrack ==
  ASSUME Track, UNCHANGED <<vars, world, used, stream, events, loop, fetched>>,
         ~gap' => ~gap
  PROVE  Track'
<1>1. Following' => Following
  BY DEF Following
<1>2. \A G : Starts(G) => Starts(G)'
  BY DEF Starts, Tracks, Fetched, Outlines, SnapTabs, SnapWorkspaces, Live, vars
<1>3. \A H : Ends(H) => Ends(H)'
  BY DEF Ends, Outlines, SnapTabs, SnapWorkspaces
<1>4. \A G, H : Leads(events, G, H) => Leads(events, G, H)'
  BY DEF Leads
<1>5. AgentsFollow => AgentsFollow'
  BY DEF AgentsFollow, Live, Closed, vars
<1> QED
  BY <1>1, <1>2, <1>3, <1>4, <1>5 DEF Track

LEMMA ReportFlipTrack ==
  ASSUME WellFormed, Track, NEW p, ReportFlip(p)
  PROVE  Track'
<1>1. /\ ApplySeenFlip(p) /\ gap' = (gap \/ StillDone(p))
      /\ UNCHANGED <<world, used, stream, events, loop, fetched>>
  BY DEF ReportFlip, hvars, svars, lvars
<1>2. Following' => Following
  BY <1>1 DEF Following
<1>3. (\A G : Tracks(G) => Tracks(G)') /\ (AgentsFollow => AgentsFollow')
  BY <1>1, FlipTracks
<1>4. \A G : Starts(G) => Starts(G)'
  BY <1>1, <1>3 DEF Starts, Fetched, Outlines, SnapTabs, SnapWorkspaces
<1>5. \A H : Ends(H) => Ends(H)'
  BY <1>1 DEF Ends, Outlines, SnapTabs, SnapWorkspaces
<1>6. \A G, H : Leads(events, G, H) => Leads(events, G, H)'
  BY <1>1 DEF Leads
<1> QED
  BY <1>1, <1>2, <1>3, <1>4, <1>5, <1>6 DEF Track

\* The track is kept by every step.
LEMMA TrackStep == WellFormed /\ LawInv /\ Track /\ [ObservrNext]_ovars => Track'
<1> SUFFICES ASSUME WellFormed, LawInv, Track, [ObservrNext]_ovars PROVE Track'
  OBVIOUS
<1>1. CASE CloseOld
  BY <1>1 DEF CloseOld, Track, Following
<1>2. CASE ReconcileFetch \/ ReconcileDiff \/ ReportDrift \/ UNCHANGED ovars
  <2>1. UNCHANGED <<vars, world, used, stream, events, loop, fetched, gap>>
    BY <1>2 DEF ReconcileFetch, ReconcileDiff, ReportDrift, ovars, hvars, svars, lvars
  <2> QED
    BY <2>1, SameTrack
<1>3. CASE Herdr
  BY <1>3, HerdrTrack
<1>4. CASE TakeEvent
  BY <1>4, TakeEventTrack
<1>5. CASE FetchSnapshot \/ Subscribe \/ Baseline
  BY <1>5, FetchTrack, SubscribeTrack, BaselineTrack
<1>6. CASE \E p \in Panes : ReportFlip(p)
  BY <1>6, ReportFlipTrack
<1>7. CASE Return
  BY <1>7 DEF Return, Track, Following
<1> QED
  BY <1>1, <1>2, <1>3, <1>4, <1>5, <1>6, <1>7
     DEF ObservrNext, Loop, Reconcile, StreamError, Resubscribe

LEMMA TrackAlways == ObservrSpec => []Track
<1>1. ObservrInit => Track
  BY DEF ObservrInit, Track, Following
<1>2. AppInv /\ Track /\ [ObservrNext]_ovars => Track'
  BY TrackStep DEF AppInv
<1> QED
  BY <1>1, <1>2, AppAlways, PTL DEF ObservrSpec


-----------------------------------------------------------------------------
(* What the events queued say of the agent of one pane.                    *)

About(e, p) == e.pane = p /\ e.kind \in {KindAgentDetected, KindAgentStatusChanged}
Tells(e, p) == e.pane = p /\ e.kind = KindAgentStatusChanged

Unspoken(q, p) == \A i \in DOMAIN q : ~About(q[i], p)
Untold(q, p) == \A i \in DOMAIN q : ~Tells(q[i], p)

\* s is the last status that q tells of p.
LastTold(q, p, s) ==
  \E i \in DOMAIN q : /\ Tells(q[i], p) /\ q[i].status = s
                      /\ \A j \in DOMAIN q : Tells(q[j], p) => j <= i

\* A done that was seen may not be known to have been.
Agrees(s, r) == s = r.status \/ (s = "done" /\ r.status = "idle")

\* The agent a with status s, there when p is in held, and the events of q that
\* are about it end in what the session has, the record r of p.
Reaches(q, p, held, a, s, r) ==
  /\ \A i \in DOMAIN q : About(q[i], p) => q[i].agent = r.agent /\ r.agent # None
  /\ Unspoken(q, p) => a = r.agent
  /\ Untold(q, p) => Agrees(s, r) /\ (r.agent # None => p \in held)
  /\ \A x : LastTold(q, p, x) => Agrees(x, r)
  /\ p \in held => r.agent # None

LEMMA ReachesAgent ==
  ASSUME NEW e, NEW p PROVE Tells(e, p) => About(e, p)
  BY DEF Tells, About

\* An event about something else.
LEMMA ReachesOther ==
  ASSUME NEW S, NEW q \in Seq(S), NEW e \in S, NEW p, NEW held, NEW a, NEW s, NEW r,
         Reaches(q, p, held, a, s, r), ~About(e, p)
  PROVE  Reaches(Append(q, e), p, held, a, s, r)
<1> DEFINE n == Append(q, e)
<1>1. /\ DOMAIN q \subseteq DOMAIN n /\ \A i \in DOMAIN q : n[i] = q[i]
      /\ \A i \in DOMAIN n \ DOMAIN q : n[i] = e
  OBVIOUS
<1>2. ~Tells(e, p)
  BY ReachesAgent
<1> HIDE DEF n
<1>3. \A i \in DOMAIN n : About(n[i], p) => i \in DOMAIN q
  BY <1>1
<1>4. \A i \in DOMAIN n : Tells(n[i], p) => i \in DOMAIN q
  BY <1>1, <1>2
<1>5. Unspoken(n, p) => Unspoken(q, p)
  BY <1>1 DEF Unspoken
<1>6. Untold(n, p) => Untold(q, p)
  BY <1>1 DEF Untold
<1>7. \A x : LastTold(n, p, x) => LastTold(q, p, x)
  <2> SUFFICES ASSUME NEW x, LastTold(n, p, x) PROVE LastTold(q, p, x)
    OBVIOUS
  <2>1. PICK i \in DOMAIN n : /\ Tells(n[i], p) /\ n[i].status = x
                              /\ \A j \in DOMAIN n : Tells(n[j], p) => j <= i
    BY DEF LastTold
  <2>2. i \in DOMAIN q /\ n[i] = q[i]
    BY <1>1, <1>4, <2>1
  <2>3. \A j \in DOMAIN q : Tells(q[j], p) => j <= i
    BY <1>1, <2>1
  <2> QED
    BY <2>1, <2>2, <2>3 DEF LastTold
<1>8. \A i \in DOMAIN n : About(n[i], p) => n[i].agent = r.agent /\ r.agent # None
  BY <1>1, <1>3 DEF Reaches
<1>9. Reaches(n, p, held, a, s, r)
  BY <1>5, <1>6, <1>7, <1>8 DEF Reaches
<1> QED
  BY <1>9 DEF n

\* A status, after all that was queued: what was shown or told matters no more.
LEMMA ReachesTold ==
  ASSUME NEW S, NEW q \in Seq(S), NEW e \in S, NEW p, NEW held, NEW a, NEW s, NEW r,
         \A i \in DOMAIN q : About(q[i], p) => q[i].agent = r.agent,
         Tells(e, p), e.agent = r.agent, r.agent # None, e.status = r.status
  PROVE  Reaches(Append(q, e), p, held, a, s, r)
<1> DEFINE n == Append(q, e)
           last == Len(q) + 1
<1>1. /\ DOMAIN q \subseteq DOMAIN n /\ \A i \in DOMAIN q : n[i] = q[i]
      /\ \A i \in DOMAIN n : i \in DOMAIN q \/ n[i] = e
  OBVIOUS
<1>2. last \in DOMAIN n /\ n[last] = e
      /\ \A i \in DOMAIN n : last <= i => i = last
  OBVIOUS
<1> HIDE DEF n, last
<1>3. ~Unspoken(n, p) /\ ~Untold(n, p)
  BY <1>2, ReachesAgent DEF Unspoken, Untold
<1>4. \A i \in DOMAIN n : About(n[i], p) => n[i].agent = r.agent
  BY <1>1
<1>5. ASSUME NEW x, LastTold(n, p, x) PROVE x = e.status
  <2>1. PICK i \in DOMAIN n : /\ n[i].status = x
                              /\ \A j \in DOMAIN n : Tells(n[j], p) => j <= i
    BY <1>5 DEF LastTold
  <2>2. last <= i
    BY <1>2, <2>1
  <2> QED
    BY <1>2, <2>1, <2>2
<1>6. Reaches(n, p, held, a, s, r)
  BY <1>3, <1>4, <1>5 DEF Reaches, Agrees
<1> QED
  BY <1>6 DEF n

\* The first event handled.
LEMMA ReachesNext ==
  ASSUME NEW S, NEW q \in Seq(S), q # <<>>, NEW p, NEW held, NEW a, NEW s, NEW r,
         Reaches(q, p, held, a, s, r), NEW e, e = Head(q), NEW now_held,
         p \in now_held <=> p \in held \/ Tells(e, p)
  PROVE  Reaches(Tail(q), p, now_held, IF About(e, p) THEN e.agent ELSE a,
                 IF Tells(e, p) THEN e.status ELSE s, r)
<1> DEFINE n == Tail(q)
<1>1. /\ \A i \in DOMAIN n : i \in Int /\ i + 1 \in DOMAIN q /\ n[i] = q[i + 1]
      /\ \A i \in DOMAIN q : i \in Int /\ (i = 1 \/ (i - 1 \in DOMAIN n /\ n[i - 1] = q[i]))
      /\ 1 \in DOMAIN q /\ q[1] = e
  OBVIOUS
<1> HIDE DEF n
<1>2. \A i \in DOMAIN n : About(n[i], p) => n[i].agent = r.agent /\ r.agent # None
  BY <1>1 DEF Reaches
<1>3. About(e, p) => e.agent = r.agent /\ r.agent # None
  BY <1>1 DEF Reaches
<1>4. ASSUME Unspoken(n, p), ~About(e, p) PROVE a = r.agent
  <2>1. Unspoken(q, p)
    BY <1>1, <1>4 DEF Unspoken
  <2> QED
    BY <2>1 DEF Reaches
<1>5. ASSUME Untold(n, p), ~Tells(e, p)
      PROVE  Agrees(s, r) /\ (r.agent # None => p \in held)
  <2>1. Untold(q, p)
    BY <1>1, <1>5 DEF Untold
  <2> QED
    BY <2>1 DEF Reaches
<1>6. ASSUME Untold(n, p), Tells(e, p) PROVE Agrees(e.status, r)
  <2>1. ASSUME NEW j \in DOMAIN q, Tells(q[j], p) PROVE j = 1
    BY <1>1, <1>6, <2>1 DEF Untold
  <2>2. LastTold(q, p, e.status)
    <3>1. \A j \in DOMAIN q : Tells(q[j], p) => j <= 1
      BY <2>1
    <3> QED
      BY <1>1, <1>6, <3>1 DEF LastTold
  <2> QED
    BY <2>2 DEF Reaches
<1>7. ASSUME NEW x, LastTold(n, p, x) PROVE Agrees(x, r)
  <2>1. PICK i \in DOMAIN n : /\ Tells(n[i], p) /\ n[i].status = x
                              /\ \A j \in DOMAIN n : Tells(n[j], p) => j <= i
    BY <1>7 DEF LastTold
  <2>2. /\ i + 1 \in DOMAIN q /\ q[i + 1] = n[i] /\ i \in Int
        /\ i >= 1
    <3>1. i \in 1..Len(n)
      BY DEF n
    <3> QED
      BY <1>1, <3>1
  <2>3. ASSUME NEW j \in DOMAIN q, Tells(q[j], p) PROVE j <= i + 1
    <3>1. j \in Int /\ (j = 1 \/ (j - 1 \in DOMAIN n /\ n[j - 1] = q[j]))
      BY <1>1
    <3>2. CASE j = 1
      BY <2>2, <3>2
    <3>3. CASE j - 1 \in DOMAIN n /\ n[j - 1] = q[j]
      <4>1. Tells(n[j - 1], p)
        BY <2>3, <3>3
      <4>2. j - 1 <= i
        BY <2>1, <3>3, <4>1
      <4> QED
        BY <2>2, <3>1, <4>2
    <3> QED
      BY <3>1, <3>2, <3>3
  <2>4. LastTold(q, p, x)
    BY <2>1, <2>2, <2>3 DEF LastTold
  <2> QED
    BY <2>4 DEF Reaches
<1>8. p \in now_held => r.agent # None
  BY <1>3, ReachesAgent DEF Reaches
<1>9. Tells(e, p) => About(e, p)
  BY ReachesAgent
<1>10. Unspoken(n, p) => (IF About(e, p) THEN e.agent ELSE a) = r.agent
  BY <1>3, <1>4
<1>11. Untold(n, p) => /\ Agrees(IF Tells(e, p) THEN e.status ELSE s, r)
                       /\ r.agent # None => p \in now_held
  BY <1>5, <1>6
<1>12. Reaches(n, p, now_held, IF About(e, p) THEN e.agent ELSE a,
               IF Tells(e, p) THEN e.status ELSE s, r)
  BY <1>2, <1>7, <1>8, <1>10, <1>11 DEF Reaches
<1> QED
  BY <1>12 DEF n

\* A done that is known to be seen, and one that is seen unknown.
LEMMA ReachesFlipped ==
  ASSUME NEW q, NEW p, NEW held, NEW a, NEW r, Reaches(q, p, held, a, "done", r),
         ~(r.status = "done" /\ Untold(q, p))
  PROVE  Reaches(q, p, held, a, "idle", r)
BY DEF Reaches, Agrees

LEMMA ReachesSeen ==
  ASSUME NEW q, NEW p, NEW held, NEW a, NEW s, NEW r, Reaches(q, p, held, a, s, r),
         r.status = "done", NEW x, x.agent = r.agent, x.status = "idle"
  PROVE  Reaches(q, p, held, a, s, x)
BY DEF Reaches, Agrees


-----------------------------------------------------------------------------
(* The agents of the panes covered, through every change of the session.   *)

\* The panes covered, and what the tracker shows of them or will show.
Covers == IF loop = "subscribe" THEN DOMAIN fetched ELSE scope
Listed == IF loop = "select" THEN Live(panes) ELSE DOMAIN fetched
Shown == IF loop = "select" THEN panes ELSE fetched
Held == IF loop = "select" THEN Live(agents) ELSE {p \in DOMAIN fetched : fetched[p].agent # None}

Told(p) == p \in Listed /\ Reaches(events, p, Held, Shown[p].agent, Shown[p].status, world[p])

Covered ==
  Following =>
    /\ Covers \subseteq used
    /\ loop = "apply" => scope = DOMAIN fetched
    /\ \A p \in Covers \cap DOMAIN world : Told(p)

LEMMA SameShown ==
  ASSUME UNCHANGED <<vars, loop, scope, fetched>>
  PROVE  Covers' = Covers /\ Listed' = Listed /\ Shown' = Shown /\ Held' = Held
BY DEF Covers, Listed, Shown, Held, Live, vars

LEMMA QueuedOther ==
  ASSUME NEW S, NEW q \in Seq(S), NEW e \in S \cup {NoEvent}, NEW p, NEW held, NEW a, NEW s, NEW r,
         Reaches(q, p, held, a, s, r), ~About(e, p)
  PROVE  Reaches(Queued(q, e), p, held, a, s, r)
<1>1. CASE Sends(e)
  <2>1. e \in S
    BY <1>1 DEF Sends
  <2> QED
    BY <1>1, <2>1, ReachesOther DEF Queued
<1>2. CASE ~Sends(e)
  BY <1>2 DEF Queued
<1> QED
  BY <1>1, <1>2

\* The queue after a change that lost nothing.
LEMMA PushedQueue ==
  ASSUME LawInv, NEW e1 \in SessionEvents \cup {NoEvent}, NEW e2 \in SessionEvents \cup {NoEvent},
         NEW e3 \in SessionEvents \cup {NoEvent}, Push(e1, e2, e3), ~gap'
  PROVE  /\ ~gap /\ stream = "open" /\ events \in Seq(SessionEvents)
         /\ events' = Queued(Queued(Queued(events, e1), e2), e3)
<1>1. \A e \in SessionEvents : Possible(e)
  BY DEF SessionEvents
<1>2. events \in Seq(SessionEvents) /\ gap \in BOOLEAN
  <2>1. LawfulEvents \subseteq SessionEvents
    BY DEF LawfulEvents, SessionEvents, Lawful
  <2> QED
    BY <2>1 DEF LawInv
<1> QED
  BY <1>1, <1>2, PushQueued

\* A change that says nothing of an agent.
LEMMA PushCovered ==
  ASSUME LawInv, Covered,
         NEW e1 \in SessionEvents \cup {NoEvent}, NEW e2 \in SessionEvents \cup {NoEvent},
         NEW e3 \in SessionEvents \cup {NoEvent}, Push(e1, e2, e3),
         \A p : ~About(e1, p) /\ ~About(e2, p) /\ ~About(e3, p),
         UNCHANGED <<vars, stream, loop, scope, fetched>>, used \subseteq used',
         \A p \in DOMAIN world' \cap used : p \in DOMAIN world /\ world'[p] = world[p]
  PROVE  Covered'
<1> SUFFICES ASSUME Following'
             PROVE  /\ Covers' \subseteq used'
                    /\ loop' = "apply" => scope' = DOMAIN fetched'
                    /\ \A p \in Covers' \cap DOMAIN world' : Told(p)'
  BY DEF Covered
<1>1. stream = "open" /\ loop \in {"select", "apply"} /\ ~gap'
  BY PushFollowing
<1>2. /\ ~gap /\ events \in Seq(SessionEvents)
      /\ events' = Queued(Queued(Queued(events, e1), e2), e3)
  BY <1>1, PushedQueue
<1>3. Following
  BY <1>1, <1>2 DEF Following
<1>4. Covers' = Covers /\ Listed' = Listed /\ Shown' = Shown /\ Held' = Held
  BY SameShown
<1>5. ASSUME NEW p \in Covers \cap DOMAIN world' PROVE Told(p)'
  <2>1. p \in DOMAIN world /\ world'[p] = world[p]
    BY <1>3 DEF Covered
  <2>2. p \in Listed /\ Reaches(events, p, Held, Shown[p].agent, Shown[p].status, world[p])
    BY <1>3, <2>1 DEF Covered, Told
  <2> DEFINE q1 == Queued(events, e1)
             q2 == Queued(q1, e2)
  <2>3. q1 \in Seq(SessionEvents)
        /\ Reaches(q1, p, Held, Shown[p].agent, Shown[p].status, world[p])
    BY <1>2, <2>2, QueuedSeq, QueuedOther
  <2>4. events' = Queued(q2, e3)
    BY <1>2
  <2> HIDE DEF q1
  <2>5. q2 \in Seq(SessionEvents)
        /\ Reaches(q2, p, Held, Shown[p].agent, Shown[p].status, world[p])
    BY <2>3, QueuedSeq, QueuedOther
  <2> HIDE DEF q2
  <2>6. Reaches(events', p, Held, Shown[p].agent, Shown[p].status, world[p])
    BY <2>4, <2>5, QueuedOther
  <2> QED
    BY <1>4, <2>1, <2>2, <2>6 DEF Told
<1> QED
  BY <1>3, <1>4, <1>5 DEF Covered

LEMMA OpenPaneCovered ==
  ASSUME LawInv, Covered, NEW pl \in Places, OpenPane(pl)
  PROVE  Covered'
<1> DEFINE inTab == {q \in DOMAIN world : world[q].tab = pl[3]}
           r == [ws |-> pl[2], tab |-> pl[3], agent |-> None, status |-> "unknown",
                 session |-> None]
           ew == Ev(KindWorkspaceCreated, None, pl[2], None, None, None)
           et == Ev(KindTabCreated, None, pl[2], pl[3], None, None)
           ep == Ev(KindPaneCreated, pl[1], pl[2], pl[3], None, None)
           e1 == Unless(In(world, pl[2]) # {}, ew)
           e2 == Unless(inTab # {}, et)
<1>1. /\ pl[1] \notin used /\ used \subseteq used' /\ world' = Put(world, pl[1], r)
      /\ UNCHANGED <<vars, stream, loop, scope, fetched>>
      /\ Push(e1, e2, ep)
  BY DEF OpenPane, InTab, Changing, lvars
<1>2. /\ ew \in SessionEvents /\ et \in SessionEvents /\ ep \in SessionEvents
      /\ ew.kind = KindWorkspaceCreated /\ et.kind = KindTabCreated /\ ep.kind = KindPaneCreated
  <2>1. ew \in SessionEvents /\ et \in SessionEvents /\ ep \in SessionEvents
    BY EventsOfPlace
  <2> QED
    BY <2>1 DEF Ev
<1>3. \A p \in DOMAIN world' \cap used : p \in DOMAIN world /\ world'[p] = world[p]
  BY <1>1 DEF Put
<1> HIDE DEF r, ew, et, ep, inTab
<1>4. NoEvent.kind = <<>> /\ <<>> \notin Kinds
  BY KindsDiffer DEF NoEvent, Ev
<1>5. \A p : ~About(ew, p) /\ ~About(et, p) /\ ~About(ep, p) /\ ~About(NoEvent, p)
  BY <1>2, <1>4, KindsDiffer DEF About, Kinds
<1>6. /\ e1 \in SessionEvents \cup {NoEvent} /\ e2 \in SessionEvents \cup {NoEvent}
      /\ \A p : ~About(e1, p) /\ ~About(e2, p) /\ ~About(ep, p)
  BY <1>2, <1>5 DEF Unless
<1> HIDE DEF e1, e2
<1> QED
  BY <1>1, <1>2, <1>3, <1>6, PushCovered

\* Panes vanish: what is said of the others stands.
LEMMA VanishCovered ==
  ASSUME LawInv, Covered, NEW P, NEW e1 \in SessionEvents, NEW e2 \in SessionEvents \cup {NoEvent},
         Vanish(P, e1, e2),
         e1.kind \in {KindWorkspaceClosed, KindTabClosed, KindPaneClosed},
         e2 # NoEvent => e2.kind = KindWorkspaceClosed
  PROVE  Covered'
<1>1. /\ UNCHANGED <<vars, stream, loop, scope, fetched, used>>
      /\ world' = Less(world, P) /\ Push(e1, e2, NoEvent)
  BY DEF Vanish, Changing, lvars, Less
<1>2. \A q \in DOMAIN world' \cap used : q \in DOMAIN world /\ world'[q] = world[q]
  BY <1>1 DEF Less
<1>3. NoEvent.kind = <<>> /\ <<>> \notin Kinds
  BY KindsDiffer DEF NoEvent, Ev
<1>4. \A q : ~About(e1, q) /\ ~About(e2, q) /\ ~About(NoEvent, q)
  BY <1>3, KindsDiffer DEF About, Kinds
<1> QED
  BY <1>1, <1>2, <1>4, PushCovered

LEMMA ClosePaneCovered ==
  ASSUME LawInv, Covered, NEW p \in Panes, ClosePane(p)
  PROVE  Covered'
<1>1. p \in DOMAIN world /\ Consistent(world)
  BY DEF ClosePane, LawInv, SessionLawful
<1>2. PICK pl \in Places : pl[1] = p /\ pl[2] = world[p].ws
  BY <1>1, PaneOf
<1>3. PICK e : e = Ev(KindPaneClosed, pl[1], pl[2], None, None, None)
  OBVIOUS
<1>4. e \in SessionEvents /\ e.kind = KindPaneClosed
  BY <1>3, EventsOfPlace DEF Ev
<1>5. Vanish({p}, e, NoEvent)
  BY <1>2, <1>3 DEF ClosePane
<1> QED
  BY <1>4, <1>5, VanishCovered

LEMMA CloseTabCovered ==
  ASSUME LawInv, Covered, NEW t \in Tabs, CloseTab(t)
  PROVE  Covered'
<1>1. InTab(t) # {} /\ SessionLawful
  BY DEF CloseTab, Vanish, LawInv
<1>2. PICK pl \in Places : pl[2] = wsOf(t) /\ pl[3] = t
  BY <1>1, TabOf
<1>3. PICK e, ew : /\ e = Ev(KindTabClosed, None, pl[2], pl[3], None, None)
                   /\ ew = Ev(KindWorkspaceClosed, None, pl[2], None, None, None)
  OBVIOUS
<1>4. /\ e \in SessionEvents /\ e.kind = KindTabClosed
      /\ ew \in SessionEvents /\ ew.kind = KindWorkspaceClosed
  BY <1>3, EventsOfPlace DEF Ev
<1>5. PICK e2 : e2 = Unless(In(world, wsOf(t)) # InTab(t), ew)
  OBVIOUS
<1>6. e2 \in SessionEvents \cup {NoEvent} /\ (e2 # NoEvent => e2 = ew)
  BY <1>4, <1>5 DEF Unless
<1>7. Vanish(InTab(t), e, e2)
  BY <1>2, <1>3, <1>5 DEF CloseTab
<1> QED
  BY <1>4, <1>6, <1>7, VanishCovered

LEMMA CloseWorkspaceCovered ==
  ASSUME LawInv, Covered, NEW w \in Workspaces, CloseWorkspace(w)
  PROVE  Covered'
<1>1. In(world, w) # {} /\ Consistent(world)
  BY DEF CloseWorkspace, Vanish, LawInv, SessionLawful
<1>2. PICK q \in DOMAIN world : world[q].ws = w
  BY <1>1 DEF In
<1>3. PICK pl \in Places : pl[2] = w
  BY <1>1, <1>2, PaneOf
<1>4. PICK e : e = Ev(KindWorkspaceClosed, None, pl[2], None, None, None)
  OBVIOUS
<1>5. e \in SessionEvents /\ e.kind = KindWorkspaceClosed
  BY <1>4, EventsOfPlace DEF Ev
<1>6. Vanish(In(world, w), e, NoEvent)
  BY <1>3, <1>4 DEF CloseWorkspace
<1> QED
  BY <1>5, <1>6, VanishCovered

LEMMA RenameTabCovered ==
  ASSUME LawInv, Covered, NEW t \in Tabs, RenameTab(t)
  PROVE  Covered'
<1>1. /\ t \in SnapTabs(world) /\ UNCHANGED <<used, world>>
      /\ UNCHANGED <<vars, stream, loop, scope, fetched>>
      /\ Push(Ev(KindTabRenamed, None, wsOf(t), t, None, None), NoEvent, NoEvent)
  BY DEF RenameTab, Changing, lvars
<1>2. \E p \in DOMAIN world : world[p].tab = t
  BY <1>1 DEF SnapTabs
<1>3. PICK p \in DOMAIN world : world[p].tab = t /\ wsOf(t) = world[p].ws
  BY <1>2 DEF wsOf
<1>4. PICK pl \in Places : pl[2] = world[p].ws /\ pl[3] = world[p].tab
  BY <1>3, PaneOf DEF LawInv, SessionLawful
<1> DEFINE e1 == Ev(KindTabRenamed, None, pl[2], pl[3], None, None)
<1>5. Push(e1, NoEvent, NoEvent)
  BY <1>1, <1>3, <1>4
<1>6. e1 \in SessionEvents /\ e1.kind = KindTabRenamed
  <2>1. e1 \in SessionEvents
    BY EventsOfPlace
  <2> QED
    BY <2>1 DEF Ev
<1> HIDE DEF e1
<1>7. NoEvent.kind = <<>> /\ <<>> \notin Kinds
  BY KindsDiffer DEF NoEvent, Ev
<1>8. \A q : ~About(e1, q) /\ ~About(NoEvent, q)
  BY <1>6, <1>7, KindsDiffer DEF About, Kinds
<1> QED
  BY <1>1, <1>5, <1>6, <1>8, PushCovered


\* An agent speaks: of a pane covered, its status is the last thing told.
LEMMA AgentChangesCovered ==
  ASSUME LawInv, Covered, NEW p \in Panes, NEW a \in Agents, NEW s \in AgentStates,
         AgentChanges(p, a, s)
  PROVE  Covered'
<1> SUFFICES ASSUME Following'
             PROVE  /\ Covers' \subseteq used'
                    /\ loop' = "apply" => scope' = DOMAIN fetched'
                    /\ \A q \in Covers' \cap DOMAIN world' : Told(q)'
  BY DEF Covered
<1>1. /\ p \in DOMAIN world /\ UNCHANGED used
      /\ world[p].agent # None => a = world[p].agent
      /\ world' = [world EXCEPT ![p].agent = a, ![p].status = s]
      /\ UNCHANGED <<vars, stream, loop, scope, fetched>>
      /\ Push(Unless(world[p].agent # None,
                     Ev(KindAgentDetected, p, world[p].ws, None, a, None)),
              Ev(KindAgentStatusChanged, p, world[p].ws, None, a, s), NoEvent)
  BY DEF AgentChanges, Changing, lvars
<1>2. SessionLawful /\ Consistent(world) /\ s \in Reported /\ a # None
  BY StatesAssumption, NoneAssumption DEF LawInv, SessionLawful
<1>3. /\ DOMAIN world' = DOMAIN world
      /\ \A q \in DOMAIN world : q # p => world'[q] = world[q]
      /\ world'[p].agent = a /\ world'[p].status = s
  <2>1. world[p] = [ws |-> world[p].ws, tab |-> world[p].tab, agent |-> world[p].agent,
                    status |-> world[p].status, session |-> world[p].session]
    BY <1>1, <1>2, PaneOf
  <2> QED
    BY <1>1, <2>1
<1>4. PICK pl \in Places : pl[1] = p /\ pl[2] = world[p].ws /\ pl[3] = world[p].tab
  BY <1>1, <1>2, PaneOf
<1> DEFINE ed == Ev(KindAgentDetected, pl[1], pl[2], None, a, None)
           es == Ev(KindAgentStatusChanged, pl[1], pl[2], None, a, s)
           e1 == Unless(world[p].agent # None, ed)
<1>5. Push(e1, es, NoEvent)
  BY <1>1, <1>4
<1>6. /\ ed \in SessionEvents /\ es \in SessionEvents
      /\ ed.kind = KindAgentDetected /\ ed.pane = p /\ ed.agent = a
      /\ es.kind = KindAgentStatusChanged /\ es.pane = p /\ es.agent = a /\ es.status = s
  <2>1. ed \in SessionEvents /\ es \in SessionEvents
    BY <1>2, EventsOfPlace
  <2> QED
    BY <1>4, <2>1 DEF Ev
<1> HIDE DEF ed, es
<1>7. e1 \in SessionEvents \cup {NoEvent} /\ (e1 = ed \/ e1 = NoEvent)
  BY <1>6 DEF Unless
<1>8. NoEvent.kind = <<>> /\ <<>> \notin Kinds /\ \A q : ~About(NoEvent, q)
  BY KindsDiffer DEF NoEvent, Ev, About, Kinds
<1> HIDE DEF e1
<1>9. stream = "open" /\ loop \in {"select", "apply"} /\ ~gap'
  BY <1>1, <1>5, PushFollowing
<1>10. /\ ~gap /\ events \in Seq(SessionEvents)
       /\ events' = Queued(Queued(Queued(events, e1), es), NoEvent)
  BY <1>5, <1>6, <1>7, <1>9, PushedQueue
<1>11. Following
  BY <1>9, <1>10 DEF Following
<1>12. Covers' = Covers /\ Listed' = Listed /\ Shown' = Shown /\ Held' = Held /\ Covers = scope
  BY <1>1, <1>9, SameShown DEF Covers
<1> DEFINE q1 == Queued(events, e1)
           q2 == Queued(q1, es)
<1>13. events' = q2
  BY <1>10 DEF Queued, Sends
<1>14. q1 \in Seq(SessionEvents)
  BY <1>7, <1>10, QueuedSeq
<1>15. ASSUME NEW q \in scope \cap DOMAIN world, q # p PROVE Told(q)'
  <2>1. q \in Listed /\ Reaches(events, q, Held, Shown[q].agent, Shown[q].status, world[q])
    BY <1>11, <1>12 DEF Covered, Told
  <2>2. ~About(e1, q) /\ ~About(es, q)
    BY <1>6, <1>7, <1>8, <1>15 DEF About
  <2>3. Reaches(q1, q, Held, Shown[q].agent, Shown[q].status, world[q])
    BY <1>7, <1>10, <2>1, <2>2, QueuedOther
  <2> HIDE DEF q1
  <2>4. Reaches(q2, q, Held, Shown[q].agent, Shown[q].status, world[q])
    BY <1>6, <1>14, <2>2, <2>3, QueuedOther
  <2> HIDE DEF q2
  <2> QED
    BY <1>3, <1>12, <1>13, <1>15, <2>1, <2>4 DEF Told
<1>16. ASSUME p \in scope PROVE Told(p)'
  <2>1. p \in Listed /\ Reaches(events, p, Held, Shown[p].agent, Shown[p].status, world[p])
    BY <1>1, <1>11, <1>12, <1>16 DEF Covered, Told
  <2>2. Tells(es, p) /\ Sends(es)
    BY <1>6, <1>8, <1>16, KindsDiffer DEF Tells, Sends, Kinds
  <2>3. ASSUME NEW i \in DOMAIN q1, About(q1[i], p) PROVE q1[i].agent = a
    <3>1. CASE i \in DOMAIN events /\ q1[i] = events[i]
      BY <1>1, <2>1, <2>3, <3>1 DEF Reaches
    <3>2. CASE q1[i] = e1
      BY <1>6, <1>7, <1>8, <2>3, <3>2
    <3>3. (i \in DOMAIN events /\ q1[i] = events[i]) \/ q1[i] = e1
      BY <1>10 DEF Queued
    <3> QED
      BY <3>1, <3>2, <3>3
  <2>4. q2 = Append(q1, es)
    BY <2>2 DEF Queued
  <2> HIDE DEF q1, q2
  <2>5. Reaches(Append(q1, es), p, Held, Shown[p].agent, Shown[p].status, world'[p])
    <3> DEFINE r == world'[p]
    <3>1. r.agent = a /\ r.status = s
      BY <1>3
    <3> HIDE DEF r
    <3>2. Reaches(Append(q1, es), p, Held, Shown[p].agent, Shown[p].status, r)
      BY <1>2, <1>6, <1>14, <2>2, <2>3, <3>1, ReachesTold
    <3> QED
      BY <3>2 DEF r
  <2> QED
    BY <1>12, <1>13, <2>1, <2>4, <2>5 DEF Told
<1> QED
  BY <1>1, <1>3, <1>11, <1>12, <1>15, <1>16 DEF Covered

\* The user looks: the done that is shown, or queued, may be.
LEMMA SeenCovered ==
  ASSUME LawInv, Covered, NEW p \in Panes, Seen(p)
  PROVE  Covered'
<1> SUFFICES ASSUME Following'
             PROVE  /\ Covers' \subseteq used'
                    /\ loop' = "apply" => scope' = DOMAIN fetched'
                    /\ \A q \in Covers' \cap DOMAIN world' : Told(q)'
  BY DEF Covered
<1>1. UNCHANGED <<events, gap>>
  BY NoEventRead DEF Seen, Receive, Unread
<1>2. /\ p \in DOMAIN world /\ UNCHANGED used /\ world[p].status = "done"
      /\ world' = [world EXCEPT ![p].status = "idle"]
      /\ UNCHANGED <<vars, stream, loop, scope, fetched>>
  BY DEF Seen, Changing, lvars
<1>3. "idle" \in Reported /\ world[p].agent \in Agents \cup {None} /\ SessionLawful
  BY <1>2, PaneOf, StatesAssumption DEF LawInv, SessionLawful
<1>4. /\ DOMAIN world' = DOMAIN world
      /\ \A q \in DOMAIN world : q # p => world'[q] = world[q]
      /\ world'[p].agent = world[p].agent /\ world'[p].status = "idle"
  <2>1. world[p] = [ws |-> world[p].ws, tab |-> world[p].tab, agent |-> world[p].agent,
                    status |-> world[p].status, session |-> world[p].session]
    BY <1>2, <1>3, PaneOf DEF SessionLawful
  <2> QED
    BY <1>2, <2>1
<1>5. Following
  BY <1>1, <1>2 DEF Following
<1>6. Covers' = Covers /\ Listed' = Listed /\ Shown' = Shown /\ Held' = Held
  BY <1>2, SameShown
<1>7. ASSUME NEW q \in Covers \cap DOMAIN world PROVE Told(q)'
  <2>1. q \in Listed /\ Reaches(events, q, Held, Shown[q].agent, Shown[q].status, world[q])
    BY <1>5 DEF Covered, Told
  <2>2. CASE q = p
    <3>1. Reaches(events, p, Held, Shown[p].agent, Shown[p].status, world'[p])
      BY <1>2, <1>4, <2>1, <2>2, ReachesSeen
    <3> QED
      BY <1>1, <1>6, <2>1, <2>2, <3>1 DEF Told
  <2>3. CASE q # p
    BY <1>1, <1>4, <1>6, <2>1, <2>3 DEF Told
  <2> QED
    BY <2>2, <2>3
<1> QED
  BY <1>2, <1>4, <1>5, <1>6, <1>7 DEF Covered

LEMMA HerdrCovered == LawInv /\ Covered /\ Herdr => Covered'
<1> SUFFICES ASSUME LawInv, Covered, Herdr PROVE Covered'
  OBVIOUS
<1>1. CASE \E i \in 1..EventCap : Disturb(i)
  BY <1>1 DEF Disturb, Covered, Following
<1>2. CASE Break
  <2>1. stream' = "broken" /\ UNCHANGED loop /\ stream # "none"
    BY <1>2 DEF Break, lvars
  <2>2. ~Following'
    BY <2>1 DEF LawInv, Following
  <2> QED
    BY <2>2 DEF Covered
<1>3. CASE Register
  <2>1. UNCHANGED <<vars, world, used, events, gap, loop, scope, fetched>> /\ stream = "sent"
    BY <1>3, NoEventRead DEF Register, Receive, Unread, hvars, lvars
  <2>2. Following' => Following
    BY <2>1 DEF Following
  <2>3. Covers' = Covers /\ Listed' = Listed /\ Shown' = Shown /\ Held' = Held
    BY <2>1, SameShown
  <2> QED
    BY <2>1, <2>2, <2>3 DEF Covered, Told
<1> QED
  BY <1>1, <1>2, <1>3, OpenPaneCovered, ClosePaneCovered, CloseTabCovered, CloseWorkspaceCovered,
     SeenCovered, AgentChangesCovered, RenameTabCovered DEF Herdr


-----------------------------------------------------------------------------
(* The same, as the loop handles the events.                               *)

\* An event handled shows of a pane of the session what it says of it.
LEMMA HandleShows ==
  ASSUME WellFormed, PanesFit(panes), AgentsFit(agents), NEW e, Lawful(e), Handle(e),
         e.kind = KindPaneCreated => e.pane \notin DOMAIN panes,
         NEW p \in DOMAIN world \cap DOMAIN panes
  PROVE  /\ p \in DOMAIN panes'
         /\ panes'[p].agent = IF About(e, p) THEN e.agent ELSE panes[p].agent
         /\ panes'[p].status = IF Tells(e, p) THEN e.status ELSE panes[p].status
         /\ p \in Live(agents') <=> p \in Live(agents) \/ Tells(e, p)
<1>1. p \notin Closed(panes) /\ p \notin Closed(agents)
  BY DEF PanesFit, AgentsFit, Closed, Live
<1>2. panes[p] \in PaneRecord
  BY DEF WellFormed
<1>3. CASE e.kind \in {KindWorkspaceClosed, KindTabClosed, KindPaneClosed}
  <2>1. PICK T, P, A : /\ CloseAll(T, P, A) /\ P \cap DOMAIN panes \cap DOMAIN world = {}
                       /\ A \cap DOMAIN agents \cap DOMAIN world = {}
    BY <1>3, ClosesSpare
  <2>2. DOMAIN panes' = DOMAIN panes /\ panes'[p] = panes[p]
    BY <2>1 DEF CloseAll, Close
  <2>3. DOMAIN agents' = DOMAIN agents /\ (p \in DOMAIN agents => agents'[p] = agents[p])
    BY <2>1 DEF CloseAll
  <2>4. ~About(e, p) /\ ~Tells(e, p)
    BY <1>3, KindsDiffer DEF About, Tells
  <2> QED
    BY <2>2, <2>3, <2>4 DEF Live
<1>4. CASE e.kind \in {KindWorkspaceCreated, KindTabCreated, KindTabRenamed, KindPaneCreated}
  <2>1. ~About(e, p) /\ ~Tells(e, p)
    BY <1>4, KindsDiffer DEF About, Tells
  <2>2. UNCHANGED agents
    BY <1>4, KindsDiffer DEF Handle, ApplyWorkspaceCreated, ApplyTabCreated, ApplyTabRenamed,
                             ApplyPaneCreated
  <2>3. p \in DOMAIN panes' /\ panes'[p] = panes[p]
    <3>1. CASE UNCHANGED panes
      BY <3>1
    <3>2. CASE e.kind = KindPaneCreated /\ panes' = Put(panes, e.pane, [NewPane EXCEPT !.ws = e.ws, !.tab = e.tab])
      BY <3>2 DEF Put
    <3> QED
      BY <1>4, <3>1, <3>2, KindsDiffer
         DEF Handle, ApplyWorkspaceCreated, ApplyTabCreated, ApplyTabRenamed, ApplyPaneCreated
  <2> QED
    BY <2>1, <2>2, <2>3
<1>5. CASE e.kind = KindAgentDetected
  <2> DEFINE r == [At(panes, e.pane, NewPane) EXCEPT !.agent = e.agent]
  <2>1. ~Tells(e, p) /\ (About(e, p) <=> e.pane = p)
    BY <1>5, KindsDiffer DEF About, Tells
  <2>2. UNCHANGED agents /\ (panes' = Put(panes, e.pane, r) \/ (e.pane # p /\ UNCHANGED panes))
    BY <1>1, <1>5, KindsDiffer DEF Handle, ApplyAgentDetected
  <2>3. e.pane = p => r.agent = e.agent /\ r.status = panes[p].status
    BY <1>2 DEF At, PaneRecord
  <2> HIDE DEF r
  <2>4. p \in DOMAIN panes' /\ panes'[p] = IF e.pane = p THEN r ELSE panes[p]
    BY <2>2 DEF Put
  <2> QED
    BY <2>1, <2>2, <2>3, <2>4
<1>6. CASE e.kind = KindAgentStatusChanged
  <2> DEFINE r == Updated(e.pane, e.ws, e.agent, e.status)
  <2>1. (Tells(e, p) <=> e.pane = p) /\ (About(e, p) <=> e.pane = p)
    BY <1>6, KindsDiffer DEF About, Tells
  <2>2. ApplyAgentStatusChanged(e.pane, e.ws, e.agent, e.status)
    BY <1>6, KindsDiffer DEF Handle
  <2>3. \/ /\ panes' = Put(panes, e.pane, r)
           /\ \/ UNCHANGED agents /\ e.pane \in DOMAIN agents
              \/ \E n : n.closedAt = Zero /\ agents' = Put(agents, e.pane, n)
        \/ e.pane # p /\ UNCHANGED <<panes, agents>>
    <3>1. CASE e.pane \in Closed(panes) \cup Closed(agents)
      BY <1>1, <2>2, <3>1 DEF ApplyAgentStatusChanged, StatusAbsorbed, StatusFirstSeen,
                              StatusRepeated, StatusTransition, UpsertPane
    <3>2. CASE e.pane \notin Closed(panes) \cup Closed(agents)
      BY <2>2, <3>2, StatusPuts
    <3> QED
      BY <3>1, <3>2
  <2>4. e.pane = p => r.agent = e.agent /\ r.status = e.status
    BY <1>2 DEF At, PaneRecord, Updated
  <2> HIDE DEF r
  <2>6. p \in DOMAIN panes' /\ panes'[p] = IF e.pane = p THEN r ELSE panes[p]
    BY <2>3 DEF Put
  <2>7. p \in Live(agents') <=> p \in Live(agents) \/ e.pane = p
    <3>1. CASE UNCHANGED agents /\ (e.pane = p => p \in DOMAIN agents)
      BY <1>1, <3>1 DEF Live, Closed
    <3>2. ASSUME NEW n, n.closedAt = Zero, agents' = Put(agents, e.pane, n)
          PROVE  p \in Live(agents') <=> p \in Live(agents) \/ e.pane = p
      <4>1. /\ DOMAIN agents' = DOMAIN agents \cup {e.pane}
            /\ \A q \in DOMAIN agents' : agents'[q] = IF q = e.pane THEN n ELSE agents[q]
        BY <3>2 DEF Put
      <4> QED
        BY <3>2, <4>1 DEF Live
    <3> QED
      BY <2>3, <3>1, <3>2
  <2> QED
    BY <2>1, <2>4, <2>6, <2>7
<1>7. e.kind \in Kinds
  BY DEF Lawful, Possible
<1> QED
  BY <1>3, <1>4, <1>5, <1>6, <1>7 DEF Kinds

LEMMA TakeEventCovered ==
  ASSUME WellFormed, LawInv, Track, Covered, TakeEvent
  PROVE  Covered'
<1> SUFFICES ASSUME Following'
             PROVE  /\ Covers' \subseteq used'
                    /\ loop' = "apply" => scope' = DOMAIN fetched'
                    /\ \A p \in Covers' \cap DOMAIN world' : Told(p)'
  BY DEF Covered
<1>1. /\ loop = "select" /\ events # <<>> /\ Handle(Head(events)) /\ events' = Tail(events)
      /\ UNCHANGED <<world, used, stream, scope, loop, gap>>
  BY DEF TakeEvent, hvars, lvars
<1>2. Following
  BY <1>1 DEF Following
<1>3. PICK e : e = Head(events)
  OBVIOUS
<1>4. events \in Seq(LawfulEvents)
  BY DEF LawInv
<1>5. Lawful(e)
  <2>1. e \in LawfulEvents
    BY <1>1, <1>3, <1>4, HeadTailProperties
  <2> QED
    BY <2>1 DEF LawfulEvents
<1>6. e.kind = KindPaneCreated => e.pane \notin DOMAIN panes
  <2>1. PICK G, H : Tracks(G) /\ Leads(events, G, H)
    BY <1>1, <1>2 DEF Track, Starts
  <2>2. Before(G, e)
    BY <1>1, <1>3, <1>4, <2>1, LeadsNext
  <2> QED
    BY <2>1, <2>2 DEF Tracks, Before
<1>7. PanesFit(panes) /\ AgentsFit(agents)
  BY TrackerFits DEF LawInv
<1>8. TrackerLawful'
  BY TakeEventLaw DEF LawInv
<1>9. PanesFit(panes')
  BY <1>1, <1>8, TrackerFits
<1>10. ASSUME NEW p \in scope \cap DOMAIN world PROVE Told(p)'
  <2>1. /\ p \in Live(panes)
        /\ Reaches(events, p, Live(agents), panes[p].agent, panes[p].status, world[p])
    BY <1>1, <1>2 DEF Covered, Covers, Told, Listed, Shown, Held
  <2>2. p \in DOMAIN panes
    BY <2>1 DEF Live
  <2>3. /\ p \in DOMAIN panes'
        /\ panes'[p].agent = IF About(e, p) THEN e.agent ELSE panes[p].agent
        /\ panes'[p].status = IF Tells(e, p) THEN e.status ELSE panes[p].status
        /\ p \in Live(agents') <=> p \in Live(agents) \/ Tells(e, p)
    BY <1>1, <1>3, <1>5, <1>6, <1>7, <2>2, HandleShows
  <2>4. p \in Live(panes')
    BY <1>9, <2>3 DEF PanesFit, Live
  <2>5. Reaches(Tail(events), p, Live(agents'), IF About(e, p) THEN e.agent ELSE panes[p].agent,
                IF Tells(e, p) THEN e.status ELSE panes[p].status, world[p])
    BY <1>1, <1>3, <1>4, <2>1, <2>3, ReachesNext
  <2>6. Reaches(events', p, Live(agents'), panes'[p].agent, panes'[p].status, world'[p])
    BY <1>1, <2>3, <2>5
  <2> QED
    BY <1>1, <2>4, <2>6 DEF Told, Listed, Shown, Held, Live
<1> QED
  BY <1>1, <1>2, <1>10 DEF Covered, Covers

\* With nothing queued, what the session says is what is shown.
LEMMA FetchCovered ==
  ASSUME LawInv, FetchSnapshot
  PROVE  Covered'
<1>1. /\ loop' = "subscribe" /\ fetched' = world /\ events' = <<>>
      /\ UNCHANGED <<world, used>>
  BY DEF FetchSnapshot, LawInv, hvars, svars
<1>2. DOMAIN world \subseteq used
  BY DEF LawInv, SessionLawful
<1>3. ASSUME NEW p \in DOMAIN world PROVE Told(p)'
  <2> DEFINE held == {q \in DOMAIN world : world[q].agent # None}
             q == <<>>
  <2>1. DOMAIN q = {}
    OBVIOUS
  <2> HIDE DEF q
  <2>2. Reaches(q, p, held, world[p].agent, world[p].status, world[p])
    BY <2>1 DEF Reaches, LastTold, Agrees
  <2> HIDE DEF held
  <2>3. Reaches(<<>>, p, held, world[p].agent, world[p].status, world[p])
    BY <2>2 DEF q
  <2>4. Held' = held
    BY <1>1 DEF Held, held
  <2> QED
    BY <1>1, <2>3, <2>4 DEF Told, Listed, Shown
<1> QED
  BY <1>1, <1>2, <1>3 DEF Covered, Covers

LEMMA SubscribeCovered ==
  ASSUME LawInv, Covered, Subscribe
  PROVE  Covered'
<1>1. /\ loop = "subscribe" /\ loop' = "apply" /\ UNCHANGED <<world, used, fetched>>
      /\ scope' = DOMAIN fetched
  BY DEF Subscribe, hvars
<1>2. UNCHANGED <<events, gap>>
  BY DEF Subscribe
<1>3. Following' => Following
  BY <1>1, <1>2 DEF Following
<1>4. Covers' = Covers /\ Listed' = Listed /\ Shown' = Shown /\ Held' = Held
  BY <1>1 DEF Covers, Listed, Shown, Held
<1>5. \A p \in DOMAIN world : Told(p) => Told(p)'
  BY <1>1, <1>2, <1>4 DEF Told
<1> QED
  BY <1>1, <1>3, <1>4, <1>5 DEF Covered

LEMMA BaselineCovered ==
  ASSUME WellFormed, Covered, Baseline
  PROVE  Covered'
<1> SUFFICES ASSUME Following'
             PROVE  /\ Covers' \subseteq used'
                    /\ loop' = "apply" => scope' = DOMAIN fetched'
                    /\ \A p \in Covers' \cap DOMAIN world' : Told(p)'
  BY DEF Covered
<1>1. /\ loop = "apply" /\ loop' = "select" /\ ApplySnapshot(fetched)
      /\ UNCHANGED <<world, used, stream, scope, events, gap>>
  BY DEF Baseline, hvars, svars
<1>2. Following
  BY <1>1 DEF Following
<1>3. /\ Live(panes') = DOMAIN fetched
      /\ \A p \in DOMAIN fetched : /\ panes'[p].agent = fetched[p].agent
                                   /\ panes'[p].status = fetched[p].status
      /\ Live(agents') = {p \in DOMAIN fetched : fetched[p].agent # None}
  BY <1>1, SnapshotShows
<1>4. ASSUME NEW p \in scope \cap DOMAIN world PROVE Told(p)'
  <2>1. /\ p \in DOMAIN fetched
        /\ Reaches(events, p, {q \in DOMAIN fetched : fetched[q].agent # None},
                   fetched[p].agent, fetched[p].status, world[p])
    BY <1>1, <1>2 DEF Covered, Covers, Told, Listed, Shown, Held
  <2>2. Reaches(events', p, Live(agents'), panes'[p].agent, panes'[p].status, world'[p])
    BY <1>1, <1>3, <2>1
  <2> QED
    BY <1>1, <1>3, <2>1, <2>2 DEF Told, Listed, Shown, Held, Live
<1> QED
  BY <1>1, <1>2, <1>4 DEF Covered, Covers

\* A flip is of a done that, if no status is queued, was seen.
LEMMA ReportFlipCovered ==
  ASSUME WellFormed, Track, Covered, NEW p, ReportFlip(p)
  PROVE  Covered'
<1> SUFFICES ASSUME Following'
             PROVE  /\ Covers' \subseteq used'
                    /\ loop' = "apply" => scope' = DOMAIN fetched'
                    /\ \A q \in Covers' \cap DOMAIN world' : Told(q)'
  BY DEF Covered
<1>1. /\ ApplySeenFlip(p) /\ gap' = (gap \/ StillDone(p))
      /\ UNCHANGED <<world, used, stream, scope, events, loop, fetched>>
  BY DEF ReportFlip, hvars, svars, lvars
<1>2. Following /\ ~StillDone(p)
  BY <1>1 DEF Following
<1>3. Covers' = Covers
  BY <1>1 DEF Covers
<1>4. CASE loop # "select" \/ UNCHANGED <<panes, agents>>
  <2>1. Listed' = Listed /\ Shown' = Shown /\ Held' = Held
    BY <1>1, <1>4 DEF Listed, Shown, Held, Live
  <2> QED
    BY <1>1, <1>2, <1>3, <2>1 DEF Covered, Told
<1>5. CASE loop = "select" /\ p \in InState(Live(agents), "done")
  <2>1. AgentsFollow
    BY <1>2, <1>5 DEF Track
  <2>2. p \in Live(panes) /\ p \in DOMAIN panes /\ panes[p].status = "done"
    BY <1>5, <2>1 DEF AgentsFollow, InState, Live
  <2>3. panes[p] \in PaneRecord
    BY <2>2 DEF WellFormed
  <2>4. /\ p \in Live(agents) /\ Move(p, agents[p].ws, "idle")
        /\ panes' = [panes EXCEPT ![p].status = "idle"]
    BY <1>1, <1>5, <2>2 DEF ApplySeenFlip, InState
  <2>5. Live(agents') = Live(agents)
    <3>1. PICK n : n.closedAt = Zero /\ agents' = Put(agents, p, n)
      BY <2>4, MovesPut
    <3> QED
      BY <2>4, <3>1 DEF Live, Put
  <2>6. /\ DOMAIN panes' = DOMAIN panes
        /\ \A q \in DOMAIN panes : q # p => panes'[q] = panes[q]
        /\ panes'[p].agent = panes[p].agent /\ panes'[p].status = "idle"
        /\ panes'[p].closedAt = panes[p].closedAt
    BY <2>2, <2>3, <2>4 DEF PaneRecord
  <2>7. Live(panes') = Live(panes)
    BY <2>2, <2>6 DEF Live
  <2>8. ASSUME NEW q \in scope \cap DOMAIN world PROVE Told(q)'
    <3>1. /\ q \in Live(panes)
          /\ Reaches(events, q, Live(agents), panes[q].agent, panes[q].status, world[q])
      BY <1>2, <1>5 DEF Covered, Covers, Told, Listed, Shown, Held
    <3>2. CASE q = p
      <4>1. ~(world[p].status = "done" /\ Untold(events, p))
        BY <1>2, <2>8, <3>2 DEF StillDone, Untold, Tells
      <4>2. Reaches(events, p, Live(agents), panes[p].agent, "idle", world[p])
        BY <2>2, <3>1, <3>2, <4>1, ReachesFlipped
      <4>3. Reaches(events', p, Live(agents'), panes'[p].agent, panes'[p].status, world'[p])
        BY <1>1, <2>5, <2>6, <4>2
      <4> QED
        BY <1>1, <1>5, <2>5, <2>7, <3>1, <3>2, <4>3 DEF Told, Listed, Shown, Held, Live
    <3>3. CASE q # p
      <4>1. panes'[q] = panes[q]
        BY <2>6, <3>1, <3>3 DEF Live
      <4>2. Reaches(events', q, Live(agents'), panes'[q].agent, panes'[q].status, world'[q])
        BY <1>1, <2>5, <3>1, <4>1
      <4> QED
        BY <1>1, <1>5, <2>5, <2>7, <3>1, <4>2 DEF Told, Listed, Shown, Held, Live
    <3> QED
      BY <3>2, <3>3
  <2> QED
    BY <1>1, <1>2, <1>5, <2>8 DEF Covered, Covers
<1> QED
  BY <1>1, <1>4, <1>5 DEF ApplySeenFlip

LEMMA CoveredStep ==
  WellFormed /\ LawInv /\ Track /\ Covered /\ [ObservrNext]_ovars => Covered'
<1> SUFFICES ASSUME WellFormed, LawInv, Track, Covered, [ObservrNext]_ovars PROVE Covered'
  OBVIOUS
<1>1. CASE CloseOld
  BY <1>1 DEF CloseOld, Covered, Following
<1>2. CASE ReconcileFetch \/ ReconcileDiff \/ ReportDrift \/ UNCHANGED ovars
  <2>1. UNCHANGED <<vars, world, used, stream, scope, events, loop, fetched, gap>>
    BY <1>2 DEF ReconcileFetch, ReconcileDiff, ReportDrift, ovars, hvars, svars, lvars
  <2>2. Covers' = Covers /\ Listed' = Listed /\ Shown' = Shown /\ Held' = Held
    BY <2>1, SameShown
  <2>3. Following' => Following
    BY <2>1 DEF Following
  <2> QED
    BY <2>1, <2>2, <2>3 DEF Covered, Told
<1>3. CASE Herdr
  BY <1>3, HerdrCovered
<1>4. CASE TakeEvent
  BY <1>4, TakeEventCovered
<1>5. CASE FetchSnapshot \/ Subscribe \/ Baseline
  BY <1>5, FetchCovered, SubscribeCovered, BaselineCovered
<1>6. CASE \E p \in Panes : ReportFlip(p)
  BY <1>6, ReportFlipCovered
<1>7. CASE Return
  BY <1>7 DEF Return, Covered, Following
<1> QED
  BY <1>1, <1>2, <1>3, <1>4, <1>5, <1>6, <1>7
     DEF ObservrNext, Loop, Reconcile, StreamError, Resubscribe

-----------------------------------------------------------------------------
(* At the end of the queue the track has no length.                        *)

LEMMA TracksEnd ==
  ASSUME LawInv, Track, Covered
  PROVE  EventSourced
<1> SUFFICES ASSUME loop = "select", stream = "open", events = <<>>, ~gap
             PROVE  /\ workspaces = SnapWorkspaces(world)
                    /\ Live(tabs) = SnapTabs(world)
                    /\ Live(panes) = DOMAIN world
                    /\ \A p \in scope \cap DOMAIN world :
                         /\ p \in Live(agents) <=> world[p].agent # None
                         /\ p \in Live(agents) => agents[p].status = panes[p].status
                         /\ panes[p].agent = world[p].agent
                         /\ \/ panes[p].status = world[p].status
                            \/ SilentFlip(world, p)
  BY DEF EventSourced
<1>1. Following
  BY DEF Following
<1>2. PICK G, H : Tracks(G) /\ Leads(<<>>, G, H) /\ Outlines(H, world)
  BY <1>1 DEF Track, Starts, Ends
<1>3. Tracks(G) /\ Outlines(G, world)
  BY <1>2, LeadsNone
<1>4. /\ workspaces = SnapWorkspaces(world) /\ Live(tabs) = SnapTabs(world)
      /\ Live(panes) = DOMAIN world
  BY <1>3 DEF Tracks, Outlines
<1>5. ASSUME NEW p \in scope \cap DOMAIN world
      PROVE  /\ p \in Live(agents) <=> world[p].agent # None
             /\ p \in Live(agents) => agents[p].status = panes[p].status
             /\ panes[p].agent = world[p].agent
             /\ \/ panes[p].status = world[p].status
                \/ SilentFlip(world, p)
  <2>1. Reaches(events, p, Live(agents), panes[p].agent, panes[p].status, world[p])
    BY <1>1 DEF Covered, Covers, Told, Shown, Held
  <2>2. DOMAIN events = {}
    OBVIOUS
  <2>3. /\ panes[p].agent = world[p].agent /\ Agrees(panes[p].status, world[p])
        /\ p \in Live(agents) <=> world[p].agent # None
    BY <2>1, <2>2 DEF Reaches, Unspoken, Untold
  <2>4. p \in Live(agents) => agents[p].status = panes[p].status
    BY <1>1 DEF Track, AgentsFollow
  <2> QED
    BY <2>3, <2>4 DEF Agrees, SilentFlip
<1> QED
  BY <1>4, <1>5

\* While no event was lost since the last snapshot, an idle loop has the session
\* right: the same workspaces, tabs and panes, and of every pane it covers the
\* agent and its status, but for a done it cannot know to have been seen. So the
\* snapshot taken before the subscription, the events queued since, applied in
\* their order, and the seen-flips of a concurrent goroutine make no error
\* between them, whatever ids the session uses and however long the queue is.
THEOREM EventsSuffice == ObservrSpec => []EventSourced
<1>1. ObservrInit => Covered
  BY DEF ObservrInit, Covered, Following
<1>2. AppInv /\ Track /\ Covered /\ [ObservrNext]_ovars => Covered'
  BY CoveredStep DEF AppInv
<1>3. AppInv /\ Track /\ Covered => EventSourced
  BY TracksEnd DEF AppInv
<1> QED
  BY <1>1, <1>2, <1>3, AppAlways, TrackAlways, PTL DEF ObservrSpec
=============================================================================
