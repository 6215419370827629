------------------------------- MODULE Frames --------------------------------
(***************************************************************************)
(* internal/events/event.go: what Herdr writes on the stream, and what     *)
(* parseFrame makes of it. No state: operators for module Observr.         *)
(*                                                                         *)
(* A name is its words and separators, <<"pane", ".", "created">>; JSON is *)
(* left out, as are labels and the raw frame.                              *)
(***************************************************************************)
CONSTANT None  \* Go's zero string

KindWorkspaceCreated   == <<"workspace", "_", "created">>
KindWorkspaceClosed    == <<"workspace", "_", "closed">>
KindTabCreated         == <<"tab", "_", "created">>
KindTabClosed          == <<"tab", "_", "closed">>
KindTabRenamed         == <<"tab", "_", "renamed">>
KindPaneCreated        == <<"pane", "_", "created">>
KindPaneClosed         == <<"pane", "_", "closed">>
KindAgentDetected      == <<"pane", "_", "agent_detected">>
KindAgentStatusChanged == <<"pane", "_", "agent_status_changed">>

Kinds == {KindWorkspaceCreated, KindWorkspaceClosed, KindTabCreated, KindTabClosed,
          KindTabRenamed, KindPaneCreated, KindPaneClosed, KindAgentDetected,
          KindAgentStatusChanged}

Ids(p, w, t) == [pane |-> p, ws |-> w, tab |-> t]

\* A NormalizedEvent.
Ev(kind, p, w, t, a, s) ==
  [kind |-> kind, pane |-> p, ws |-> w, tab |-> t, agent |-> a, status |-> s]

NoEvent == Ev(<<>>, None, None, None, None, None)

\* A wireFrame: name is <<>> when there is no "event"; objects are the entity
\* objects of the payload that are present, flat the ids beside them.
Frame(ack, name, objects, flat, a, s) ==
  [ack |-> ack, event |-> name, objects |-> objects, flat |-> flat,
   agent |-> a, status |-> s]

NoObjects == <<>>
NoIds == Ids(None, None, None)

Ack == Frame(TRUE, <<>>, NoObjects, NoIds, None, None)

-----------------------------------------------------------------------------
(* Herdr's side: created events carry whole entity objects, a close of a   *)
(* workspace both, all others flat ids; the status event alone is dotted,  *)
(* and names its tab or not.                                               *)

Object(ev) ==
  CASE ev.kind \in {KindWorkspaceCreated, KindWorkspaceClosed} ->
         [o \in {"workspace"} |-> Ids(None, ev.ws, None)]
    [] ev.kind = KindTabCreated -> [o \in {"tab"} |-> Ids(None, ev.ws, ev.tab)]
    [] ev.kind = KindPaneCreated -> [o \in {"pane"} |-> Ids(ev.pane, ev.ws, ev.tab)]
    [] OTHER -> NoObjects

Flat(ev) ==
  IF ev.kind \in {KindWorkspaceCreated, KindTabCreated, KindPaneCreated}
    THEN NoIds ELSE Ids(ev.pane, ev.ws, ev.tab)

Name(kind) ==
  IF kind = KindAgentStatusChanged THEN <<"pane", ".", "agent_status_changed">> ELSE kind

Wire(ev) == Frame(FALSE, Name(ev.kind), Object(ev), Flat(ev), ev.agent, ev.status)

\* A frame nobody subscribed to, sent anyway.
Unscoped(p, w) ==
  Frame(FALSE, <<"pane", ".", "scroll_changed">>, NoObjects, Ids(p, w, None), None, None)

-----------------------------------------------------------------------------
(* parseFrame.                                                             *)

\* An id of an entity object, if that is present.
Nested(f, object, field, before) ==
  IF object \in DOMAIN f.objects THEN f.objects[object][field] ELSE before

\* The id of the last of the objects that is present, or else the flat one.
Id(f, field) ==
  LET nested == Nested(f, "pane", field, Nested(f, "tab", field,
                  Nested(f, "workspace", field, None)))
  IN IF nested = None THEN f.flat[field] ELSE nested

Collapse(name) == [i \in DOMAIN name |-> IF name[i] = "." THEN "_" ELSE name[i]]

Class(f) ==
  CASE f.event = <<>> -> IF f.ack THEN "ack" ELSE "unknown"
    [] f.event # <<>> -> IF Collapse(f.event) \in Kinds THEN "event" ELSE "unrecognized"

Normalized(f) ==
  Ev(Collapse(f.event), Id(f, "pane"), Id(f, "ws"), Id(f, "tab"), f.agent, f.status)

\* Only a recognized event is queued.
parseFrame(f) == IF Class(f) = "event" THEN Normalized(f) ELSE NoEvent
=============================================================================
