---------------------- MODULE Replication_agreement_proofs ----------------------
(***************************************************************************)
(* That a replica which has handled every event has what the compositor has: *)
(* the last event about anything tells what the compositor has now, and what *)
(* no event is about has not changed since it was asked for.               *)
(***************************************************************************)
EXTENDS Replication_proofs

-------------------------------------------------------------------------------
(* What is still to come *)

\* Of A, the places where something is set, those in R set it right.  It is right
\* after place i and stays so: a wrong place is followed by another, up to i.
Settled(A, R, i) == \A k \in A : k \in R \/ \E j \in A : k < j /\ j <= i

\* In all that follows the events of history h after the first n are still to come,
\* and place n stands for what an engine has before them.

AboutWindow(ev, id) ==
    \/ ev.type = "WindowsChanged"
    \/ ev.type \in {"WindowOpenedOrChanged", "WindowClosed"} /\ ev.id = id

\* The list has of window id what world w has.
Shows(list, id, w) ==
    IF id \in DOMAIN w.where
    THEN id \in DOMAIN list /\ list[id] = WindowList(w)[id]
    ELSE id \notin DOMAIN list

TellsWindow(ev, id, w) ==
    \/ ev.type = "WindowsChanged" /\ Shows(ev.list, id, w)
    \/ /\ ev.type = "WindowOpenedOrChanged" /\ ev.id = id
       /\ id \in DOMAIN w.where /\ ev.window = WindowList(w)[id]
    \/ ev.type = "WindowClosed" /\ ev.id = id /\ id \notin DOMAIN w.where

WindowAt(h, n, id) == {k \in n..Len(h) : k = n \/ AboutWindow(h[k], id)}
WindowRight(list, h, n, w, id) ==
    {k \in n..Len(h) : IF k = n THEN Shows(list, id, w) ELSE TellsWindow(h[k], id, w)}

\* From place i on window id is, and stays, what it is in w.
Steady(list, h, n, w, id, i) ==
    id # None => Settled(WindowAt(h, n, id), WindowRight(list, h, n, w, id), i)

WindowsFollow(e, h, n, w) ==
    \A id \in Windows : Steady(e.windows, h, n, w, id, Len(h))

\* The workspaces there are, and their output.
SameWorkspaces(list, w) ==
    /\ DOMAIN list = DOMAIN w.active
    /\ \A ws \in DOMAIN list : list[ws].output = w.output[ws]

TellsWorkspaces(ev, w) == ev.type = "WorkspacesChanged" /\ SameWorkspaces(ev.list, w)

ListAt(h, n) == {k \in n..Len(h) : k = n \/ h[k].type = "WorkspacesChanged"}
ListRight(e, h, n, w) ==
    {k \in n..Len(h) : IF k = n THEN SameWorkspaces(e.workspaces, w)
                       ELSE TellsWorkspaces(h[k], w)}

WorkspacesFollow(e, h, n, w) == Settled(ListAt(h, n), ListRight(e, h, n, w), Len(h))

\* The flags of the workspaces of output o: an activation sets them, and those of no
\* other output, so that a workspace shown there may keep the focus it had.
OnOutput(w, ws, o) == ws \in DOMAIN w.output /\ w.output[ws] = o
SameFlags(list, o, w) ==
    \A ws \in DOMAIN list : OnOutput(w, ws, o) =>
        /\ list[ws].is_active <=> ws \in w.shown
        /\ list[ws].is_focused => ws \in w.shown
        /\ ws = w.focused => list[ws].is_focused
AboutFlags(ev, o, w) ==
    \/ ev.type = "WorkspacesChanged"
    \/ ev.type = "WorkspaceActivated" /\ OnOutput(w, ev.id, o)
TellsFlags(ev, o, w) ==
    \/ ev.type = "WorkspacesChanged" /\ SameFlags(ev.list, o, w)
    \/ /\ ev.type = "WorkspaceActivated" /\ OnOutput(w, ev.id, o)
       /\ ev.id \in w.shown /\ (ev.id = w.focused => ev.focused)

FlagsAt(h, n, o, w) == {k \in n..Len(h) : k = n \/ AboutFlags(h[k], o, w)}
FlagsRight(e, h, n, o, w) ==
    {k \in n..Len(h) : IF k = n THEN SameFlags(e.workspaces, o, w)
                       ELSE TellsFlags(h[k], o, w)}

FlagsFollow(e, h, n, w) ==
    \A o \in Outputs : Settled(FlagsAt(h, n, o, w), FlagsRight(e, h, n, o, w), Len(h))

\* The focused window, which reconcile forgets if it is not there.
AboutFocus(ev) ==
    \/ ev.type = "WindowFocusChanged"
    \/ ev.type = "WindowOpenedOrChanged" /\ ev.focused
TellsFocus(ev, w) == AboutFocus(ev) /\ ev.id = Focused(w)

FocusAt(h, n) == {k \in n..Len(h) : k = n \/ AboutFocus(h[k])}
FocusRight(e, h, n, w) ==
    {k \in n..Len(h) :
        /\ IF k = n THEN e.focused_window_id = Focused(w) ELSE TellsFocus(h[k], w)
        /\ Steady(e.windows, h, n, w, Focused(w), k)}

FocusFollows(e, h, n, w) == Settled(FocusAt(h, n), FocusRight(e, h, n, w), Len(h))

\* The active window of workspace ws, which reconcile erases if it is not there.
SameActive(list, ws, w) ==
    ws \in DOMAIN list => list[ws].active_window_id = w.active[ws]
AboutActive(ev, ws) ==
    \/ ev.type = "WorkspacesChanged"
    \/ ev.type = "WorkspaceActiveWindowChanged" /\ ev.id = ws
TellsActive(ev, ws, w) ==
    \/ ev.type = "WorkspacesChanged" /\ SameActive(ev.list, ws, w)
    \/ ev.type = "WorkspaceActiveWindowChanged" /\ ev.id = ws /\ ev.window = w.active[ws]

ActiveAt(h, n, ws) == {k \in n..Len(h) : k = n \/ AboutActive(h[k], ws)}
ActiveRight(e, h, n, w, ws) ==
    {k \in n..Len(h) :
        /\ IF k = n THEN SameActive(e.workspaces, ws, w) ELSE TellsActive(h[k], ws, w)
        /\ Steady(e.windows, h, n, w, w.active[ws], k)}

ActiveFollows(e, h, n, w) ==
    \A ws \in DOMAIN w.active :
        Settled(ActiveAt(h, n, ws), ActiveRight(e, h, n, w, ws), Len(h))

\* If reconcile erases it, there is none, but no old one.
Fresh(list, ws, w) ==
    ws \in DOMAIN list => list[ws].active_window_id \in {w.active[ws], None}
FreshRight(e, h, n, w, ws) ==
    {k \in n..Len(h) : IF k = n THEN Fresh(e.workspaces, ws, w)
                       ELSE TellsActive(h[k], ws, w)}

ActiveFresh(e, h, n, w) ==
    \A ws \in DOMAIN w.active :
        Settled(ActiveAt(h, n, ws), FreshRight(e, h, n, w, ws), Len(h))

\* After the events to come, engine e has what world w has: the active windows too,
\* if events about windows come before those about workspaces.
Follows(e, h, n, w) ==
    /\ WindowsFollow(e, h, n, w) /\ WorkspacesFollow(e, h, n, w)
    /\ FlagsFollow(e, h, n, w) /\ FocusFollows(e, h, n, w)
    /\ ActiveFresh(e, h, n, w)
    /\ ~workspacesFirst => ActiveFollows(e, h, n, w)

\* What the engine would be built from if the other queries were answered now.
Asked ==
    [windows |-> IF "windows" \in DOMAIN answers THEN answers["windows"]
                 ELSE WindowList(world),
     workspaces |-> IF "workspaces" \in DOMAIN answers THEN answers["workspaces"]
                    ELSE WorkspaceList(world),
     focused_window_id |-> IF "focused_window" \in DOMAIN answers
                           THEN answers["focused_window"].id ELSE Focused(world)]

\* The replica agrees with the compositor, but for what is still to come.
AgreementInv ==
    /\ phase = "querying" => Follows(Asked, buffer \o stream, 0, world)
    /\ phase = "live" => Follows(engine, stream, 0, world)

-------------------------------------------------------------------------------
(* Places *)

(* What is right early is right later. *)
LEMMA SettledLater ==
    ASSUME NEW A \in SUBSET Nat, NEW R, NEW i \in Nat, NEW j \in Nat, i <= j,
           Settled(A, R, i)
    PROVE  Settled(A, R, j)
BY DEF Settled

(* What is right in more places is right. *)
LEMMA SettledBetter ==
    ASSUME NEW A, NEW R, NEW S, NEW i, Settled(A, R, i), R \cap A \subseteq S
    PROVE  Settled(A, S, i)
BY DEF Settled

(* One place is passed: what it sets is there before the next ones. *)
LEMMA SettledNext ==
    ASSUME NEW n \in Nat, NEW A \in SUBSET Nat, NEW R, NEW S,
           NEW i \in Nat, NEW j \in Nat, i <= j, n + 1 <= j,
           n \in A, \A k \in A : n <= k,
           Settled(A, R, i),
           \A k \in A : k \in R /\ n + 1 < k => k \in S,
           n + 1 \in A /\ n + 1 \in R =>
             n + 1 \in S \/ \E k \in A : n + 1 < k /\ k <= j,
           n + 1 \notin A /\ n \in R =>
             n + 1 \in S \/ \E k \in A : n + 1 < k /\ k <= j
    PROVE  Settled((A \ {n}) \cup {n + 1}, S, j)
<1> DEFINE B == (A \ {n}) \cup {n + 1}
<1>1. ASSUME NEW k \in A, n + 1 < k, k \notin S
      PROVE  \E m \in B : k < m /\ m <= j
  <2>1. PICK m \in A : k < m /\ m <= i
    BY <1>1 DEF Settled
  <2> QED
    BY <1>1, <2>1
<1>2. ASSUME n + 1 \notin S
      PROVE  \E m \in B : n + 1 < m /\ m <= j
  <2>1. CASE n + 1 \in A
    <3>1. \E m \in A : n + 1 < m /\ m <= j
      <4>1. CASE n + 1 \in R
        BY <1>2, <2>1, <4>1
      <4>2. CASE n + 1 \notin R
        BY <2>1, <4>2 DEF Settled
      <4> QED
        BY <4>1, <4>2
    <3> QED
      BY <3>1
  <2>2. CASE n + 1 \notin A
    <3>1. CASE n \in R
      BY <1>2, <2>2, <3>1
    <3>2. CASE n \notin R
      <4>1. PICK m \in A : n < m /\ m <= i
        BY <3>2 DEF Settled
      <4>2. n + 1 < m
        BY <2>2, <4>1
      <4> QED
        BY <4>1, <4>2
    <3> QED
      BY <3>1, <3>2
  <2> QED
    BY <2>1, <2>2
<1>3. \A k \in B : k = n + 1 \/ (k \in A /\ n + 1 < k)
  OBVIOUS
<1> QED
  BY <1>1, <1>2, <1>3 DEF Settled

(* Right places are added after all others. *)
LEMMA SettledMore ==
    ASSUME NEW A \in SUBSET Nat, NEW B \in SUBSET Nat, NEW R, NEW i \in Nat,
           NEW b \in B, b <= i, \A k \in A : k < b, B \subseteq R
    PROVE  Settled(A \cup B, R, i)
BY DEF Settled

(* The first n places are forgotten. *)
LEMMA SettledShift ==
    ASSUME NEW n \in Nat, NEW A \in SUBSET Nat, NEW R, NEW B \in SUBSET Nat, NEW S,
           NEW i \in Nat, Settled(A, R, i + n), \A k \in A : n <= k,
           \A k \in Nat : k \in B <=> k + n \in A,
           \A k \in B : k + n \in R => k \in S
    PROVE  Settled(B, S, i)
<1> SUFFICES ASSUME NEW k \in B, k \notin S
             PROVE  \E j \in B : k < j /\ j <= i
  BY DEF Settled
<1>1. k + n \in A /\ k + n \notin R
  OBVIOUS
<1>2. PICK m \in A : k + n < m /\ m <= i + n
  BY <1>1 DEF Settled
<1>3. m - n \in Nat /\ (m - n) + n = m
  BY <1>2
<1>4. m - n \in B
  BY <1>2, <1>3
<1> QED
  BY <1>2, <1>3, <1>4

(* Where windows are set is from n on. *)
LEMMA Places ==
    ASSUME NEW h \in Seq(Event), NEW n \in 0..Len(h)
    PROVE  /\ Len(h) \in Nat /\ n \in Nat
           /\ \A id : /\ WindowAt(h, n, id) \in SUBSET Nat /\ n \in WindowAt(h, n, id)
                      /\ \A k \in WindowAt(h, n, id) : n <= k /\ k <= Len(h)
           /\ /\ ListAt(h, n) \in SUBSET Nat /\ n \in ListAt(h, n)
              /\ \A k \in ListAt(h, n) : n <= k /\ k <= Len(h)
           /\ \A o, w : /\ FlagsAt(h, n, o, w) \in SUBSET Nat
                        /\ n \in FlagsAt(h, n, o, w)
                        /\ \A k \in FlagsAt(h, n, o, w) : n <= k /\ k <= Len(h)
           /\ /\ FocusAt(h, n) \in SUBSET Nat /\ n \in FocusAt(h, n)
              /\ \A k \in FocusAt(h, n) : n <= k /\ k <= Len(h)
           /\ \A ws : /\ ActiveAt(h, n, ws) \in SUBSET Nat /\ n \in ActiveAt(h, n, ws)
                      /\ \A k \in ActiveAt(h, n, ws) : n <= k /\ k <= Len(h)
<1>1. Len(h) \in Nat /\ n \in Nat /\ n..Len(h) \subseteq Nat /\ n \in n..Len(h)
  OBVIOUS
<1> QED
  BY <1>1 DEF WindowAt, ListAt, FlagsAt, FocusAt, ActiveAt

(* What is steady at once is right. *)
LEMMA SteadyNow ==
    ASSUME NEW h \in Seq(Event), NEW n \in 0..Len(h), NEW w, NEW list, NEW id, id # None,
           Steady(list, h, n, w, id, n)
    PROVE  /\ Shows(list, id, w)
           /\ \A k \in (n + 1)..Len(h) : AboutWindow(h[k], id) => TellsWindow(h[k], id, w)
<1>1. \A k \in WindowAt(h, n, id) : k \in WindowRight(list, h, n, w, id)
  <2>1. \A k \in WindowAt(h, n, id) : n <= k /\ k \in Nat /\ n \in Nat
    BY Places
  <2> QED
    BY <2>1 DEF Steady, Settled
<1>2. n \in WindowAt(h, n, id)
  BY Places
<1> QED
  BY <1>1, <1>2 DEF WindowAt, WindowRight

(* A list of windows that is right where another is. *)
LEMMA SteadyBetter ==
    ASSUME NEW h, NEW n, NEW w, NEW list, NEW new, NEW id, NEW i,
           Shows(list, id, w) => Shows(new, id, w), Steady(list, h, n, w, id, i)
    PROVE  Steady(new, h, n, w, id, i)
<1>1. WindowRight(list, h, n, w, id) \subseteq WindowRight(new, h, n, w, id)
  BY DEF WindowRight
<1> QED
  BY <1>1, SettledBetter DEF Steady

(* An engine that has all that another has of the world; it may lose a window that
   the other one should have focused or active but has not. *)
LEMMA FollowsBetter ==
    ASSUME NEW h \in Seq(Event), NEW n \in 0..Len(h), NEW w, NEW e, NEW d,
           Follows(e, h, n, w),
           \A id \in Windows : Shows(e.windows, id, w) => Shows(d.windows, id, w),
           Focused(w) \in Windows \cup {None},
           \A ws \in DOMAIN w.active : w.active[ws] \in Windows \cup {None},
           SameWorkspaces(e.workspaces, w) => SameWorkspaces(d.workspaces, w),
           \A o \in Outputs :
             SameFlags(e.workspaces, o, w) => SameFlags(d.workspaces, o, w),
           (/\ e.focused_window_id = Focused(w)
            /\ Focused(w) # None => Shows(e.windows, Focused(w), w))
              => d.focused_window_id = Focused(w),
           \A ws \in DOMAIN w.active :
             (/\ SameActive(e.workspaces, ws, w)
              /\ w.active[ws] # None => Shows(e.windows, w.active[ws], w))
                => SameActive(d.workspaces, ws, w),
           \A ws \in DOMAIN w.active :
             Fresh(e.workspaces, ws, w) => Fresh(d.workspaces, ws, w)
    PROVE  Follows(d, h, n, w)
<1>1. ASSUME NEW id \in Windows \cup {None}, NEW i, Steady(e.windows, h, n, w, id, i)
      PROVE  Steady(d.windows, h, n, w, id, i)
  <2>1. CASE id = None
    BY <2>1 DEF Steady
  <2>2. CASE id \in Windows
    BY <1>1, <2>2, SteadyBetter
  <2> QED
    BY <2>1, <2>2
<1>2. WindowsFollow(d, h, n, w)
  BY <1>1 DEF Follows, WindowsFollow
<1>3. WorkspacesFollow(d, h, n, w)
  <2>1. ListRight(e, h, n, w) \subseteq ListRight(d, h, n, w)
    BY DEF ListRight
  <2> QED
    BY <2>1, SettledBetter DEF Follows, WorkspacesFollow
<1>4. FlagsFollow(d, h, n, w)
  <2>1. \A o \in Outputs : FlagsRight(e, h, n, o, w) \subseteq FlagsRight(d, h, n, o, w)
    BY DEF FlagsRight
  <2> QED
    BY <2>1, SettledBetter DEF Follows, FlagsFollow
<1>5. FocusFollows(d, h, n, w)
  <2>1. ASSUME NEW k \in FocusRight(e, h, n, w) PROVE k \in FocusRight(d, h, n, w)
    <3>1. Steady(e.windows, h, n, w, Focused(w), k)
      BY DEF FocusRight
    <3>2. Steady(d.windows, h, n, w, Focused(w), k)
      BY <1>1, <3>1
    <3>3. k = n => d.focused_window_id = Focused(w)
      <4>1. SUFFICES ASSUME k = n PROVE d.focused_window_id = Focused(w)
        OBVIOUS
      <4>2. e.focused_window_id = Focused(w)
        BY <4>1 DEF FocusRight
      <4>3. Focused(w) # None => Shows(e.windows, Focused(w), w)
        BY <3>1, <4>1, SteadyNow
      <4> QED
        BY <4>2, <4>3
    <3> QED
      BY <3>2, <3>3 DEF FocusRight
  <2>2. FocusRight(e, h, n, w) \cap FocusAt(h, n) \subseteq FocusRight(d, h, n, w)
    BY <2>1
  <2> QED
    BY <2>2, SettledBetter DEF Follows, FocusFollows
<1>6. ASSUME ActiveFollows(e, h, n, w) PROVE ActiveFollows(d, h, n, w)
  <2> SUFFICES ASSUME NEW ws \in DOMAIN w.active
               PROVE  Settled(ActiveAt(h, n, ws), ActiveRight(d, h, n, w, ws), Len(h))
    BY DEF ActiveFollows
  <2>1. ASSUME NEW k \in ActiveRight(e, h, n, w, ws)
        PROVE  k \in ActiveRight(d, h, n, w, ws)
    <3>1. Steady(e.windows, h, n, w, w.active[ws], k)
      BY DEF ActiveRight
    <3>2. Steady(d.windows, h, n, w, w.active[ws], k)
      BY <1>1, <3>1
    <3>3. k = n => SameActive(d.workspaces, ws, w)
      <4>1. SUFFICES ASSUME k = n PROVE SameActive(d.workspaces, ws, w)
        OBVIOUS
      <4>2. SameActive(e.workspaces, ws, w)
        BY <4>1 DEF ActiveRight
      <4>3. w.active[ws] # None => Shows(e.windows, w.active[ws], w)
        BY <3>1, <4>1, SteadyNow
      <4> QED
        BY <4>2, <4>3
    <3> QED
      BY <3>2, <3>3 DEF ActiveRight
  <2>2. ActiveRight(e, h, n, w, ws) \cap ActiveAt(h, n, ws)
          \subseteq ActiveRight(d, h, n, w, ws)
    BY <2>1
  <2> QED
    BY <1>6, <2>2, SettledBetter DEF ActiveFollows
<1>7. ActiveFresh(d, h, n, w)
  <2>1. \A ws \in DOMAIN w.active :
          FreshRight(e, h, n, w, ws) \subseteq FreshRight(d, h, n, w, ws)
    BY DEF FreshRight
  <2> QED
    BY <2>1, SettledBetter DEF Follows, ActiveFresh
<1> QED
  BY <1>2, <1>3, <1>4, <1>5, <1>6, <1>7 DEF Follows

-------------------------------------------------------------------------------
(* What an event sets *)

\* What the reducers of the events about windows, and about workspaces, leave of the
\* fields that are compared with the world.
ReducedWindows(e, ev, r) ==
    /\ r.workspaces = e.workspaces
    /\ r.windows = CASE ev.type = "WindowsChanged" -> ev.list
                     [] ev.type = "WindowOpenedOrChanged" -> Put(e.windows, ev.id, ev.window)
                     [] ev.type = "WindowClosed" -> Drop(e.windows, ev.id)
                     [] OTHER -> e.windows
    /\ r.focused_window_id =
         CASE AboutFocus(ev) -> ev.id
           [] ev.type = "WindowClosed" /\ e.focused_window_id = ev.id -> None
           [] OTHER -> e.focused_window_id

Activated(workspaces, id, focused) ==
    [w \in DOMAIN workspaces |->
       IF w = id
       THEN [workspaces[w] EXCEPT !.is_active = TRUE, !.is_focused = focused]
       ELSE IF workspaces[w].output = workspaces[id].output
       THEN [workspaces[w] EXCEPT !.is_active = FALSE, !.is_focused = FALSE]
       ELSE workspaces[w]]

ReducedWorkspaces(e, ev, r) ==
    /\ r.windows = e.windows
    /\ r.focused_window_id = e.focused_window_id
    /\ r.workspaces =
         CASE ev.type = "WorkspacesChanged" -> ev.list
           [] ev.type = "WorkspaceActivated" /\ ev.id \in DOMAIN e.workspaces ->
                Activated(e.workspaces, ev.id, ev.focused)
           [] ev.type = "WorkspaceActiveWindowChanged" /\ ev.id \in DOMAIN e.workspaces ->
                [e.workspaces EXCEPT ![ev.id].active_window_id = ev.window]
           [] OTHER -> e.workspaces

WindowEvent(ev) ==
    ev.type \in {"WindowsChanged", "WindowOpenedOrChanged", "WindowClosed",
                 "WindowFocusChanged", "WindowAttribute"}
WorkspaceEvent(ev) ==
    ev.type \in {"WorkspacesChanged", "WorkspaceActivated", "WorkspaceActiveWindowChanged"}

(* An event is of one of these types, with these fields. *)
LEMMA EventFields ==
    ASSUME NEW ev \in Event
    PROVE  /\ WindowEvent(ev) \/ WorkspaceEvent(ev)
           /\ ev.type = "WindowsChanged" => ev.list \in Dict(Windows, Window)
           /\ ev.type = "WindowOpenedOrChanged" =>
                ev.id \in Windows /\ ev.window \in Window /\ ev.focused \in BOOLEAN
           /\ ev.type \in {"WindowClosed", "WindowAttribute"} => ev.id \in Windows
           /\ ev.type = "WindowFocusChanged" => ev.id \in Windows \cup {None}
           /\ ev.type = "WorkspacesChanged" => ev.list \in Dict(Workspaces, Workspace)
           /\ ev.type = "WorkspaceActivated" =>
                ev.id \in Workspaces /\ ev.focused \in BOOLEAN
           /\ ev.type = "WorkspaceActiveWindowChanged" =>
                ev.id \in Workspaces /\ ev.window \in Windows \cup {None}
BY DEF Event, WindowEvent, WorkspaceEvent

(* The reducers of the events about windows. *)
LEMMA WindowsReduce ==
    ASSUME NEW e \in EngineState, NEW ev \in Event, WindowEvent(ev)
    PROVE  ReducedWindows(e, ev, Reduce(e, ev).engine)
<1> DEFINE r == Reduce(e, ev).engine
<1>0. \A d, x : Applied(d, x).engine = d /\ Raised(d).engine = d
  BY DEF Applied, Raised
<1>1. CASE ev.type = "WindowsChanged"
  <2>1. r = [e EXCEPT !.windows = ev.list]
    BY <1>0, <1>1 DEF Reduce, ReduceWindowsChanged
  <2>2. /\ r.windows = ev.list /\ r.workspaces = e.workspaces
        /\ r.focused_window_id = e.focused_window_id
    BY <2>1 DEF EngineState
  <2> HIDE DEF r
  <2> QED
    BY <1>1, <2>2 DEF ReducedWindows, AboutFocus, r
<1>2. CASE ev.type = "WindowOpenedOrChanged"
  <2> DEFINE p == Put(e.windows, ev.id, ev.window)
             d == [e EXCEPT !.windows = Put(@, ev.id, ev.window)]
  <2>1. r = IF ev.focused THEN [d EXCEPT !.focused_window_id = ev.id] ELSE d
    BY <1>0, <1>2 DEF Reduce, ReduceWindowOpenedOrChanged
  <2>2. /\ d.windows = p /\ d.workspaces = e.workspaces
        /\ d.focused_window_id = e.focused_window_id
        /\ "focused_window_id" \in DOMAIN d
    BY DEF EngineState
  <2>3. LET c == [d EXCEPT !.focused_window_id = ev.id]
        IN /\ c.windows = d.windows /\ c.workspaces = d.workspaces
           /\ c.focused_window_id = ev.id
    BY DEF EngineState
  <2> HIDE DEF d
  <2>4. /\ r.windows = p /\ r.workspaces = e.workspaces
        /\ r.focused_window_id = IF ev.focused THEN ev.id ELSE e.focused_window_id
    BY <2>1, <2>2, <2>3
  <2> HIDE DEF r, p
  <2> QED
    BY <1>2, <2>4 DEF ReducedWindows, AboutFocus, r, p
<1>3. CASE ev.type = "WindowClosed"
  <2> DEFINE p == Drop(e.windows, ev.id)
             d == [e EXCEPT !.windows = Drop(@, ev.id)]
  <2>1. r = IF e.focused_window_id = ev.id THEN [d EXCEPT !.focused_window_id = None] ELSE d
    BY <1>0, <1>3 DEF Reduce, ReduceWindowClosed
  <2>2. /\ d.windows = p /\ d.workspaces = e.workspaces
        /\ d.focused_window_id = e.focused_window_id
    BY DEF EngineState
  <2>3. LET c == [d EXCEPT !.focused_window_id = None]
        IN /\ c.windows = d.windows /\ c.workspaces = d.workspaces
           /\ c.focused_window_id = None
    BY DEF EngineState
  <2> HIDE DEF d
  <2>4. /\ r.windows = p /\ r.workspaces = e.workspaces
        /\ r.focused_window_id = IF e.focused_window_id = ev.id THEN None
                                 ELSE e.focused_window_id
    BY <2>1, <2>2, <2>3
  <2> HIDE DEF r, p
  <2> QED
    BY <1>3, <2>4 DEF ReducedWindows, AboutFocus, r, p
<1>4. CASE ev.type = "WindowFocusChanged"
  <2>1. r = [e EXCEPT !.focused_window_id = ev.id]
    BY <1>0, <1>4 DEF Reduce, ReduceWindowFocusChanged
  <2>2. /\ r.windows = e.windows /\ r.workspaces = e.workspaces
        /\ r.focused_window_id = ev.id
    BY <2>1 DEF EngineState
  <2> HIDE DEF r
  <2> QED
    BY <1>4, <2>2 DEF ReducedWindows, AboutFocus, r
<1>5. CASE ev.type = "WindowAttribute"
  <2>1. r = e
    BY <1>0, <1>5 DEF Reduce, ReduceWindowAttribute
  <2> HIDE DEF r
  <2> QED
    BY <1>5, <2>1 DEF ReducedWindows, AboutFocus, r
<1> QED
  BY <1>1, <1>2, <1>3, <1>4, <1>5 DEF WindowEvent

(* The reducers of the events about workspaces. *)
LEMMA WorkspacesReduce ==
    ASSUME NEW e \in EngineState, NEW ev \in Event, WorkspaceEvent(ev)
    PROVE  ReducedWorkspaces(e, ev, Reduce(e, ev).engine)
<1> DEFINE r == Reduce(e, ev).engine
           id == ev.id
<1>0. \A d, x : Applied(d, x).engine = d /\ Raised(d).engine = d
  BY DEF Applied, Raised
<1>1. CASE ev.type = "WorkspacesChanged"
  <2>1. r = [e EXCEPT !.workspaces = ev.list]
    BY <1>0, <1>1 DEF Reduce, ReduceWorkspacesChanged
  <2>2. /\ r.windows = e.windows /\ r.workspaces = ev.list
        /\ r.focused_window_id = e.focused_window_id
    BY <2>1 DEF EngineState
  <2> HIDE DEF r
  <2> QED
    BY <1>1, <2>2 DEF ReducedWorkspaces, r
<1>2. CASE ev.type = "WorkspaceActivated" /\ id \in DOMAIN e.workspaces
  <2>1. r = [e EXCEPT !.workspaces = Activated(e.workspaces, id, ev.focused),
                      !.focused_workspace_id = IF ev.focused THEN id ELSE @]
    BY <1>0, <1>2 DEF Reduce, ReduceWorkspaceActivated, Activated
  <2>2. /\ r.windows = e.windows
        /\ r.workspaces = Activated(e.workspaces, id, ev.focused)
        /\ r.focused_window_id = e.focused_window_id
    BY <2>1 DEF EngineState
  <2> HIDE DEF r
  <2> QED
    BY <1>2, <2>2 DEF ReducedWorkspaces, r
<1>3. CASE ev.type = "WorkspaceActiveWindowChanged" /\ id \in DOMAIN e.workspaces
  <2>1. r = [e EXCEPT !.workspaces[id].active_window_id = ev.window]
    BY <1>0, <1>3 DEF Reduce, ReduceWorkspaceActiveWindowChanged
  <2>2. /\ r.windows = e.windows
        /\ r.workspaces = [e.workspaces EXCEPT ![id].active_window_id = ev.window]
        /\ r.focused_window_id = e.focused_window_id
    BY <2>1 DEF EngineState
  <2> HIDE DEF r
  <2> QED
    BY <1>3, <2>2 DEF ReducedWorkspaces, r
<1>4. CASE /\ ev.type \in {"WorkspaceActivated", "WorkspaceActiveWindowChanged"}
           /\ id \notin DOMAIN e.workspaces
  <2>1. r = e
    BY <1>0, <1>4 DEF Reduce, ReduceWorkspaceActivated, ReduceWorkspaceActiveWindowChanged
  <2> HIDE DEF r
  <2> QED
    BY <1>4, <2>1 DEF ReducedWorkspaces, r
<1> QED
  BY <1>1, <1>2, <1>3, <1>4 DEF WorkspaceEvent

\* What one event leaves.
Reduced(e, ev, r) ==
    \/ WindowEvent(ev) /\ ReducedWindows(e, ev, r)
    \/ WorkspaceEvent(ev) /\ ReducedWorkspaces(e, ev, r)

LEMMA Reduces ==
    ASSUME NEW e \in EngineState, NEW ev \in Event
    PROVE  Reduced(e, ev, Reduce(e, ev).engine)
BY EventFields, WindowsReduce, WorkspacesReduce DEF Reduced

(* The full list of workspaces replaces them. *)
LEMMA ListReplaces ==
    ASSUME NEW e, NEW ev, NEW r, Reduced(e, ev, r), ev.type = "WorkspacesChanged"
    PROVE  r.workspaces = ev.list
BY DEF Reduced, ReducedWorkspaces, WindowEvent

(* An event about a window sets it, any other leaves it alone. *)
LEMMA WindowSet ==
    ASSUME NEW e, NEW ev, NEW r, Reduced(e, ev, r), NEW w, NEW id
    PROVE  /\ TellsWindow(ev, id, w) => Shows(r.windows, id, w)
           /\ ~AboutWindow(ev, id) /\ Shows(e.windows, id, w) => Shows(r.windows, id, w)
<1> DEFINE list == r.windows
<1>1. CASE WindowEvent(ev) /\ ReducedWindows(e, ev, r)
  <2>1. list = CASE ev.type = "WindowsChanged" -> ev.list
                 [] ev.type = "WindowOpenedOrChanged" -> Put(e.windows, ev.id, ev.window)
                 [] ev.type = "WindowClosed" -> Drop(e.windows, ev.id)
                 [] OTHER -> e.windows
    BY <1>1 DEF ReducedWindows
  <2> HIDE DEF list
  <2> SUFFICES /\ TellsWindow(ev, id, w) => Shows(list, id, w)
               /\ ~AboutWindow(ev, id) /\ Shows(e.windows, id, w) => Shows(list, id, w)
    BY DEF list
  <2>2. CASE ev.type = "WindowsChanged"
    BY <2>1, <2>2 DEF TellsWindow, AboutWindow
  <2>3. CASE ev.type = "WindowOpenedOrChanged"
    <3>1. /\ DOMAIN list = DOMAIN e.windows \cup {ev.id}
          /\ \A x \in DOMAIN list : list[x] = IF x = ev.id THEN ev.window ELSE e.windows[x]
      BY <2>1, <2>3 DEF Put
    <3>2. CASE id = ev.id
      <4>1. id \in DOMAIN list /\ list[id] = ev.window
        BY <3>1, <3>2
      <4> QED
        BY <2>3, <3>2, <4>1 DEF TellsWindow, AboutWindow, Shows
    <3>3. CASE id # ev.id
      <4>1. /\ id \in DOMAIN list <=> id \in DOMAIN e.windows
            /\ id \in DOMAIN list => list[id] = e.windows[id]
        BY <3>1, <3>3
      <4> QED
        BY <2>3, <3>3, <4>1 DEF TellsWindow, Shows
    <3> QED
      BY <3>2, <3>3
  <2>4. CASE ev.type = "WindowClosed"
    <3>1. /\ DOMAIN list = DOMAIN e.windows \ {ev.id}
          /\ \A x \in DOMAIN list : list[x] = e.windows[x]
      BY <2>1, <2>4 DEF Drop, Restrict
    <3>2. CASE id = ev.id
      <4>1. id \notin DOMAIN list
        BY <3>1, <3>2
      <4> QED
        BY <2>4, <3>2, <4>1 DEF TellsWindow, AboutWindow, Shows
    <3>3. CASE id # ev.id
      <4>1. /\ id \in DOMAIN list <=> id \in DOMAIN e.windows
            /\ id \in DOMAIN list => list[id] = e.windows[id]
        BY <3>1, <3>3
      <4> QED
        BY <2>4, <3>3, <4>1 DEF TellsWindow, Shows
    <3> QED
      BY <3>2, <3>3
  <2>5. CASE ev.type \in {"WindowFocusChanged", "WindowAttribute"}
    <3>1. list = e.windows /\ ~TellsWindow(ev, id, w)
      BY <2>1, <2>5 DEF TellsWindow
    <3> QED
      BY <3>1
  <2> QED
    BY <1>1, <2>2, <2>3, <2>4, <2>5 DEF WindowEvent
<1>2. CASE WorkspaceEvent(ev) /\ ReducedWorkspaces(e, ev, r)
  <2>1. r.windows = e.windows /\ ~TellsWindow(ev, id, w)
    BY <1>2 DEF ReducedWorkspaces, TellsWindow, WorkspaceEvent
  <2> QED
    BY <2>1
<1> QED
  BY <1>1, <1>2 DEF Reduced

(* So does one about the focus, but that a closed window loses it. *)
LEMMA FocusSet ==
    ASSUME NEW e, NEW ev \in Event, NEW r, Reduced(e, ev, r), NEW w,
           Focused(w) # None => Focused(w) \in DOMAIN w.where
    PROVE  \/ TellsFocus(ev, w)
           \/ /\ ~AboutFocus(ev) /\ e.focused_window_id = Focused(w)
              /\ Focused(w) # None /\ AboutWindow(ev, Focused(w)) =>
                   TellsWindow(ev, Focused(w), w)
           => r.focused_window_id = Focused(w)
<1>1. CASE WindowEvent(ev) /\ ReducedWindows(e, ev, r)
  <2>1. r.focused_window_id =
          CASE AboutFocus(ev) -> ev.id
            [] ev.type = "WindowClosed" /\ e.focused_window_id = ev.id -> None
            [] OTHER -> e.focused_window_id
    BY <1>1 DEF ReducedWindows
  <2>2. TellsFocus(ev, w) => r.focused_window_id = Focused(w)
    BY <2>1 DEF TellsFocus, AboutFocus
  <2>3. ASSUME ~AboutFocus(ev), e.focused_window_id = Focused(w),
               Focused(w) # None /\ AboutWindow(ev, Focused(w))
                 => TellsWindow(ev, Focused(w), w)
        PROVE  r.focused_window_id = Focused(w)
    <3>1. CASE ev.type = "WindowClosed" /\ e.focused_window_id = ev.id
      <4>1. ev.id \in Windows
        BY <3>1, EventFields
      <4>2. Focused(w) # None /\ AboutWindow(ev, Focused(w))
        BY <2>3, <3>1, <4>1, EngineAssumption DEF AboutWindow
      <4>3. TellsWindow(ev, Focused(w), w) /\ Focused(w) \in DOMAIN w.where
        BY <2>3, <4>2
      <4> QED
        BY <3>1, <4>3 DEF TellsWindow
    <3>2. CASE ~(ev.type = "WindowClosed" /\ e.focused_window_id = ev.id)
      BY <2>1, <2>3, <3>2
    <3> QED
      BY <3>1, <3>2
  <2> QED
    BY <2>2, <2>3
<1>2. CASE WorkspaceEvent(ev) /\ ReducedWorkspaces(e, ev, r)
  <2>1. r.focused_window_id = e.focused_window_id
    BY <1>2 DEF ReducedWorkspaces
  <2>2. ~AboutFocus(ev)
    BY <1>2 DEF WorkspaceEvent, AboutFocus
  <2>3. ~TellsFocus(ev, w)
    BY <2>2 DEF TellsFocus
  <2> QED
    BY <2>1, <2>3
<1> QED
  BY <1>1, <1>2 DEF Reduced

\* The event activates a workspace of the output of workspace ws.
Activates(e, ev, ws) ==
    /\ ev.type = "WorkspaceActivated" /\ ev.id \in DOMAIN e.workspaces
    /\ e.workspaces[ws].output = e.workspaces[ev.id].output

(* What an event that is no full list makes of the workspaces. *)
LEMMA WorkspacesChange ==
    ASSUME NEW e \in EngineState, NEW ev, NEW r, Reduced(e, ev, r),
           ev.type # "WorkspacesChanged"
    PROVE  /\ DOMAIN r.workspaces = DOMAIN e.workspaces
           /\ \A ws \in DOMAIN e.workspaces :
                /\ r.workspaces[ws].output = e.workspaces[ws].output
                /\ Activates(e, ev, ws) /\ ws = ev.id =>
                     /\ r.workspaces[ws].is_active
                     /\ r.workspaces[ws].is_focused = ev.focused
                /\ Activates(e, ev, ws) /\ ws # ev.id =>
                     ~r.workspaces[ws].is_active /\ ~r.workspaces[ws].is_focused
                /\ ~Activates(e, ev, ws) =>
                     /\ r.workspaces[ws].is_active = e.workspaces[ws].is_active
                     /\ r.workspaces[ws].is_focused = e.workspaces[ws].is_focused
                /\ r.workspaces[ws].active_window_id =
                     IF ev.type = "WorkspaceActiveWindowChanged" /\ ev.id = ws
                     THEN ev.window ELSE e.workspaces[ws].active_window_id
<1>0. \A ws \in DOMAIN e.workspaces : e.workspaces[ws] \in Workspace
  BY WorkspaceOf DEF EngineState
<1>1. CASE WindowEvent(ev) /\ ReducedWindows(e, ev, r)
  <2>1. r.workspaces = e.workspaces
    BY <1>1 DEF ReducedWindows
  <2>2. ev.type \notin {"WorkspaceActivated", "WorkspaceActiveWindowChanged"}
    BY <1>1 DEF WindowEvent
  <2> QED
    BY <2>1, <2>2 DEF Activates
<1>2. CASE WorkspaceEvent(ev) /\ ReducedWorkspaces(e, ev, r)
  <2>1. CASE ev.type = "WorkspaceActivated" /\ ev.id \in DOMAIN e.workspaces
    <3>1. r.workspaces = Activated(e.workspaces, ev.id, ev.focused)
      BY <1>2, <2>1 DEF ReducedWorkspaces
    <3>2. \A ws \in DOMAIN e.workspaces :
            r.workspaces[ws] =
              IF ws = ev.id
              THEN [e.workspaces[ws] EXCEPT !.is_active = TRUE, !.is_focused = ev.focused]
              ELSE IF e.workspaces[ws].output = e.workspaces[ev.id].output
              THEN [e.workspaces[ws] EXCEPT !.is_active = FALSE, !.is_focused = FALSE]
              ELSE e.workspaces[ws]
      BY <3>1 DEF Activated
    <3>3. DOMAIN r.workspaces = DOMAIN e.workspaces
      BY <3>1 DEF Activated
    <3>4. ASSUME NEW ws \in DOMAIN e.workspaces, ws = ev.id
          PROVE  /\ r.workspaces[ws].output = e.workspaces[ws].output
                 /\ r.workspaces[ws].is_active
                 /\ r.workspaces[ws].is_focused = ev.focused
                 /\ r.workspaces[ws].active_window_id = e.workspaces[ws].active_window_id
      <4>1. r.workspaces[ws] =
              [e.workspaces[ws] EXCEPT !.is_active = TRUE, !.is_focused = ev.focused]
        BY <3>2, <3>4
      <4> QED
        BY <1>0, <4>1 DEF Workspace
    <3>5. ASSUME NEW ws \in DOMAIN e.workspaces, ws # ev.id,
                 e.workspaces[ws].output = e.workspaces[ev.id].output
          PROVE  /\ r.workspaces[ws].output = e.workspaces[ws].output
                 /\ ~r.workspaces[ws].is_active /\ ~r.workspaces[ws].is_focused
                 /\ r.workspaces[ws].active_window_id = e.workspaces[ws].active_window_id
      <4>1. r.workspaces[ws] =
              [e.workspaces[ws] EXCEPT !.is_active = FALSE, !.is_focused = FALSE]
        BY <3>2, <3>5
      <4> QED
        BY <1>0, <4>1 DEF Workspace
    <3>6. ASSUME NEW ws \in DOMAIN e.workspaces, ~Activates(e, ev, ws)
          PROVE  r.workspaces[ws] = e.workspaces[ws]
      BY <2>1, <3>2, <3>6 DEF Activates
    <3>7. \A ws \in DOMAIN e.workspaces :
            /\ Activates(e, ev, ws) => e.workspaces[ws].output = e.workspaces[ev.id].output
            /\ ws = ev.id => Activates(e, ev, ws)
      BY <2>1 DEF Activates
    <3> QED
      BY <2>1, <3>3, <3>4, <3>5, <3>6, <3>7
  <2>2. CASE ev.type = "WorkspaceActiveWindowChanged" /\ ev.id \in DOMAIN e.workspaces
    <3>1. r.workspaces = [e.workspaces EXCEPT ![ev.id].active_window_id = ev.window]
      BY <1>2, <2>2 DEF ReducedWorkspaces
    <3> QED
      BY <1>0, <2>2, <3>1 DEF Workspace, Activates
  <2>3. CASE ~(/\ ev.type \in {"WorkspaceActivated", "WorkspaceActiveWindowChanged"}
               /\ ev.id \in DOMAIN e.workspaces)
    <3>1. r.workspaces = e.workspaces
      BY <1>2, <2>3 DEF ReducedWorkspaces, WorkspaceEvent
    <3>2. \A ws \in DOMAIN e.workspaces :
            ~(ev.type = "WorkspaceActiveWindowChanged" /\ ev.id = ws)
      BY <2>3
    <3>3. \A ws : ~Activates(e, ev, ws)
      BY <2>3 DEF Activates
    <3> HIDE <2>3
    <3> QED
      BY <3>1, <3>2, <3>3
  <2> QED
    BY <2>1, <2>2, <2>3
<1> QED
  BY <1>1, <1>2 DEF Reduced

(* The full list sets the workspaces, any other event leaves them alone. *)
LEMMA WorkspacesSet ==
    ASSUME NEW e \in EngineState, NEW ev, NEW r, Reduced(e, ev, r), NEW w
    PROVE  /\ TellsWorkspaces(ev, w) => SameWorkspaces(r.workspaces, w)
           /\ ev.type # "WorkspacesChanged" /\ SameWorkspaces(e.workspaces, w) =>
                SameWorkspaces(r.workspaces, w)
<1>1. CASE ev.type = "WorkspacesChanged"
  <2>1. r.workspaces = ev.list
    BY <1>1, ListReplaces
  <2> QED
    BY <1>1, <2>1 DEF TellsWorkspaces
<1>2. CASE ev.type # "WorkspacesChanged"
  <2>1. /\ DOMAIN r.workspaces = DOMAIN e.workspaces
        /\ \A ws \in DOMAIN e.workspaces : r.workspaces[ws].output = e.workspaces[ws].output
    BY <1>2, WorkspacesChange
  <2> QED
    BY <1>2, <2>1 DEF TellsWorkspaces, SameWorkspaces
<1> QED
  BY <1>1, <1>2

(* An event about the flags of an output sets them, if the workspaces are those of the
   world; no other event touches them. *)
LEMMA FlagsSet ==
    ASSUME NEW e \in EngineState, NEW ev, NEW r, Reduced(e, ev, r), NEW w \in Worlds, NEW o,
           ev.type # "WorkspacesChanged" => SameWorkspaces(e.workspaces, w)
    PROVE  /\ TellsFlags(ev, o, w) => SameFlags(r.workspaces, o, w)
           /\ ~AboutFlags(ev, o, w) /\ SameFlags(e.workspaces, o, w) =>
                SameFlags(r.workspaces, o, w)
<1>0. /\ DOMAIN w.output = DOMAIN w.active /\ w.focused \in w.shown
      /\ w.shown \subseteq DOMAIN w.output
      /\ \A s, t \in w.shown : w.output[s] = w.output[t] => s = t
  BY WorldOf DEF OneShown
<1>1. CASE ev.type = "WorkspacesChanged"
  <2>1. r.workspaces = ev.list
    BY <1>1, ListReplaces
  <2> QED
    BY <1>1, <2>1 DEF TellsFlags, AboutFlags
<1>2. CASE ev.type = "WorkspaceActivated" /\ OnOutput(w, ev.id, o)
  <2>1. SUFFICES ASSUME ev.id \in w.shown, ev.id = w.focused => ev.focused
                 PROVE  SameFlags(r.workspaces, o, w)
    BY <1>2 DEF TellsFlags, AboutFlags
  <2>2. SUFFICES ASSUME NEW ws \in DOMAIN r.workspaces, OnOutput(w, ws, o)
                 PROVE  /\ r.workspaces[ws].is_active <=> ws \in w.shown
                        /\ r.workspaces[ws].is_focused => ws \in w.shown
                        /\ ws = w.focused => r.workspaces[ws].is_focused
    BY DEF SameFlags
  <2>3. /\ DOMAIN e.workspaces = DOMAIN w.output
        /\ e.workspaces[ws].output = e.workspaces[ev.id].output
        /\ ws \in DOMAIN e.workspaces /\ ev.id \in DOMAIN e.workspaces
    BY <1>0, <1>2, <2>2 DEF SameWorkspaces, OnOutput
  <2>4. ws \in w.shown <=> ws = ev.id
    BY <1>0, <1>2, <2>1, <2>2 DEF OnOutput
  <2>5. Activates(e, ev, ws)
    BY <1>2, <2>3 DEF Activates
  <2>6. CASE ws = ev.id
    <3>1. r.workspaces[ws].is_active /\ r.workspaces[ws].is_focused = ev.focused
      BY <1>2, <2>3, <2>5, <2>6, WorkspacesChange
    <3> QED
      BY <2>1, <2>4, <2>6, <3>1
  <2>7. CASE ws # ev.id
    <3>1. ~r.workspaces[ws].is_active /\ ~r.workspaces[ws].is_focused
      BY <1>2, <2>3, <2>5, <2>7, WorkspacesChange
    <3> QED
      BY <1>0, <2>4, <2>7, <3>1
  <2> QED
    BY <2>6, <2>7
<1>3. CASE ~AboutFlags(ev, o, w)
  <2>1. SUFFICES ASSUME SameFlags(e.workspaces, o, w)
                 PROVE  SameFlags(r.workspaces, o, w)
    BY <1>3 DEF AboutFlags, TellsFlags
  <2>2. SUFFICES ASSUME NEW ws \in DOMAIN r.workspaces, OnOutput(w, ws, o)
                 PROVE  /\ r.workspaces[ws].is_active = e.workspaces[ws].is_active
                        /\ r.workspaces[ws].is_focused = e.workspaces[ws].is_focused
                        /\ ws \in DOMAIN e.workspaces
    BY <2>1 DEF SameFlags
  <2>3. ev.type # "WorkspacesChanged" /\ SameWorkspaces(e.workspaces, w)
    BY <1>3 DEF AboutFlags
  <2>4. ws \in DOMAIN e.workspaces /\ e.workspaces[ws].output = o
    BY <2>2, <2>3, WorkspacesChange DEF SameWorkspaces, OnOutput
  <2>5. ~Activates(e, ev, ws)
    BY <1>0, <1>3, <2>3, <2>4 DEF Activates, AboutFlags, SameWorkspaces, OnOutput
  <2> QED
    BY <2>3, <2>4, <2>5, WorkspacesChange
<1> QED
  BY <1>1, <1>2, <1>3 DEF AboutFlags

(* An event about an active window sets it, any other leaves it alone. *)
LEMMA ActiveSet ==
    ASSUME NEW e \in EngineState, NEW ev, NEW r, Reduced(e, ev, r), NEW w, NEW ws
    PROVE  /\ TellsActive(ev, ws, w) => SameActive(r.workspaces, ws, w)
           /\ ~AboutActive(ev, ws) /\ SameActive(e.workspaces, ws, w) =>
                SameActive(r.workspaces, ws, w)
<1>1. CASE ev.type = "WorkspacesChanged"
  <2>1. r.workspaces = ev.list
    BY <1>1, ListReplaces
  <2> QED
    BY <1>1, <2>1 DEF TellsActive, AboutActive
<1>2. CASE ev.type # "WorkspacesChanged"
  <2>1. /\ DOMAIN r.workspaces = DOMAIN e.workspaces
        /\ ws \in DOMAIN e.workspaces =>
             r.workspaces[ws].active_window_id =
               IF ev.type = "WorkspaceActiveWindowChanged" /\ ev.id = ws
               THEN ev.window ELSE e.workspaces[ws].active_window_id
    BY <1>2, WorkspacesChange
  <2> QED
    BY <1>2, <2>1 DEF TellsActive, AboutActive, SameActive
<1> QED
  BY <1>1, <1>2

(* Nor is it an old one, if none was. *)
LEMMA FreshSet ==
    ASSUME NEW e \in EngineState, NEW ev, NEW r, Reduced(e, ev, r), NEW w, NEW ws
    PROVE  /\ TellsActive(ev, ws, w) => Fresh(r.workspaces, ws, w)
           /\ ~AboutActive(ev, ws) /\ Fresh(e.workspaces, ws, w) =>
                Fresh(r.workspaces, ws, w)
<1>1. TellsActive(ev, ws, w) => Fresh(r.workspaces, ws, w)
  BY ActiveSet DEF SameActive, Fresh
<1>2. ASSUME ~AboutActive(ev, ws), Fresh(e.workspaces, ws, w)
      PROVE  Fresh(r.workspaces, ws, w)
  <2>1. ev.type # "WorkspacesChanged"
    BY <1>2 DEF AboutActive
  <2>2. /\ DOMAIN r.workspaces = DOMAIN e.workspaces
        /\ ws \in DOMAIN e.workspaces =>
             r.workspaces[ws].active_window_id = e.workspaces[ws].active_window_id
    BY <1>2, <2>1, WorkspacesChange DEF AboutActive
  <2> QED
    BY <1>2, <2>2 DEF Fresh
<1> QED
  BY <1>1, <1>2

-------------------------------------------------------------------------------
(* One event is handled *)

(* The places where something is set, once the first event is handled. *)
LEMMA PlacesNext ==
    ASSUME NEW h \in Seq(Event), NEW n \in Nat, n < Len(h)
    PROVE  /\ n + 1 \in 0..Len(h) /\ n \in 0..Len(h) /\ n + 1 \in Nat /\ Len(h) \in Nat
           /\ n <= n + 1 /\ n + 1 <= n + 1 /\ n + 1 <= Len(h)
           /\ \A id : WindowAt(h, n + 1, id) = (WindowAt(h, n, id) \ {n}) \cup {n + 1}
           /\ ListAt(h, n + 1) = (ListAt(h, n) \ {n}) \cup {n + 1}
           /\ \A o, w : FlagsAt(h, n + 1, o, w) = (FlagsAt(h, n, o, w) \ {n}) \cup {n + 1}
           /\ FocusAt(h, n + 1) = (FocusAt(h, n) \ {n}) \cup {n + 1}
           /\ \A ws : ActiveAt(h, n + 1, ws) = (ActiveAt(h, n, ws) \ {n}) \cup {n + 1}
<1>1. Len(h) \in Nat
  OBVIOUS
<1>2. (n + 1)..Len(h) = (n..Len(h)) \ {n} /\ n + 1 \in n..Len(h)
  BY <1>1
<1> QED
  BY <1>1, <1>2 DEF WindowAt, ListAt, FlagsAt, FocusAt, ActiveAt

(* A window that is steady stays so. *)
LEMMA SteadyNext ==
    ASSUME NEW h \in Seq(Event), NEW n \in Nat, n < Len(h),
           NEW e, NEW r, Reduced(e, h[n + 1], r), NEW w, NEW id,
           NEW i \in Nat, NEW j \in Nat, i <= j, n + 1 <= j,
           Steady(e.windows, h, n, w, id, i)
    PROVE  Steady(r.windows, h, n + 1, w, id, j)
<1> SUFFICES ASSUME id # None
             PROVE  Settled(WindowAt(h, n + 1, id), WindowRight(r.windows, h, n + 1, w, id), j)
  BY DEF Steady
<1> DEFINE A == WindowAt(h, n, id)
           R == WindowRight(e.windows, h, n, w, id)
           S == WindowRight(r.windows, h, n + 1, w, id)
<1>0. /\ n \in 0..Len(h) /\ Len(h) \in Nat /\ n + 1 \in Nat
      /\ n <= n + 1 /\ n + 1 <= n + 1 /\ n + 1 <= Len(h)
  BY PlacesNext
<1>1. A \in SUBSET Nat /\ n \in A /\ \A k \in A : n <= k /\ k <= Len(h)
  BY <1>0, Places
<1>2. WindowAt(h, n + 1, id) = (A \ {n}) \cup {n + 1}
  BY PlacesNext
<1>3. Settled(A, R, i)
  BY DEF Steady
<1>4. ASSUME NEW k \in A, k \in R, n + 1 < k PROVE k \in S
  BY <1>0, <1>1, <1>4 DEF WindowRight
<1>5. ASSUME n + 1 \in R PROVE n + 1 \in S
  <2>1. TellsWindow(h[n + 1], id, w)
    BY <1>5 DEF WindowRight
  <2>2. Shows(r.windows, id, w)
    BY <2>1, WindowSet
  <2> QED
    BY <1>0, <2>2 DEF WindowRight
<1>6. ASSUME n + 1 \notin A, n \in R PROVE n + 1 \in S
  <2>1. ~AboutWindow(h[n + 1], id) /\ Shows(e.windows, id, w)
    BY <1>0, <1>6 DEF WindowAt, WindowRight
  <2>2. Shows(r.windows, id, w)
    BY <2>1, WindowSet
  <2> QED
    BY <1>0, <2>2 DEF WindowRight
<1> HIDE DEF A, R, S
<1>7. Settled((A \ {n}) \cup {n + 1}, S, j)
  BY <1>1, <1>3, <1>4, <1>5, <1>6, SettledNext
<1> QED
  BY <1>2, <1>7 DEF S

(* So do the workspaces. *)
LEMMA WorkspacesNext ==
    ASSUME NEW h \in Seq(Event), NEW n \in Nat, n < Len(h),
           NEW e \in EngineState, NEW r, Reduced(e, h[n + 1], r), NEW w,
           WorkspacesFollow(e, h, n, w)
    PROVE  WorkspacesFollow(r, h, n + 1, w)
<1> DEFINE A == ListAt(h, n)
           R == ListRight(e, h, n, w)
           S == ListRight(r, h, n + 1, w)
<1>0. /\ n \in 0..Len(h) /\ Len(h) \in Nat /\ n + 1 \in Nat
      /\ n <= n + 1 /\ n + 1 <= n + 1 /\ n + 1 <= Len(h)
  BY PlacesNext
<1>1. A \in SUBSET Nat /\ n \in A /\ \A k \in A : n <= k /\ k <= Len(h)
  BY <1>0, Places
<1>2. ListAt(h, n + 1) = (A \ {n}) \cup {n + 1}
  BY PlacesNext
<1>3. Settled(A, R, Len(h))
  BY DEF WorkspacesFollow
<1>4. ASSUME NEW k \in A, k \in R, n + 1 < k PROVE k \in S
  BY <1>0, <1>1, <1>4 DEF ListRight
<1>5. ASSUME n + 1 \in R PROVE n + 1 \in S
  <2>1. TellsWorkspaces(h[n + 1], w)
    BY <1>5 DEF ListRight
  <2>2. SameWorkspaces(r.workspaces, w)
    BY <2>1, WorkspacesSet
  <2> QED
    BY <1>0, <2>2 DEF ListRight
<1>6. ASSUME n + 1 \notin A, n \in R PROVE n + 1 \in S
  <2>1. h[n + 1].type # "WorkspacesChanged" /\ SameWorkspaces(e.workspaces, w)
    BY <1>0, <1>6 DEF ListAt, ListRight
  <2>2. SameWorkspaces(r.workspaces, w)
    BY <2>1, WorkspacesSet
  <2> QED
    BY <1>0, <2>2 DEF ListRight
<1> HIDE DEF A, R, S
<1>7. Settled((A \ {n}) \cup {n + 1}, S, Len(h))
  BY <1>0, <1>1, <1>3, <1>4, <1>5, <1>6, SettledNext
<1> QED
  BY <1>2, <1>7 DEF S, WorkspacesFollow

(* So do their flags: an activation that finds other workspaces than those of the world,
   or other outputs, is followed by a list of the workspaces. *)
LEMMA FlagsNext ==
    ASSUME NEW h \in Seq(Event), NEW n \in Nat, n < Len(h),
           NEW e \in EngineState, NEW r, Reduced(e, h[n + 1], r), NEW w \in Worlds,
           WorkspacesFollow(e, h, n, w), FlagsFollow(e, h, n, w)
    PROVE  FlagsFollow(r, h, n + 1, w)
<1> SUFFICES ASSUME NEW o \in Outputs
             PROVE  Settled(FlagsAt(h, n + 1, o, w), FlagsRight(r, h, n + 1, o, w), Len(h))
  BY DEF FlagsFollow
<1> DEFINE A == FlagsAt(h, n, o, w)
           R == FlagsRight(e, h, n, o, w)
           S == FlagsRight(r, h, n + 1, o, w)
           ev == h[n + 1]
<1>0. /\ n \in 0..Len(h) /\ Len(h) \in Nat /\ n + 1 \in Nat
      /\ n <= n + 1 /\ n + 1 <= n + 1 /\ n + 1 <= Len(h)
  BY PlacesNext
<1>1. A \in SUBSET Nat /\ n \in A /\ \A k \in A : n <= k /\ k <= Len(h)
  BY <1>0, Places
<1>2. FlagsAt(h, n + 1, o, w) = (A \ {n}) \cup {n + 1}
  BY PlacesNext
<1>3. Settled(A, R, Len(h))
  BY DEF FlagsFollow
<1>4. ASSUME NEW k \in A, k \in R, n + 1 < k PROVE k \in S
  BY <1>0, <1>1, <1>4 DEF FlagsRight
<1>5. ASSUME ev.type # "WorkspacesChanged", ~SameWorkspaces(e.workspaces, w)
      PROVE  \E k \in A : n + 1 < k /\ k <= Len(h)
  <2>1. n \in ListAt(h, n) /\ n \notin ListRight(e, h, n, w)
    BY <1>0, <1>5 DEF ListAt, ListRight
  <2>2. PICK k \in ListAt(h, n) : n < k /\ k <= Len(h)
    BY <2>1 DEF WorkspacesFollow, Settled
  <2>3. k \in n..Len(h) /\ h[k].type = "WorkspacesChanged"
    BY <1>0, <2>2 DEF ListAt
  <2>4. n + 1 < k
    BY <1>0, <1>5, <2>2, <2>3
  <2> QED
    BY <2>2, <2>3, <2>4 DEF FlagsAt, AboutFlags
<1>6. ASSUME \/ n + 1 \in R
             \/ n + 1 \notin A /\ n \in R,
             ev.type # "WorkspacesChanged" => SameWorkspaces(e.workspaces, w)
      PROVE  n + 1 \in S
  <2>1. CASE n + 1 \in R
    <3>1. TellsFlags(ev, o, w)
      BY <2>1 DEF FlagsRight
    <3>2. SameFlags(r.workspaces, o, w)
      BY <1>6, <3>1, FlagsSet
    <3> QED
      BY <1>0, <3>2 DEF FlagsRight
  <2>2. CASE n + 1 \notin A /\ n \in R
    <3>1. ~AboutFlags(ev, o, w) /\ SameFlags(e.workspaces, o, w)
      BY <1>0, <2>2 DEF FlagsAt, FlagsRight
    <3>2. SameFlags(r.workspaces, o, w)
      BY <1>6, <3>1, FlagsSet
    <3> QED
      BY <1>0, <3>2 DEF FlagsRight
  <2> QED
    BY <1>6, <2>1, <2>2
<1> HIDE DEF A, R, S, ev
<1>7. /\ n + 1 \in A /\ n + 1 \in R =>
           n + 1 \in S \/ \E k \in A : n + 1 < k /\ k <= Len(h)
      /\ n + 1 \notin A /\ n \in R =>
           n + 1 \in S \/ \E k \in A : n + 1 < k /\ k <= Len(h)
  BY <1>5, <1>6
<1>8. Settled((A \ {n}) \cup {n + 1}, S, Len(h))
  BY <1>0, <1>1, <1>3, <1>4, <1>7, SettledNext
<1> QED
  BY <1>2, <1>8 DEF S

(* So does the focus. *)
LEMMA FocusNext ==
    ASSUME NEW h \in Seq(Event), NEW n \in Nat, n < Len(h),
           NEW e, NEW r, Reduced(e, h[n + 1], r),
           NEW w, Focused(w) # None => Focused(w) \in DOMAIN w.where,
           FocusFollows(e, h, n, w)
    PROVE  FocusFollows(r, h, n + 1, w)
<1> DEFINE A == FocusAt(h, n)
           R == FocusRight(e, h, n, w)
           S == FocusRight(r, h, n + 1, w)
           ev == h[n + 1]
<1>0. /\ n \in 0..Len(h) /\ Len(h) \in Nat /\ n + 1 \in Nat
      /\ n <= n + 1 /\ n + 1 <= n + 1 /\ n + 1 <= Len(h) /\ ev \in Event
  BY PlacesNext, ElementOfSeq
<1>1. A \in SUBSET Nat /\ n \in A /\ \A k \in A : n <= k /\ k <= Len(h)
  BY <1>0, Places
<1>2. FocusAt(h, n + 1) = (A \ {n}) \cup {n + 1}
  BY PlacesNext
<1>3. Settled(A, R, Len(h))
  BY DEF FocusFollows
<1>4. ASSUME NEW k \in A, k \in R, n + 1 < k PROVE k \in S
  <2>1. /\ TellsFocus(h[k], w) /\ Steady(e.windows, h, n, w, Focused(w), k)
        /\ k \in Nat /\ k \in (n + 1)..Len(h) /\ n + 1 <= k /\ k <= k
    BY <1>0, <1>1, <1>4 DEF FocusRight
  <2>2. Steady(r.windows, h, n + 1, w, Focused(w), k)
    BY <2>1, SteadyNext
  <2> QED
    BY <1>4, <2>1, <2>2 DEF FocusRight
<1>5. ASSUME n + 1 \in R PROVE n + 1 \in S
  <2>1. TellsFocus(ev, w) /\ Steady(e.windows, h, n, w, Focused(w), n + 1)
    BY <1>5 DEF FocusRight
  <2>2. r.focused_window_id = Focused(w)
    <3>1. ev \in Event /\ Reduced(e, ev, r) /\ TellsFocus(ev, w)
      BY <1>0, <2>1
    <3> HIDE DEF ev
    <3> QED
      BY <3>1, FocusSet
  <2>3. Steady(r.windows, h, n + 1, w, Focused(w), n + 1)
    BY <1>0, <2>1, SteadyNext
  <2> QED
    BY <1>0, <2>2, <2>3 DEF FocusRight
<1>6. ASSUME n + 1 \notin A, n \in R PROVE n + 1 \in S
  <2>1. /\ ~AboutFocus(ev) /\ e.focused_window_id = Focused(w)
        /\ Steady(e.windows, h, n, w, Focused(w), n)
    BY <1>0, <1>6 DEF FocusAt, FocusRight
  <2>2. Focused(w) # None /\ AboutWindow(ev, Focused(w)) => TellsWindow(ev, Focused(w), w)
    <3>1. n + 1 \in (n + 1)..Len(h)
      BY <1>0
    <3> QED
      BY <1>0, <2>1, <3>1, SteadyNow
  <2>3. r.focused_window_id = Focused(w)
    BY <1>0, <2>1, <2>2, FocusSet
  <2>4. Steady(r.windows, h, n + 1, w, Focused(w), n + 1)
    BY <1>0, <2>1, SteadyNext
  <2> QED
    BY <1>0, <2>3, <2>4 DEF FocusRight
<1> HIDE DEF A, R, S, ev
<1>7. Settled((A \ {n}) \cup {n + 1}, S, Len(h))
  BY <1>0, <1>1, <1>3, <1>4, <1>5, <1>6, SettledNext
<1> QED
  BY <1>2, <1>7 DEF S, FocusFollows

(* So does the active window of a workspace. *)
LEMMA ActiveNext ==
    ASSUME NEW h \in Seq(Event), NEW n \in Nat, n < Len(h),
           NEW e \in EngineState, NEW r, Reduced(e, h[n + 1], r),
           NEW w, ActiveFollows(e, h, n, w)
    PROVE  ActiveFollows(r, h, n + 1, w)
<1> SUFFICES ASSUME NEW ws \in DOMAIN w.active
             PROVE  Settled(ActiveAt(h, n + 1, ws), ActiveRight(r, h, n + 1, w, ws), Len(h))
  BY DEF ActiveFollows
<1> DEFINE A == ActiveAt(h, n, ws)
           R == ActiveRight(e, h, n, w, ws)
           S == ActiveRight(r, h, n + 1, w, ws)
           ev == h[n + 1]
           id == w.active[ws]
<1>0. /\ n \in 0..Len(h) /\ Len(h) \in Nat /\ n + 1 \in Nat
      /\ n <= n + 1 /\ n + 1 <= n + 1 /\ n + 1 <= Len(h)
  BY PlacesNext
<1>1. A \in SUBSET Nat /\ n \in A /\ \A k \in A : n <= k /\ k <= Len(h)
  BY <1>0, Places
<1>2. ActiveAt(h, n + 1, ws) = (A \ {n}) \cup {n + 1}
  BY PlacesNext
<1>3. Settled(A, R, Len(h))
  BY DEF ActiveFollows
<1>4. ASSUME NEW k \in A, k \in R, n + 1 < k PROVE k \in S
  <2>1. /\ TellsActive(h[k], ws, w) /\ Steady(e.windows, h, n, w, id, k)
        /\ k \in Nat /\ k \in (n + 1)..Len(h) /\ n + 1 <= k /\ k <= k
    BY <1>0, <1>1, <1>4 DEF ActiveRight
  <2>2. Steady(r.windows, h, n + 1, w, id, k)
    BY <2>1, SteadyNext
  <2> QED
    BY <1>4, <2>1, <2>2 DEF ActiveRight
<1>5. ASSUME n + 1 \in R PROVE n + 1 \in S
  <2>1. TellsActive(ev, ws, w) /\ Steady(e.windows, h, n, w, id, n + 1)
    BY <1>5 DEF ActiveRight
  <2>2. SameActive(r.workspaces, ws, w)
    BY <2>1, ActiveSet
  <2>3. Steady(r.windows, h, n + 1, w, id, n + 1)
    BY <1>0, <2>1, SteadyNext
  <2> QED
    BY <1>0, <2>2, <2>3 DEF ActiveRight
<1>6. ASSUME n + 1 \notin A, n \in R PROVE n + 1 \in S
  <2>1. /\ ~AboutActive(ev, ws) /\ SameActive(e.workspaces, ws, w)
        /\ Steady(e.windows, h, n, w, id, n)
    BY <1>0, <1>6 DEF ActiveAt, ActiveRight
  <2>2. SameActive(r.workspaces, ws, w)
    BY <2>1, ActiveSet
  <2>3. Steady(r.windows, h, n + 1, w, id, n + 1)
    BY <1>0, <2>1, SteadyNext
  <2> QED
    BY <1>0, <2>2, <2>3 DEF ActiveRight
<1> HIDE DEF A, R, S, ev
<1>7. Settled((A \ {n}) \cup {n + 1}, S, Len(h))
  BY <1>0, <1>1, <1>3, <1>4, <1>5, <1>6, SettledNext
<1> QED
  BY <1>2, <1>7 DEF S

(* No old one is left. *)
LEMMA FreshNext ==
    ASSUME NEW h \in Seq(Event), NEW n \in Nat, n < Len(h),
           NEW e \in EngineState, NEW r, Reduced(e, h[n + 1], r),
           NEW w, ActiveFresh(e, h, n, w)
    PROVE  ActiveFresh(r, h, n + 1, w)
<1> SUFFICES ASSUME NEW ws \in DOMAIN w.active
             PROVE  Settled(ActiveAt(h, n + 1, ws), FreshRight(r, h, n + 1, w, ws), Len(h))
  BY DEF ActiveFresh
<1> DEFINE A == ActiveAt(h, n, ws)
           R == FreshRight(e, h, n, w, ws)
           S == FreshRight(r, h, n + 1, w, ws)
           ev == h[n + 1]
<1>0. /\ n \in 0..Len(h) /\ Len(h) \in Nat /\ n + 1 \in Nat
      /\ n <= n + 1 /\ n + 1 <= n + 1 /\ n + 1 <= Len(h)
  BY PlacesNext
<1>1. A \in SUBSET Nat /\ n \in A /\ \A k \in A : n <= k /\ k <= Len(h)
  BY <1>0, Places
<1>2. ActiveAt(h, n + 1, ws) = (A \ {n}) \cup {n + 1}
  BY PlacesNext
<1>3. Settled(A, R, Len(h))
  BY DEF ActiveFresh
<1>4. ASSUME NEW k \in A, k \in R, n + 1 < k PROVE k \in S
  BY <1>0, <1>1, <1>4 DEF FreshRight
<1>5. ASSUME n + 1 \in R PROVE n + 1 \in S
  <2>1. TellsActive(ev, ws, w)
    BY <1>5 DEF FreshRight
  <2>2. Fresh(r.workspaces, ws, w)
    BY <2>1, FreshSet
  <2> QED
    BY <1>0, <2>2 DEF FreshRight
<1>6. ASSUME n + 1 \notin A, n \in R PROVE n + 1 \in S
  <2>1. ~AboutActive(ev, ws) /\ Fresh(e.workspaces, ws, w)
    BY <1>0, <1>6 DEF ActiveAt, FreshRight
  <2>2. Fresh(r.workspaces, ws, w)
    BY <2>1, FreshSet
  <2> QED
    BY <1>0, <2>2 DEF FreshRight
<1> HIDE DEF A, R, S, ev
<1>7. Settled((A \ {n}) \cup {n + 1}, S, Len(h))
  BY <1>0, <1>1, <1>3, <1>4, <1>5, <1>6, SettledNext
<1> QED
  BY <1>2, <1>7 DEF S

(* What window is active, of a world. *)
LEMMA ActiveOf ==
    ASSUME NEW w \in Worlds, NEW ws \in DOMAIN w.active
    PROVE  /\ w.active[ws] \in Windows \cup {None}
           /\ w.active[ws] # None =>
                w.active[ws] \in DOMAIN w.where /\ w.where[w.active[ws]] = ws
BY WorldOf DEF On

(* An engine that follows still does when the next event is reduced. *)
LEMMA FollowsNext ==
    ASSUME NEW h \in Seq(Event), NEW n \in Nat, n < Len(h),
           NEW e \in EngineState, NEW w \in Worlds, Follows(e, h, n, w)
    PROVE  Follows(Reduce(e, h[n + 1]).engine, h, n + 1, w)
<1> DEFINE r == Reduce(e, h[n + 1]).engine
<1>1. Len(h) \in Nat /\ h[n + 1] \in Event /\ n + 1 <= Len(h) /\ Len(h) <= Len(h)
  BY ElementOfSeq
<1>2. Reduced(e, h[n + 1], r)
  BY <1>1, Reduces
<1> HIDE DEF r
<1>3. /\ w.focused \in DOMAIN w.active
      /\ Focused(w) # None => Focused(w) \in DOMAIN w.where
  BY WorldOf, ActiveOf DEF Focused
<1>4. WindowsFollow(r, h, n + 1, w)
  <2> SUFFICES ASSUME NEW id \in Windows
               PROVE  Steady(r.windows, h, n + 1, w, id, Len(h))
    BY DEF WindowsFollow
  <2>1. Steady(e.windows, h, n, w, id, Len(h))
    BY DEF Follows, WindowsFollow
  <2> QED
    BY <1>1, <1>2, <2>1, SteadyNext
<1>5. WorkspacesFollow(r, h, n + 1, w)
  BY <1>2, WorkspacesNext DEF Follows
<1>6. FlagsFollow(r, h, n + 1, w)
  BY <1>2, FlagsNext DEF Follows
<1>7. FocusFollows(r, h, n + 1, w)
  BY <1>2, <1>3, FocusNext DEF Follows
<1>8. ~workspacesFirst => ActiveFollows(r, h, n + 1, w)
  BY <1>2, ActiveNext DEF Follows
<1>9. ActiveFresh(r, h, n + 1, w)
  BY <1>2, FreshNext DEF Follows
<1> QED
  BY <1>4, <1>5, <1>6, <1>7, <1>8, <1>9 DEF Follows, r

(* Only the windows, the workspaces and the focused window are followed. *)
LEMMA FollowsSame ==
    ASSUME NEW h \in Seq(Event), NEW n \in 0..Len(h), NEW w \in Worlds, NEW e, NEW d,
           Follows(e, h, n, w), d.windows = e.windows, d.workspaces = e.workspaces,
           d.focused_window_id = e.focused_window_id
    PROVE  Follows(d, h, n, w)
<1>1. /\ Focused(w) \in Windows \cup {None}
      /\ \A ws \in DOMAIN w.active : w.active[ws] \in Windows \cup {None}
  BY WorldOf, ActiveOf DEF Focused
<1> QED
  BY <1>1, FollowsBetter

(* The repairs take nothing away that is right: what they erase is not there. *)
LEMMA ReconcileFollows ==
    ASSUME NEW h \in Seq(Event), NEW n \in 0..Len(h), NEW w \in Worlds,
           NEW e \in EngineState, Follows(e, h, n, w)
    PROVE  Follows(Reconcile(e), h, n, w)
<1> DEFINE d == Reconcile(e)
<1>1. /\ d.windows = e.windows /\ d.workspaces = Related(e)
      /\ d.focused_window_id = IF e.focused_window_id \in DOMAIN e.windows
                               THEN e.focused_window_id ELSE None
  BY Reconciled
<1> HIDE DEF d
<1>2. /\ Focused(w) \in Windows \cup {None}
      /\ \A ws \in DOMAIN w.active : w.active[ws] \in Windows \cup {None}
      /\ Focused(w) # None => Focused(w) \in DOMAIN w.where
  BY WorldOf, ActiveOf DEF Focused
<1>3. /\ DOMAIN d.workspaces = DOMAIN e.workspaces
      /\ \A ws \in DOMAIN e.workspaces :
           /\ d.workspaces[ws].output = e.workspaces[ws].output
           /\ d.workspaces[ws].is_active = e.workspaces[ws].is_active
           /\ d.workspaces[ws].is_focused = e.workspaces[ws].is_focused
           /\ d.workspaces[ws].active_window_id =
                IF OnWorkspace(e, e.workspaces[ws].active_window_id, ws)
                THEN e.workspaces[ws].active_window_id ELSE None
  <2>1. \A ws \in DOMAIN e.workspaces : e.workspaces[ws] \in Workspace
    BY WorkspaceOf
  <2> QED
    BY <1>1, <2>1 DEF Related, Workspace
<1>4. SameWorkspaces(e.workspaces, w) => SameWorkspaces(d.workspaces, w)
  BY <1>3 DEF SameWorkspaces
<1>5. \A o : SameFlags(e.workspaces, o, w) => SameFlags(d.workspaces, o, w)
  BY <1>3 DEF SameFlags
<1>6. ASSUME e.focused_window_id = Focused(w),
             Focused(w) # None => Shows(e.windows, Focused(w), w)
      PROVE  d.focused_window_id = Focused(w)
  BY <1>1, <1>2, <1>6 DEF Shows
<1>7. ASSUME NEW ws \in DOMAIN w.active, SameActive(e.workspaces, ws, w),
             w.active[ws] # None => Shows(e.windows, w.active[ws], w)
      PROVE  SameActive(d.workspaces, ws, w)
  <2>1. SUFFICES ASSUME ws \in DOMAIN e.workspaces
                 PROVE  d.workspaces[ws].active_window_id = w.active[ws]
    BY <1>3 DEF SameActive
  <2>2. e.workspaces[ws].active_window_id = w.active[ws]
    BY <1>7, <2>1 DEF SameActive
  <2>3. ASSUME w.active[ws] # None PROVE OnWorkspace(e, w.active[ws], ws)
    <3>1. w.active[ws] \in DOMAIN w.where /\ w.where[w.active[ws]] = ws
      BY <2>3, ActiveOf
    <3>2. /\ w.active[ws] \in DOMAIN e.windows
          /\ e.windows[w.active[ws]] = WindowList(w)[w.active[ws]]
      BY <1>7, <2>3, <3>1 DEF Shows
    <3>3. WindowList(w)[w.active[ws]].workspace_id = ws
      BY <3>1 DEF WindowList
    <3> QED
      BY <3>2, <3>3 DEF OnWorkspace
  <2> QED
    BY <1>3, <2>1, <2>2, <2>3
<1>8. \A ws : Fresh(e.workspaces, ws, w) => Fresh(d.workspaces, ws, w)
  BY <1>3 DEF Fresh
<1>9. Follows(d, h, n, w)
  BY <1>1, <1>2, <1>4, <1>5, <1>6, <1>7, <1>8, FollowsBetter
<1> QED
  BY <1>9 DEF d

(* Neither do the checks, nor the end of the bootstrap. *)
LEMMA CheckedFollows ==
    ASSUME NEW h \in Seq(Event), NEW n \in 0..Len(h), NEW w \in Worlds,
           NEW e \in EngineState, Follows(e, h, n, w)
    PROVE  Follows(Checked(e), h, n, w) /\ Follows(Bootstrapped(e), h, n, w)
<1>1. ASSUME NEW c \in EngineState, Follows(c, h, n, w)
      PROVE  Follows(Checked(c), h, n, w)
  <2> DEFINE d == [c EXCEPT !.health = "stale"]
  <2>1. /\ d \in EngineState /\ d.windows = c.windows /\ d.workspaces = c.workspaces
        /\ d.focused_window_id = c.focused_window_id
    BY DEF EngineState
  <2> HIDE DEF d
  <2>2. Follows(Reconcile(d), h, n, w)
    <3>1. Follows(d, h, n, w)
      BY <1>1, <2>1, FollowsSame
    <3> QED
      BY <2>1, <3>1, ReconcileFollows
  <2> QED
    BY <1>1, <2>2 DEF Checked, d
<1> DEFINE c == [e EXCEPT !.health = IF @ = "bootstrapping" THEN "live" ELSE @]
<1>2. /\ c \in EngineState /\ c.windows = e.windows /\ c.workspaces = e.workspaces
      /\ c.focused_window_id = e.focused_window_id
  BY DEF EngineState
<1> HIDE DEF c
<1>3. Follows(c, h, n, w)
  BY <1>2, FollowsSame
<1>4. Follows(Checked(e), h, n, w) /\ Follows(Checked(c), h, n, w)
  BY <1>1, <1>2, <1>3
<1> QED
  BY <1>4 DEF Bootstrapped, c

(* The loop's body, whether the reducer raised or not. *)
LEMMA HandleFollows ==
    ASSUME NEW h \in Seq(Event), NEW n \in 0..Len(h), NEW w \in Worlds,
           NEW r, r.engine \in EngineState, Follows(r.engine, h, n, w), Handle(r)
    PROVE  Follows(engine', h, n, w)
<1> DEFINE e == r.engine
<1>1. CASE r.desync
  <2> DEFINE c == [e EXCEPT !.health = "stale", !.desynced = TRUE]
  <2>1. /\ c \in EngineState /\ c.windows = e.windows /\ c.workspaces = e.workspaces
        /\ c.focused_window_id = e.focused_window_id
    BY DEF EngineState
  <2>2. engine' = Reconcile(c)
    BY <1>1 DEF Handle, Desync
  <2> HIDE DEF c
  <2>3. Follows(c, h, n, w)
    BY <2>1, FollowsSame
  <2> QED
    BY <2>1, <2>2, <2>3, ReconcileFollows
<1>2. CASE ~r.desync
  <2>1. engine' = Checked(Reconcile(e))
    BY <1>2 DEF Handle, Apply
  <2>2. Reconcile(e) \in EngineState
    BY Reconciled
  <2>3. Follows(Reconcile(e), h, n, w)
    BY ReconcileFollows
  <2> QED
    BY <2>1, <2>2, <2>3, CheckedFollows
<1> QED
  BY <1>1, <1>2

-------------------------------------------------------------------------------
(* Histories *)

(* The events that have been handled can be forgotten. *)
LEMMA FollowsShift ==
    ASSUME NEW h \in Seq(Event), NEW s \in Seq(Event), NEW n \in Nat,
           Len(h) = Len(s) + n, \A i \in 1..Len(s) : h[i + n] = s[i],
           NEW e, NEW w, Follows(e, h, n, w)
    PROVE  Follows(e, s, 0, w)
<1>1. /\ Len(s) \in Nat /\ Len(h) \in Nat /\ n \in 0..Len(h) /\ 0 \in 0..Len(s)
      /\ 0..Len(s) \subseteq Nat
  OBVIOUS
<1>2. ASSUME NEW k \in Nat
      PROVE  /\ k \in 0..Len(s) <=> k + n \in n..Len(h)
             /\ k = 0 <=> k + n = n
             /\ k \in 0..Len(s) /\ k # 0 => h[k + n] = s[k]
  BY <1>1
<1>3. ASSUME NEW id, NEW i \in Nat, Steady(e.windows, h, n, w, id, i + n)
      PROVE  Steady(e.windows, s, 0, w, id, i)
  <2> SUFFICES ASSUME id # None
               PROVE  Settled(WindowAt(s, 0, id), WindowRight(e.windows, s, 0, w, id), i)
    BY DEF Steady
  <2> DEFINE A == WindowAt(h, n, id)
             R == WindowRight(e.windows, h, n, w, id)
             B == WindowAt(s, 0, id)
             S == WindowRight(e.windows, s, 0, w, id)
  <2>1. \A k \in Nat : k \in B <=> k + n \in A
    BY <1>2 DEF WindowAt
  <2>2. \A k \in B : k + n \in R => k \in S
    BY <1>1, <1>2 DEF WindowRight, WindowAt
  <2>3. A \in SUBSET Nat /\ B \in SUBSET Nat /\ \A k \in A : n <= k
    BY <1>1, Places
  <2>4. Settled(A, R, i + n)
    BY <1>3 DEF Steady
  <2> HIDE DEF A, R, B, S
  <2>5. Settled(B, S, i)
    BY <2>1, <2>2, <2>3, <2>4, SettledShift
  <2> QED
    BY <2>5 DEF B, S
<1>4. WindowsFollow(e, s, 0, w)
  BY <1>1, <1>3 DEF Follows, WindowsFollow
<1>5. WorkspacesFollow(e, s, 0, w)
  <2> DEFINE A == ListAt(h, n)
             R == ListRight(e, h, n, w)
             B == ListAt(s, 0)
             S == ListRight(e, s, 0, w)
  <2>1. \A k \in Nat : k \in B <=> k + n \in A
    BY <1>2 DEF ListAt
  <2>2. \A k \in B : k + n \in R => k \in S
    BY <1>1, <1>2 DEF ListRight, ListAt
  <2>3. A \in SUBSET Nat /\ B \in SUBSET Nat /\ \A k \in A : n <= k
    BY <1>1, Places
  <2>4. Settled(A, R, Len(s) + n)
    BY DEF Follows, WorkspacesFollow
  <2> HIDE DEF A, R, B, S
  <2>5. Settled(B, S, Len(s))
    BY <1>1, <2>1, <2>2, <2>3, <2>4, SettledShift
  <2> QED
    BY <2>5 DEF B, S, WorkspacesFollow
<1>6. FlagsFollow(e, s, 0, w)
  <2> SUFFICES ASSUME NEW o \in Outputs
               PROVE  Settled(FlagsAt(s, 0, o, w), FlagsRight(e, s, 0, o, w), Len(s))
    BY DEF FlagsFollow
  <2> DEFINE A == FlagsAt(h, n, o, w)
             R == FlagsRight(e, h, n, o, w)
             B == FlagsAt(s, 0, o, w)
             S == FlagsRight(e, s, 0, o, w)
  <2>1. \A k \in Nat : k \in B <=> k + n \in A
    BY <1>2 DEF FlagsAt
  <2>2. \A k \in B : k + n \in R => k \in S
    BY <1>1, <1>2 DEF FlagsRight, FlagsAt
  <2>3. A \in SUBSET Nat /\ B \in SUBSET Nat /\ \A k \in A : n <= k
    BY <1>1, Places
  <2>4. Settled(A, R, Len(s) + n)
    BY DEF Follows, FlagsFollow
  <2> HIDE DEF A, R, B, S
  <2>5. Settled(B, S, Len(s))
    BY <1>1, <2>1, <2>2, <2>3, <2>4, SettledShift
  <2> QED
    BY <2>5 DEF B, S
<1>7. FocusFollows(e, s, 0, w)
  <2> DEFINE A == FocusAt(h, n)
             R == FocusRight(e, h, n, w)
             B == FocusAt(s, 0)
             S == FocusRight(e, s, 0, w)
  <2>1. \A k \in Nat : k \in B <=> k + n \in A
    BY <1>2 DEF FocusAt
  <2>2. ASSUME NEW k \in B, k + n \in R PROVE k \in S
    <3>1. k \in Nat /\ k \in 0..Len(s) /\ Steady(e.windows, h, n, w, Focused(w), k + n)
      BY <1>1, <2>2 DEF FocusRight, FocusAt
    <3>2. Steady(e.windows, s, 0, w, Focused(w), k)
      BY <1>3, <3>1
    <3> QED
      BY <1>1, <1>2, <2>2, <3>1, <3>2 DEF FocusRight
  <2>3. A \in SUBSET Nat /\ B \in SUBSET Nat /\ \A k \in A : n <= k
    BY <1>1, Places
  <2>4. Settled(A, R, Len(s) + n)
    BY DEF Follows, FocusFollows
  <2> HIDE DEF A, R, B, S
  <2>5. Settled(B, S, Len(s))
    BY <1>1, <2>1, <2>2, <2>3, <2>4, SettledShift
  <2> QED
    BY <2>5 DEF B, S, FocusFollows
<1>8. ASSUME ActiveFollows(e, h, n, w) PROVE ActiveFollows(e, s, 0, w)
  <2> SUFFICES ASSUME NEW ws \in DOMAIN w.active
               PROVE  Settled(ActiveAt(s, 0, ws), ActiveRight(e, s, 0, w, ws), Len(s))
    BY DEF ActiveFollows
  <2> DEFINE A == ActiveAt(h, n, ws)
             R == ActiveRight(e, h, n, w, ws)
             B == ActiveAt(s, 0, ws)
             S == ActiveRight(e, s, 0, w, ws)
  <2>1. \A k \in Nat : k \in B <=> k + n \in A
    BY <1>2 DEF ActiveAt
  <2>2. ASSUME NEW k \in B, k + n \in R PROVE k \in S
    <3>1. k \in Nat /\ k \in 0..Len(s) /\ Steady(e.windows, h, n, w, w.active[ws], k + n)
      BY <1>1, <2>2 DEF ActiveRight, ActiveAt
    <3>2. Steady(e.windows, s, 0, w, w.active[ws], k)
      BY <1>3, <3>1
    <3> QED
      BY <1>1, <1>2, <2>2, <3>1, <3>2 DEF ActiveRight
  <2>3. A \in SUBSET Nat /\ B \in SUBSET Nat /\ \A k \in A : n <= k
    BY <1>1, Places
  <2>4. Settled(A, R, Len(s) + n)
    BY <1>8 DEF ActiveFollows
  <2> HIDE DEF A, R, B, S
  <2>5. Settled(B, S, Len(s))
    BY <1>1, <2>1, <2>2, <2>3, <2>4, SettledShift
  <2> QED
    BY <2>5 DEF B, S
<1>9. ActiveFresh(e, s, 0, w)
  <2> SUFFICES ASSUME NEW ws \in DOMAIN w.active
               PROVE  Settled(ActiveAt(s, 0, ws), FreshRight(e, s, 0, w, ws), Len(s))
    BY DEF ActiveFresh
  <2> DEFINE A == ActiveAt(h, n, ws)
             R == FreshRight(e, h, n, w, ws)
             B == ActiveAt(s, 0, ws)
             S == FreshRight(e, s, 0, w, ws)
  <2>1. \A k \in Nat : k \in B <=> k + n \in A
    BY <1>2 DEF ActiveAt
  <2>2. \A k \in B : k + n \in R => k \in S
    BY <1>1, <1>2 DEF FreshRight, ActiveAt
  <2>3. A \in SUBSET Nat /\ B \in SUBSET Nat /\ \A k \in A : n <= k
    BY <1>1, Places
  <2>4. Settled(A, R, Len(s) + n)
    BY DEF Follows, ActiveFresh
  <2> HIDE DEF A, R, B, S
  <2>5. Settled(B, S, Len(s))
    BY <1>1, <2>1, <2>2, <2>3, <2>4, SettledShift
  <2> QED
    BY <2>5 DEF B, S
<1> QED
  BY <1>4, <1>5, <1>6, <1>7, <1>8, <1>9 DEF Follows

-------------------------------------------------------------------------------
(* The compositor changes *)

\* Window id is what it was.
SameWindow(w, v, id) ==
    /\ id \in DOMAIN w.where <=> id \in DOMAIN v.where
    /\ id \in DOMAIN w.where => w.where[id] = v.where[id]

\* No event is about window id.
Quiet(es, id) == \A i \in 1..Len(es) : ~AboutWindow(es[i], id)

\* What is shown on output o is what was, and the focus has not come there.
ShownAsWas(w, v, o) ==
    \A ws :
        /\ OnOutput(w, ws, o) <=> OnOutput(v, ws, o)
        /\ OnOutput(v, ws, o) => /\ ws \in w.shown <=> ws \in v.shown
                                 /\ ws = v.focused => ws = w.focused

\* What an event says is so in world v.
Correct(ev, v) ==
    /\ \A id : AboutWindow(ev, id) => TellsWindow(ev, id, v)
    /\ ev.type = "WorkspacesChanged" => TellsWorkspaces(ev, v)
    /\ \A o : AboutFlags(ev, o, v) => TellsFlags(ev, o, v)
    /\ AboutFocus(ev) => TellsFocus(ev, v)
    /\ \A ws \in DOMAIN v.active : AboutActive(ev, ws) => TellsActive(ev, ws, v)

\* What no event is about is the same in worlds w and v; nor is any about a window
\* that has the focus, or is active, if there is none that says so.
Complete(es, w, v) ==
    /\ \A id : Quiet(es, id) => SameWindow(w, v, id)
    /\ \/ \E i \in 1..Len(es) : es[i].type = "WorkspacesChanged"
       \/ DOMAIN w.active = DOMAIN v.active /\ w.output = v.output
    /\ \A o : (\E i \in 1..Len(es) : AboutFlags(es[i], o, v)) \/ ShownAsWas(w, v, o)
    /\ \/ \E i \in 1..Len(es) : AboutFocus(es[i])
       \/ Focused(w) = Focused(v) /\ (Focused(v) = None \/ Quiet(es, Focused(v)))
    /\ \A ws \in DOMAIN v.active :
         \/ \E i \in 1..Len(es) : AboutActive(es[i], ws)
         \/ /\ ws \in DOMAIN w.active /\ w.active[ws] = v.active[ws]
            /\ v.active[ws] = None \/ Quiet(es, v.active[ws])

\* Events about a window that has the focus come before the one that says so; the
\* same of an active window, if events about windows come first.
Ordered(es, v) ==
    \A i \in 1..Len(es), j \in 1..Len(es) :
        /\ AboutFocus(es[i]) /\ AboutWindow(es[j], Focused(v)) =>
             \E k \in 1..i : AboutWindow(es[k], Focused(v))
        /\ ~workspacesFirst =>
             \A ws \in DOMAIN v.active :
                AboutActive(es[i], ws) /\ AboutWindow(es[j], v.active[ws]) =>
                  \E k \in 1..i : AboutWindow(es[k], v.active[ws])

\* The events of a change from w to v.
Sent(es, w, v) ==
    /\ es \in Seq(Event)
    /\ \A i \in 1..Len(es) : Correct(es[i], v)
    /\ Complete(es, w, v) /\ Ordered(es, v)

(* Events that are added come after those that are there. *)
LEMMA Longer ==
    ASSUME NEW h \in Seq(Event), NEW es \in Seq(Event)
    PROVE  LET g == h \o es
           IN /\ g \in Seq(Event) /\ Len(h) \in Nat /\ Len(g) \in Nat
              /\ Len(es) \in Nat /\ Len(g) = Len(h) + Len(es) /\ Len(h) <= Len(g)
              /\ \A k \in 1..Len(h) : g[k] = h[k]
              /\ \A k \in (Len(h) + 1)..Len(g) :
                   k - Len(h) \in 1..Len(es) /\ g[k] = es[k - Len(h)]
              /\ \A i \in 1..Len(es) :
                   Len(h) + i \in (Len(h) + 1)..Len(g) /\ g[Len(h) + i] = es[i]
<1> DEFINE g == h \o es
<1>1. Len(h) \in Nat /\ Len(es) \in Nat
  OBVIOUS
<1>2. /\ g \in Seq(Event) /\ Len(g) = Len(h) + Len(es)
      /\ \A k \in 1..(Len(h) + Len(es)) :
           g[k] = IF k <= Len(h) THEN h[k] ELSE es[k - Len(h)]
  BY ConcatProperties
<1> HIDE DEF g
<1>3. /\ \A k \in 1..Len(h) : k \in 1..(Len(h) + Len(es)) /\ k <= Len(h)
      /\ \A k \in (Len(h) + 1)..(Len(h) + Len(es)) :
           k \in 1..(Len(h) + Len(es)) /\ ~(k <= Len(h)) /\ k - Len(h) \in 1..Len(es)
      /\ \A i \in 1..Len(es) :
           /\ Len(h) + i \in (Len(h) + 1)..(Len(h) + Len(es))
           /\ (Len(h) + i) - Len(h) = i
  BY <1>1
<1>4. \A k \in 1..Len(h) : g[k] = h[k]
  BY <1>2, <1>3
<1>5. \A k \in (Len(h) + 1)..Len(g) : k - Len(h) \in 1..Len(es) /\ g[k] = es[k - Len(h)]
  BY <1>2, <1>3
<1>6. \A i \in 1..Len(es) : Len(h) + i \in (Len(h) + 1)..Len(g) /\ g[Len(h) + i] = es[i]
  BY <1>2, <1>3, <1>5
<1>7. Len(g) \in Nat /\ Len(h) <= Len(g)
  BY <1>1, <1>2
<1> QED
  BY <1>1, <1>2, <1>4, <1>5, <1>6, <1>7 DEF g

(* The places where something is set, with the events that are added. *)
LEMMA PlacesMore ==
    ASSUME NEW h \in Seq(Event), NEW es \in Seq(Event), NEW n \in 0..Len(h)
    PROVE  LET g == h \o es
               new == (Len(h) + 1)..Len(g)
           IN /\ \A id : WindowAt(g, n, id) =
                           WindowAt(h, n, id) \cup {k \in new : AboutWindow(g[k], id)}
              /\ ListAt(g, n) =
                   ListAt(h, n) \cup {k \in new : g[k].type = "WorkspacesChanged"}
              /\ \A o, w : FlagsAt(g, n, o, w) =
                             FlagsAt(h, n, o, w) \cup {k \in new : AboutFlags(g[k], o, w)}
              /\ FocusAt(g, n) = FocusAt(h, n) \cup {k \in new : AboutFocus(g[k])}
              /\ \A ws : ActiveAt(g, n, ws) =
                           ActiveAt(h, n, ws) \cup {k \in new : AboutActive(g[k], ws)}
              /\ \A k \in n..Len(h) : k = n \/ g[k] = h[k]
              /\ \A k \in new : k \in Nat /\ k # n /\ k \in n..Len(g)
              /\ \A k \in n..Len(h) : k \in n..Len(g) /\ \A m \in new : k < m
<1> DEFINE g == h \o es
           new == (Len(h) + 1)..Len(g)
<1>1. /\ Len(h) \in Nat /\ Len(g) \in Nat /\ Len(h) <= Len(g)
      /\ \A k \in 1..Len(h) : g[k] = h[k]
  BY Longer
<1> HIDE DEF g
<1>2. /\ n..Len(g) = (n..Len(h)) \cup new
      /\ \A k \in new : k \in Nat /\ k # n /\ k \in n..Len(g)
      /\ \A k \in n..Len(h) : k \in n..Len(g) /\ \A m \in new : k < m
  BY <1>1
<1>3. \A k \in n..Len(h) : k = n \/ g[k] = h[k]
  BY <1>1
<1> HIDE DEF new
<1>4. \A id : WindowAt(g, n, id) =
                WindowAt(h, n, id) \cup {k \in new : AboutWindow(g[k], id)}
  BY <1>2, <1>3 DEF WindowAt
<1>5. ListAt(g, n) = ListAt(h, n) \cup {k \in new : g[k].type = "WorkspacesChanged"}
  BY <1>2, <1>3 DEF ListAt
<1>6. \A o, w : FlagsAt(g, n, o, w) =
                  FlagsAt(h, n, o, w) \cup {k \in new : AboutFlags(g[k], o, w)}
  BY <1>2, <1>3 DEF FlagsAt
<1>7. FocusAt(g, n) = FocusAt(h, n) \cup {k \in new : AboutFocus(g[k])}
  BY <1>2, <1>3 DEF FocusAt
<1>8. \A ws : ActiveAt(g, n, ws) =
                ActiveAt(h, n, ws) \cup {k \in new : AboutActive(g[k], ws)}
  BY <1>2, <1>3 DEF ActiveAt
<1> QED
  BY <1>2, <1>3, <1>4, <1>5, <1>6, <1>7, <1>8 DEF g, new

(* What says so of a window says so if the window is the same. *)
LEMMA SameShown ==
    ASSUME NEW w, NEW v, NEW id, SameWindow(w, v, id)
    PROVE  /\ \A list : Shows(list, id, w) => Shows(list, id, v)
           /\ \A ev : TellsWindow(ev, id, w) => TellsWindow(ev, id, v)
<1>1. id \in DOMAIN w.where => WindowList(w)[id] = WindowList(v)[id]
  BY DEF SameWindow, WindowList
<1>2. \A list : Shows(list, id, w) => Shows(list, id, v)
  BY <1>1 DEF Shows, SameWindow
<1> QED
  BY <1>1, <1>2 DEF TellsWindow, SameWindow

(* A window that no event is about is as steady as it was. *)
LEMMA SteadyQuiet ==
    ASSUME NEW h \in Seq(Event), NEW es \in Seq(Event), NEW n \in 0..Len(h),
           NEW list, NEW w, NEW v, NEW id, NEW i,
           Quiet(es, id), SameWindow(w, v, id), Steady(list, h, n, w, id, i)
    PROVE  Steady(list, h \o es, n, v, id, i)
<1> DEFINE g == h \o es
           new == (Len(h) + 1)..Len(g)
<1>1. /\ WindowAt(g, n, id) = WindowAt(h, n, id) \cup {k \in new : AboutWindow(g[k], id)}
      /\ \A k \in n..Len(h) : k \in n..Len(g) /\ (k = n \/ g[k] = h[k])
  BY PlacesMore
<1>2. \A k \in new : k - Len(h) \in 1..Len(es) /\ g[k] = es[k - Len(h)]
  BY Longer
<1> HIDE DEF g, new
<1>3. WindowAt(g, n, id) = WindowAt(h, n, id)
  BY <1>1, <1>2 DEF Quiet
<1>4. WindowRight(list, h, n, w, id) \subseteq WindowRight(list, g, n, v, id)
  BY <1>1, SameShown DEF WindowRight
<1>5. Steady(list, g, n, v, id, i)
  BY <1>3, <1>4, SettledBetter DEF Steady
<1> QED
  BY <1>5 DEF g

(* One that an event is about is steady from there on. *)
LEMMA SteadyTold ==
    ASSUME NEW h \in Seq(Event), NEW es \in Seq(Event), NEW n \in 0..Len(h),
           NEW list, NEW v, NEW id, \A k \in 1..Len(es) : Correct(es[k], v),
           NEW b \in 1..Len(es), AboutWindow(es[b], id),
           NEW j \in Nat, Len(h) + b <= j
    PROVE  Steady(list, h \o es, n, v, id, j)
<1> DEFINE g == h \o es
           new == (Len(h) + 1)..Len(g)
           A == WindowAt(h, n, id)
           B == {k \in new : AboutWindow(g[k], id)}
           R == WindowRight(list, g, n, v, id)
<1>1. /\ WindowAt(g, n, id) = A \cup B
      /\ \A k \in new : k \in Nat /\ k # n /\ k \in n..Len(g)
      /\ \A k \in n..Len(h) : \A m \in new : k < m
  BY PlacesMore
<1>2. /\ \A k \in new : k - Len(h) \in 1..Len(es) /\ g[k] = es[k - Len(h)]
      /\ Len(h) + b \in new /\ g[Len(h) + b] = es[b]
  BY Longer
<1>3. A \in SUBSET Nat /\ A \subseteq n..Len(h)
  BY Places DEF WindowAt
<1> HIDE DEF g, new
<1>4. B \subseteq R
  BY <1>1, <1>2 DEF Correct, WindowRight
<1>5. Len(h) + b \in B /\ B \in SUBSET Nat /\ \A k \in A : k < Len(h) + b
  BY <1>1, <1>2, <1>3
<1> HIDE DEF A, B, R
<1>6. Settled(A \cup B, R, j)
  BY <1>3, <1>4, <1>5, SettledMore
<1>7. Steady(list, g, n, v, id, j)
  BY <1>1, <1>6 DEF Steady, R
<1> QED
  BY <1>7 DEF g

(* Steady early is steady later. *)
LEMMA SteadyLater ==
    ASSUME NEW h \in Seq(Event), NEW n \in 0..Len(h), NEW list, NEW w, NEW id,
           NEW i \in Nat, NEW j \in Nat, i <= j, Steady(list, h, n, w, id, i)
    PROVE  Steady(list, h, n, w, id, j)
<1>1. WindowAt(h, n, id) \in SUBSET Nat
  BY Places
<1> QED
  BY <1>1, SettledLater DEF Steady

(* A window is steady after the i-th event that is added, if one up to there is about
   it or none at all is. *)
LEMMA SteadySent ==
    ASSUME NEW h \in Seq(Event), NEW n \in 0..Len(h), NEW e, NEW w, NEW v, NEW es,
           Sent(es, w, v), WindowsFollow(e, h, n, w), NEW id \in Windows \cup {None},
           NEW i \in 1..Len(es),
           \A j \in 1..Len(es) :
             AboutWindow(es[j], id) => \E k \in 1..i : AboutWindow(es[k], id)
    PROVE  Steady(e.windows, h \o es, n, v, id, Len(h) + i)
<1>1. es \in Seq(Event) /\ \A k \in 1..Len(es) : Correct(es[k], v)
  BY DEF Sent
<1>2. /\ h \o es \in Seq(Event) /\ Len(h) \in Nat /\ Len(es) \in Nat
      /\ Len(h) <= Len(h \o es) /\ Len(h \o es) \in Nat
  BY <1>1, Longer
<1>3. /\ i \in Nat /\ Len(h) + i \in Nat /\ Len(h) <= Len(h) + i
      /\ n \in 0..Len(h \o es)
  BY <1>2
<1>4. CASE id = None
  BY <1>4 DEF Steady
<1>5. CASE id \in Windows /\ Quiet(es, id)
  <2>1. SameWindow(w, v, id)
    BY <1>5 DEF Sent, Complete
  <2>2. Steady(e.windows, h, n, w, id, Len(h))
    BY <1>5 DEF WindowsFollow
  <2>3. Steady(e.windows, h \o es, n, v, id, Len(h))
    BY <1>1, <1>5, <2>1, <2>2, SteadyQuiet
  <2> QED
    BY <1>2, <1>3, <2>3, SteadyLater
<1>6. CASE ~Quiet(es, id)
  <2>1. PICK k \in 1..i : AboutWindow(es[k], id)
    BY <1>6 DEF Quiet
  <2>2. k \in 1..Len(es) /\ Len(h) + k <= Len(h) + i
    BY <1>2
  <2> QED
    BY <1>1, <1>3, <2>1, <2>2, SteadyTold
<1> QED
  BY <1>4, <1>5, <1>6

(* The windows are followed through a change. *)
LEMMA WindowsMore ==
    ASSUME NEW h \in Seq(Event), NEW n \in 0..Len(h), NEW e, NEW w, NEW v, NEW es,
           Sent(es, w, v), WindowsFollow(e, h, n, w)
    PROVE  WindowsFollow(e, h \o es, n, v)
<1> DEFINE g == h \o es
<1>1. es \in Seq(Event) /\ \A k \in 1..Len(es) : Correct(es[k], v)
  BY DEF Sent
<1>2. /\ g \in Seq(Event) /\ Len(h) \in Nat /\ Len(g) \in Nat /\ Len(es) \in Nat
      /\ Len(h) <= Len(g) /\ Len(g) = Len(h) + Len(es)
  BY <1>1, Longer
<1>3. n \in 0..Len(g)
  BY <1>2
<1> SUFFICES ASSUME NEW id \in Windows
             PROVE  Steady(e.windows, g, n, v, id, Len(g))
  BY DEF WindowsFollow
<1>4. CASE Quiet(es, id)
  <2>1. SameWindow(w, v, id)
    BY <1>4 DEF Sent, Complete
  <2>2. Steady(e.windows, h, n, w, id, Len(h))
    BY DEF WindowsFollow
  <2>3. Steady(e.windows, g, n, v, id, Len(h))
    BY <1>1, <1>4, <2>1, <2>2, SteadyQuiet
  <2> HIDE DEF g
  <2> QED
    BY <1>2, <1>3, <2>3, SteadyLater
<1>5. CASE ~Quiet(es, id)
  <2>1. PICK k \in 1..Len(es) : AboutWindow(es[k], id)
    BY <1>5 DEF Quiet
  <2>2. Len(h) + k <= Len(g)
    BY <1>2
  <2> QED
    BY <1>1, <1>2, <2>1, <2>2, SteadyTold
<1> QED
  BY <1>4, <1>5

(* So are the workspaces. *)
LEMMA WorkspacesMore ==
    ASSUME NEW h \in Seq(Event), NEW n \in 0..Len(h), NEW e, NEW w, NEW v, NEW es,
           Sent(es, w, v), WorkspacesFollow(e, h, n, w)
    PROVE  WorkspacesFollow(e, h \o es, n, v)
<1> DEFINE g == h \o es
           new == (Len(h) + 1)..Len(g)
           A == ListAt(h, n)
           B == {k \in new : g[k].type = "WorkspacesChanged"}
           R == ListRight(e, h, n, w)
           S == ListRight(e, g, n, v)
<1>1. es \in Seq(Event) /\ \A k \in 1..Len(es) : Correct(es[k], v)
  BY DEF Sent
<1>2. /\ Len(h) \in Nat /\ Len(g) \in Nat /\ Len(h) <= Len(g)
      /\ \A k \in new : k - Len(h) \in 1..Len(es) /\ g[k] = es[k - Len(h)]
      /\ \A i \in 1..Len(es) : Len(h) + i \in new /\ g[Len(h) + i] = es[i]
  BY <1>1, Longer
<1>3. /\ ListAt(g, n) = A \cup B
      /\ \A k \in n..Len(h) : k \in n..Len(g) /\ (k = n \/ g[k] = h[k])
      /\ \A k \in new : k \in Nat /\ k # n /\ k \in n..Len(g)
      /\ \A k \in n..Len(h) : \A m \in new : k < m
  BY <1>1, PlacesMore
<1>4. A \in SUBSET Nat /\ A \subseteq n..Len(h)
  BY Places DEF ListAt
<1> HIDE DEF g
<1>5. CASE \E i \in 1..Len(es) : es[i].type = "WorkspacesChanged"
  <2>1. PICK i \in 1..Len(es) : es[i].type = "WorkspacesChanged"
    BY <1>5
  <2> DEFINE b == Len(h) + i
  <2>2. b \in B /\ b \in Nat /\ b <= Len(g) /\ \A k \in A : k < b
    BY <1>2, <1>3, <1>4, <2>1
  <2>3. B \subseteq S /\ B \in SUBSET Nat
    BY <1>1, <1>2, <1>3 DEF Correct, ListRight
  <2> HIDE DEF A, B, S, b
  <2>4. Settled(A \cup B, S, Len(g))
    BY <1>2, <1>4, <2>2, <2>3, SettledMore
  <2> QED
    BY <1>3, <2>4 DEF WorkspacesFollow, S, g
<1>6. CASE \A i \in 1..Len(es) : es[i].type # "WorkspacesChanged"
  <2>1. DOMAIN w.active = DOMAIN v.active /\ w.output = v.output
    BY <1>6 DEF Sent, Complete
  <2>2. ListAt(g, n) = A
    BY <1>2, <1>3, <1>6
  <2>3. R \cap A \subseteq S
    BY <1>3, <2>1 DEF ListRight, SameWorkspaces, TellsWorkspaces
  <2>4. Settled(A, R, Len(h))
    BY DEF WorkspacesFollow
  <2> HIDE DEF A, R, S
  <2>5. Settled(A, S, Len(g))
    BY <1>2, <1>4, <2>3, <2>4, SettledBetter, SettledLater
  <2> QED
    BY <2>2, <2>5 DEF WorkspacesFollow, S, g
<1> QED
  BY <1>5, <1>6

(* What says what is shown on an output as it was says what is. *)
LEMMA FlagsAsWere ==
    ASSUME NEW o, NEW w, NEW v, ShownAsWas(w, v, o)
    PROVE  /\ \A list : SameFlags(list, o, w) => SameFlags(list, o, v)
           /\ \A ev : AboutFlags(ev, o, w) <=> AboutFlags(ev, o, v)
           /\ \A ev : TellsFlags(ev, o, w) => TellsFlags(ev, o, v)
<1>1. ASSUME NEW ws PROVE OnOutput(w, ws, o) <=> OnOutput(v, ws, o)
  BY DEF ShownAsWas
<1>2. ASSUME NEW ws, OnOutput(v, ws, o)
      PROVE  (ws \in w.shown <=> ws \in v.shown) /\ (ws = v.focused => ws = w.focused)
  BY <1>2 DEF ShownAsWas
<1>3. ASSUME NEW list, SameFlags(list, o, w) PROVE SameFlags(list, o, v)
  <2> SUFFICES ASSUME NEW ws \in DOMAIN list, OnOutput(v, ws, o)
               PROVE  /\ list[ws].is_active <=> ws \in v.shown
                      /\ list[ws].is_focused => ws \in v.shown
                      /\ ws = v.focused => list[ws].is_focused
    BY DEF SameFlags
  <2>1. OnOutput(w, ws, o)
    BY <1>1
  <2>2. /\ list[ws].is_active <=> ws \in w.shown
        /\ list[ws].is_focused => ws \in w.shown
        /\ ws = w.focused => list[ws].is_focused
    BY <1>3, <2>1 DEF SameFlags
  <2> QED
    BY <1>2, <2>2
<1>4. ASSUME NEW ev PROVE AboutFlags(ev, o, w) <=> AboutFlags(ev, o, v)
  <2>1. OnOutput(w, ev.id, o) <=> OnOutput(v, ev.id, o)
    BY <1>1
  <2> QED
    BY <2>1 DEF AboutFlags
<1>5. ASSUME NEW ev, TellsFlags(ev, o, w) PROVE TellsFlags(ev, o, v)
  <2>1. CASE ev.type = "WorkspacesChanged" /\ SameFlags(ev.list, o, w)
    BY <1>3, <2>1 DEF TellsFlags
  <2>2. CASE /\ ev.type = "WorkspaceActivated" /\ OnOutput(w, ev.id, o)
             /\ ev.id \in w.shown /\ (ev.id = w.focused => ev.focused)
    <3>1. OnOutput(v, ev.id, o)
      BY <1>1, <2>2
    <3>2. ev.id \in v.shown /\ (ev.id = v.focused => ev.focused)
      BY <1>2, <2>2, <3>1
    <3> QED
      BY <2>2, <3>1, <3>2 DEF TellsFlags
  <2> QED
    BY <1>5, <2>1, <2>2 DEF TellsFlags
<1> QED
  BY <1>3, <1>4, <1>5

(* So are their flags. *)
LEMMA FlagsMore ==
    ASSUME NEW h \in Seq(Event), NEW n \in 0..Len(h), NEW e, NEW w, NEW v, NEW es,
           Sent(es, w, v), FlagsFollow(e, h, n, w)
    PROVE  FlagsFollow(e, h \o es, n, v)
<1> SUFFICES ASSUME NEW o \in Outputs
             PROVE  Settled(FlagsAt(h \o es, n, o, v), FlagsRight(e, h \o es, n, o, v),
                            Len(h \o es))
  BY DEF FlagsFollow
<1> DEFINE g == h \o es
           new == (Len(h) + 1)..Len(g)
           A == FlagsAt(h, n, o, v)
           B == {k \in new : AboutFlags(g[k], o, v)}
           R == FlagsRight(e, h, n, o, w)
           S == FlagsRight(e, g, n, o, v)
<1>1. es \in Seq(Event) /\ \A k \in 1..Len(es) : Correct(es[k], v)
  BY DEF Sent
<1>2. /\ Len(h) \in Nat /\ Len(g) \in Nat /\ Len(h) <= Len(g)
      /\ \A k \in new : k - Len(h) \in 1..Len(es) /\ g[k] = es[k - Len(h)]
      /\ \A i \in 1..Len(es) : Len(h) + i \in new /\ g[Len(h) + i] = es[i]
  BY <1>1, Longer
<1>3. /\ FlagsAt(g, n, o, v) = A \cup B
      /\ \A k \in n..Len(h) : k \in n..Len(g) /\ (k = n \/ g[k] = h[k])
      /\ \A k \in new : k \in Nat /\ k # n /\ k \in n..Len(g)
      /\ \A k \in n..Len(h) : \A m \in new : k < m
  BY <1>1, PlacesMore
<1>4. A \in SUBSET Nat /\ A \subseteq n..Len(h)
  BY Places DEF FlagsAt
<1> HIDE DEF g
<1>5. CASE \E i \in 1..Len(es) : AboutFlags(es[i], o, v)
  <2>1. PICK i \in 1..Len(es) : AboutFlags(es[i], o, v)
    BY <1>5
  <2> DEFINE b == Len(h) + i
  <2>2. b \in B /\ b \in Nat /\ b <= Len(g) /\ \A k \in A : k < b
    BY <1>2, <1>3, <1>4, <2>1
  <2>3. B \subseteq S /\ B \in SUBSET Nat
    BY <1>1, <1>2, <1>3 DEF Correct, FlagsRight
  <2> HIDE DEF A, B, S, b
  <2>4. Settled(A \cup B, S, Len(g))
    BY <1>2, <1>4, <2>2, <2>3, SettledMore
  <2> QED
    BY <1>3, <2>4 DEF S, g
<1>6. CASE \A i \in 1..Len(es) : ~AboutFlags(es[i], o, v)
  <2>1. ShownAsWas(w, v, o)
    BY <1>6 DEF Sent, Complete
  <2>2. FlagsAt(g, n, o, v) = A
    BY <1>2, <1>3, <1>6
  <2>3. R \cap A \subseteq S
    <3>1. /\ \A list : SameFlags(list, o, w) => SameFlags(list, o, v)
          /\ \A ev : TellsFlags(ev, o, w) => TellsFlags(ev, o, v)
      BY <2>1, FlagsAsWere
    <3> QED
      BY <1>3, <3>1 DEF FlagsRight
  <2>4. Settled(A, R, Len(h))
    <3>1. \A ev : AboutFlags(ev, o, w) <=> AboutFlags(ev, o, v)
      BY <2>1, FlagsAsWere
    <3>2. A = FlagsAt(h, n, o, w)
      BY <3>1 DEF FlagsAt
    <3> QED
      BY <3>2 DEF FlagsFollow
  <2> HIDE DEF A, R, S
  <2>5. Settled(A, S, Len(g))
    BY <1>2, <1>4, <2>3, <2>4, SettledBetter, SettledLater
  <2> QED
    BY <2>2, <2>5 DEF S, g
<1> QED
  BY <1>5, <1>6

(* So is the focus. *)
LEMMA FocusMore ==
    ASSUME NEW h \in Seq(Event), NEW n \in 0..Len(h), NEW e, NEW w, NEW v, NEW es,
           Sent(es, w, v), Focused(v) \in Windows \cup {None},
           WindowsFollow(e, h, n, w), FocusFollows(e, h, n, w)
    PROVE  FocusFollows(e, h \o es, n, v)
<1> DEFINE g == h \o es
           new == (Len(h) + 1)..Len(g)
           A == FocusAt(h, n)
           B == {k \in new : AboutFocus(g[k])}
           R == FocusRight(e, h, n, w)
           S == FocusRight(e, g, n, v)
           f == Focused(v)
<1>1. es \in Seq(Event) /\ \A k \in 1..Len(es) : Correct(es[k], v)
  BY DEF Sent
<1>2. /\ Len(h) \in Nat /\ Len(g) \in Nat /\ Len(h) <= Len(g)
      /\ \A k \in new : k - Len(h) \in 1..Len(es) /\ g[k] = es[k - Len(h)]
      /\ \A i \in 1..Len(es) : Len(h) + i \in new /\ g[Len(h) + i] = es[i]
  BY <1>1, Longer
<1>3. /\ FocusAt(g, n) = A \cup B
      /\ \A k \in n..Len(h) : k \in n..Len(g) /\ (k = n \/ g[k] = h[k])
      /\ \A k \in new : k \in Nat /\ k # n /\ k \in n..Len(g)
      /\ \A k \in n..Len(h) : \A m \in new : k < m
  BY <1>1, PlacesMore
<1>4. A \in SUBSET Nat /\ A \subseteq n..Len(h)
  BY Places DEF FocusAt
<1>5. CASE \E i \in 1..Len(es) : AboutFocus(es[i])
  <2>1. PICK i \in 1..Len(es) : AboutFocus(es[i])
    BY <1>5
  <2> DEFINE b == Len(h) + i
  <2>2. b \in B /\ b \in Nat /\ b <= Len(g) /\ \A k \in A : k < b
    <3> HIDE DEF g
    <3> QED
      BY <1>2, <1>3, <1>4, <2>1
  <2>3. ASSUME NEW k \in B PROVE k \in S
    <3> DEFINE m == k - Len(h)
    <3>1. m \in 1..Len(es) /\ AboutFocus(es[m]) /\ g[k] = es[m]
      BY <1>2
    <3>2. Len(h) + m = k
      BY <1>2, <1>3, <2>3
    <3> HIDE DEF m
    <3>3. TellsFocus(g[k], v)
      BY <1>1, <3>1 DEF Correct
    <3>4. \A j \in 1..Len(es) : AboutWindow(es[j], f) => \E l \in 1..m : AboutWindow(es[l], f)
      BY <3>1 DEF Sent, Ordered
    <3>5. Steady(e.windows, g, n, v, f, Len(h) + m)
      BY <3>1, <3>4, SteadySent
    <3> QED
      BY <1>3, <3>2, <3>3, <3>5 DEF FocusRight
  <2>4. B \in SUBSET Nat
    BY <1>3
  <2> HIDE DEF g, A, B, S, b
  <2>5. B \subseteq S
    BY <2>3
  <2>6. Settled(A \cup B, S, Len(g))
    BY <1>2, <1>4, <2>2, <2>4, <2>5, SettledMore
  <2> QED
    BY <1>3, <2>6 DEF FocusFollows, S, g
<1>6. CASE \A i \in 1..Len(es) : ~AboutFocus(es[i])
  <2>1. Focused(w) = f /\ (f = None \/ Quiet(es, f))
    BY <1>6 DEF Sent, Complete
  <2>2. FocusAt(g, n) = A
    <3> HIDE DEF g
    <3> QED
      BY <1>2, <1>3, <1>6
  <2>3. ASSUME NEW k \in R, k \in A PROVE k \in S
    <3>1. /\ IF k = n THEN e.focused_window_id = Focused(w) ELSE TellsFocus(h[k], w)
          /\ Steady(e.windows, h, n, w, f, k)
      BY <2>1 DEF FocusRight
    <3>2. Steady(e.windows, g, n, v, f, k)
      <4>1. CASE f = None
        BY <4>1 DEF Steady
      <4>2. CASE Quiet(es, f)
        <5>1. SameWindow(w, v, f)
          BY <4>2 DEF Sent, Complete
        <5> QED
          BY <1>1, <3>1, <4>2, <5>1, SteadyQuiet
      <4> QED
        BY <2>1, <4>1, <4>2
    <3> HIDE DEF g
    <3>3. IF k = n THEN e.focused_window_id = Focused(v) ELSE TellsFocus(g[k], v)
      BY <1>3, <1>4, <2>1, <2>3, <3>1 DEF TellsFocus
    <3> QED
      BY <1>3, <1>4, <2>3, <3>2, <3>3 DEF FocusRight
  <2>4. Settled(A, R, Len(h))
    BY DEF FocusFollows
  <2> HIDE DEF g, A, R, S
  <2>5. R \cap A \subseteq S
    BY <2>3
  <2>6. Settled(A, S, Len(g))
    BY <1>2, <1>4, <2>4, <2>5, SettledBetter, SettledLater
  <2> QED
    BY <2>2, <2>6 DEF FocusFollows, S, g
<1> QED
  BY <1>5, <1>6

(* So are the active windows, if the events about windows come first. *)
LEMMA ActiveMore ==
    ASSUME NEW h \in Seq(Event), NEW n \in 0..Len(h), NEW e, NEW w, NEW v, NEW es,
           Sent(es, w, v), ~workspacesFirst,
           \A ws \in DOMAIN v.active : v.active[ws] \in Windows \cup {None},
           WindowsFollow(e, h, n, w), ActiveFollows(e, h, n, w)
    PROVE  ActiveFollows(e, h \o es, n, v)
<1> DEFINE g == h \o es
<1> SUFFICES ASSUME NEW ws \in DOMAIN v.active
             PROVE  Settled(ActiveAt(g, n, ws), ActiveRight(e, g, n, v, ws), Len(g))
  BY DEF ActiveFollows
<1> DEFINE new == (Len(h) + 1)..Len(g)
           A == ActiveAt(h, n, ws)
           B == {k \in new : AboutActive(g[k], ws)}
           R == ActiveRight(e, h, n, w, ws)
           S == ActiveRight(e, g, n, v, ws)
           f == v.active[ws]
<1>1. es \in Seq(Event) /\ \A k \in 1..Len(es) : Correct(es[k], v)
  BY DEF Sent
<1>2. /\ Len(h) \in Nat /\ Len(g) \in Nat /\ Len(h) <= Len(g)
      /\ \A k \in new : k - Len(h) \in 1..Len(es) /\ g[k] = es[k - Len(h)]
      /\ \A i \in 1..Len(es) : Len(h) + i \in new /\ g[Len(h) + i] = es[i]
  BY <1>1, Longer
<1>3. /\ ActiveAt(g, n, ws) = A \cup B
      /\ \A k \in n..Len(h) : k \in n..Len(g) /\ (k = n \/ g[k] = h[k])
      /\ \A k \in new : k \in Nat /\ k # n /\ k \in n..Len(g)
      /\ \A k \in n..Len(h) : \A m \in new : k < m
  BY <1>1, PlacesMore
<1>4. A \in SUBSET Nat /\ A \subseteq n..Len(h)
  BY Places DEF ActiveAt
<1>5. CASE \E i \in 1..Len(es) : AboutActive(es[i], ws)
  <2>1. PICK i \in 1..Len(es) : AboutActive(es[i], ws)
    BY <1>5
  <2> DEFINE b == Len(h) + i
  <2>2. b \in B /\ b \in Nat /\ b <= Len(g) /\ \A k \in A : k < b
    <3> HIDE DEF g
    <3> QED
      BY <1>2, <1>3, <1>4, <2>1
  <2>3. ASSUME NEW k \in B PROVE k \in S
    <3> DEFINE m == k - Len(h)
    <3>1. m \in 1..Len(es) /\ AboutActive(es[m], ws) /\ g[k] = es[m]
      BY <1>2
    <3>2. Len(h) + m = k
      BY <1>2, <1>3, <2>3
    <3> HIDE DEF m
    <3>3. TellsActive(g[k], ws, v)
      BY <1>1, <3>1 DEF Correct
    <3>4. \A j \in 1..Len(es) : AboutWindow(es[j], f) => \E l \in 1..m : AboutWindow(es[l], f)
      BY <3>1 DEF Sent, Ordered
    <3>5. Steady(e.windows, g, n, v, f, Len(h) + m)
      BY <3>1, <3>4, SteadySent
    <3> QED
      BY <1>3, <3>2, <3>3, <3>5 DEF ActiveRight
  <2>4. B \in SUBSET Nat
    BY <1>3
  <2> HIDE DEF g, A, B, S, b
  <2>5. B \subseteq S
    BY <2>3
  <2>6. Settled(A \cup B, S, Len(g))
    BY <1>2, <1>4, <2>2, <2>4, <2>5, SettledMore
  <2> QED
    BY <1>3, <2>6 DEF S
<1>6. CASE \A i \in 1..Len(es) : ~AboutActive(es[i], ws)
  <2>1. ws \in DOMAIN w.active /\ w.active[ws] = f /\ (f = None \/ Quiet(es, f))
    BY <1>6 DEF Sent, Complete
  <2>2. ActiveAt(g, n, ws) = A
    <3> HIDE DEF g
    <3> QED
      BY <1>2, <1>3, <1>6
  <2>3. ASSUME NEW k \in R, k \in A PROVE k \in S
    <3>1. /\ IF k = n THEN SameActive(e.workspaces, ws, w) ELSE TellsActive(h[k], ws, w)
          /\ Steady(e.windows, h, n, w, f, k)
      BY <2>1 DEF ActiveRight
    <3>2. Steady(e.windows, g, n, v, f, k)
      <4>1. CASE f = None
        BY <4>1 DEF Steady
      <4>2. CASE Quiet(es, f)
        <5>1. SameWindow(w, v, f)
          BY <4>2 DEF Sent, Complete
        <5> QED
          BY <1>1, <3>1, <4>2, <5>1, SteadyQuiet
      <4> QED
        BY <2>1, <4>1, <4>2
    <3> HIDE DEF g
    <3>3. IF k = n THEN SameActive(e.workspaces, ws, v) ELSE TellsActive(g[k], ws, v)
      BY <1>3, <1>4, <2>1, <2>3, <3>1 DEF TellsActive, SameActive
    <3> QED
      BY <1>3, <1>4, <2>3, <3>2, <3>3 DEF ActiveRight
  <2>4. Settled(A, R, Len(h))
    BY <2>1 DEF ActiveFollows
  <2> HIDE DEF g, A, R, S
  <2>5. R \cap A \subseteq S
    BY <2>3
  <2>6. Settled(A, S, Len(g))
    BY <1>2, <1>4, <2>4, <2>5, SettledBetter, SettledLater
  <2> QED
    BY <2>2, <2>6 DEF S
<1> QED
  BY <1>5, <1>6

(* None is old, whatever comes first. *)
LEMMA FreshMore ==
    ASSUME NEW h \in Seq(Event), NEW n \in 0..Len(h), NEW e, NEW w, NEW v, NEW es,
           Sent(es, w, v), ActiveFresh(e, h, n, w)
    PROVE  ActiveFresh(e, h \o es, n, v)
<1> DEFINE g == h \o es
<1> SUFFICES ASSUME NEW ws \in DOMAIN v.active
             PROVE  Settled(ActiveAt(g, n, ws), FreshRight(e, g, n, v, ws), Len(g))
  BY DEF ActiveFresh
<1> DEFINE new == (Len(h) + 1)..Len(g)
           A == ActiveAt(h, n, ws)
           B == {k \in new : AboutActive(g[k], ws)}
           R == FreshRight(e, h, n, w, ws)
           S == FreshRight(e, g, n, v, ws)
<1>1. es \in Seq(Event) /\ \A k \in 1..Len(es) : Correct(es[k], v)
  BY DEF Sent
<1>2. /\ Len(h) \in Nat /\ Len(g) \in Nat /\ Len(h) <= Len(g)
      /\ \A k \in new : k - Len(h) \in 1..Len(es) /\ g[k] = es[k - Len(h)]
      /\ \A i \in 1..Len(es) : Len(h) + i \in new /\ g[Len(h) + i] = es[i]
  BY <1>1, Longer
<1>3. /\ ActiveAt(g, n, ws) = A \cup B
      /\ \A k \in n..Len(h) : k \in n..Len(g) /\ (k = n \/ g[k] = h[k])
      /\ \A k \in new : k \in Nat /\ k # n /\ k \in n..Len(g)
      /\ \A k \in n..Len(h) : \A m \in new : k < m
  BY <1>1, PlacesMore
<1>4. A \in SUBSET Nat /\ A \subseteq n..Len(h)
  BY Places DEF ActiveAt
<1> HIDE DEF g
<1>5. CASE \E i \in 1..Len(es) : AboutActive(es[i], ws)
  <2>1. PICK i \in 1..Len(es) : AboutActive(es[i], ws)
    BY <1>5
  <2> DEFINE b == Len(h) + i
  <2>2. b \in B /\ b \in Nat /\ b <= Len(g) /\ \A k \in A : k < b
    BY <1>2, <1>3, <1>4, <2>1
  <2>3. B \subseteq S /\ B \in SUBSET Nat
    BY <1>1, <1>2, <1>3 DEF Correct, FreshRight
  <2> HIDE DEF A, B, S, b
  <2>4. Settled(A \cup B, S, Len(g))
    BY <1>2, <1>4, <2>2, <2>3, SettledMore
  <2> QED
    BY <1>3, <2>4 DEF S
<1>6. CASE \A i \in 1..Len(es) : ~AboutActive(es[i], ws)
  <2>1. ws \in DOMAIN w.active /\ w.active[ws] = v.active[ws]
    BY <1>6 DEF Sent, Complete
  <2>2. ActiveAt(g, n, ws) = A
    BY <1>2, <1>3, <1>6
  <2>3. R \cap A \subseteq S
    BY <1>3, <2>1 DEF FreshRight, Fresh, TellsActive, SameActive
  <2>4. Settled(A, R, Len(h))
    BY <2>1 DEF ActiveFresh
  <2> HIDE DEF A, R, S
  <2>5. Settled(A, S, Len(g))
    BY <1>2, <1>4, <2>3, <2>4, SettledBetter, SettledLater
  <2> QED
    BY <2>2, <2>5 DEF S
<1> QED
  BY <1>5, <1>6

(* An engine that follows still does when the compositor changes. *)
LEMMA FollowsMore ==
    ASSUME NEW h \in Seq(Event), NEW n \in 0..Len(h), NEW e, NEW w, NEW v \in Worlds,
           NEW es, Sent(es, w, v), Follows(e, h, n, w)
    PROVE  Follows(e, h \o es, n, v)
<1>1. /\ Focused(v) \in Windows \cup {None}
      /\ \A ws \in DOMAIN v.active : v.active[ws] \in Windows \cup {None}
  BY WorldOf, ActiveOf DEF Focused
<1> QED
  BY <1>1, WindowsMore, WorkspacesMore, FlagsMore, FocusMore, ActiveMore, FreshMore
  DEF Follows

\* The events about windows, each of which has one of these forms.
Shown(w, v) ==
    {id \in DOMAIN v.where : id \notin DOMAIN w.where \/ w.where[id] # v.where[id]}
Opening(w, v) ==
    {[type |-> "WindowOpenedOrChanged", id |-> id, window |-> WindowList(v)[id],
      focused |-> id = Focused(v)] : id \in Shown(w, v)}
Closing(w, v) ==
    {[type |-> "WindowClosed", id |-> id] : id \in DOMAIN w.where \ DOMAIN v.where}
Refocus(v) == [type |-> "WindowFocusChanged", id |-> Focused(v)]

(* Those events, in that order. *)
LEMMA WindowEventsAre ==
    ASSUME NEW w \in Worlds, NEW v \in Worlds
    PROVE  LET es == WindowEvents(w, v)
           IN /\ es \in Seq(Event)
              /\ \A i \in 1..Len(es) : \/ es[i] \in Opening(w, v) \cup Closing(w, v)
                                       \/ es[i] = Refocus(v) /\ i = Len(es)
              /\ \A x \in Opening(w, v) \cup Closing(w, v) :
                   \E i \in 1..Len(es) : es[i] = x
              /\ Focused(w) # Focused(v) => \E i \in 1..Len(es) : es[i] = Refocus(v)
<1> DEFINE es == WindowEvents(w, v)
           p == SetToSeq(Opening(w, v))
           q == SetToSeq(Closing(w, v))
           last == IF Focused(w) = Focused(v) THEN <<>> ELSE <<Refocus(v)>>
<1>1. es = p \o q \o last
  BY DEF WindowEvents, Opening, Closing, Shown, Refocus
<1>2. IsFiniteSet(Opening(w, v)) /\ IsFiniteSet(Closing(w, v))
  <2> DEFINE gone == DOMAIN w.where \ DOMAIN v.where
             g == [id \in Shown(w, v) |->
                     [type |-> "WindowOpenedOrChanged", id |-> id,
                      window |-> WindowList(v)[id], focused |-> id = Focused(v)]]
             h == [id \in gone |-> [type |-> "WindowClosed", id |-> id]]
  <2>1. IsFiniteSet(Shown(w, v)) /\ IsFiniteSet(gone)
    BY WorldOf, FS_Subset, ReplicationAssumption DEF Shown
  <2>2. /\ Opening(w, v) = {g[id] : id \in Shown(w, v)}
        /\ Closing(w, v) = {h[id] : id \in gone}
    BY DEF Opening, Closing
  <2>3. DOMAIN g = Shown(w, v) /\ DOMAIN h = gone
    OBVIOUS
  <2> HIDE DEF g, h, gone
  <2> QED
    BY <2>1, <2>2, <2>3, FiniteImage
<1>3. Opening(w, v) \subseteq Event /\ Closing(w, v) \subseteq Event /\ Refocus(v) \in Event
  <2>1. \A id \in DOMAIN v.where : id \in Windows /\ WindowList(v)[id] \in Window
    BY ListTypes, DictElement, WorldOf
  <2>2. Focused(v) \in Windows \cup {None}
    BY WorldOf, ActiveOf DEF Focused
  <2>3. DOMAIN w.where \subseteq Windows
    BY WorldOf
  <2>4. Opening(w, v) \subseteq Event
    <3>1. \A id \in Shown(w, v) : id \in Windows /\ WindowList(v)[id] \in Window
      BY <2>1 DEF Shown
    <3>2. ASSUME NEW id \in Shown(w, v), NEW b \in BOOLEAN
          PROVE  [type |-> "WindowOpenedOrChanged", id |-> id,
                  window |-> WindowList(v)[id], focused |-> b] \in Event
      BY <3>1 DEF Event
    <3> QED
      BY <3>2 DEF Opening
  <2>5. Closing(w, v) \subseteq Event
    BY <2>3 DEF Closing, Event
  <2>6. Refocus(v) \in Event
    BY <2>2 DEF Refocus, Event
  <2> QED
    BY <2>4, <2>5, <2>6
<1>4. /\ p \in Seq(Opening(w, v)) /\ \A x \in Opening(w, v) : \E i \in 1..Len(p) : p[i] = x
      /\ q \in Seq(Closing(w, v)) /\ \A x \in Closing(w, v) : \E i \in 1..Len(q) : q[i] = x
  BY <1>2, Listed
<1>5. /\ p \in Seq(Event) /\ q \in Seq(Event) /\ last \in Seq(Event)
      /\ \A i \in 1..Len(p) : p[i] \in Opening(w, v)
      /\ \A i \in 1..Len(q) : q[i] \in Closing(w, v)
  BY <1>3, <1>4
<1> DEFINE pq == p \o q
<1>6. /\ Len(last) \in {0, 1} /\ \A i \in 1..Len(last) : last[i] = Refocus(v) /\ i = Len(last)
      /\ Focused(w) # Focused(v) => Len(last) = 1 /\ last[1] = Refocus(v)
  OBVIOUS
<1> HIDE DEF p, q, last, es
<1>7. /\ pq \in Seq(Event)
      /\ \A i \in 1..Len(pq) : pq[i] \in Opening(w, v) \cup Closing(w, v)
      /\ \A x \in Opening(w, v) \cup Closing(w, v) : \E i \in 1..Len(pq) : pq[i] = x
  <2>1. /\ pq \in Seq(Event) /\ Len(p) \in Nat /\ Len(pq) \in Nat /\ Len(p) <= Len(pq)
        /\ \A k \in 1..Len(p) : pq[k] = p[k]
        /\ \A k \in (Len(p) + 1)..Len(pq) :
             k - Len(p) \in 1..Len(q) /\ pq[k] = q[k - Len(p)]
        /\ \A i \in 1..Len(q) :
             Len(p) + i \in (Len(p) + 1)..Len(pq) /\ pq[Len(p) + i] = q[i]
    BY <1>5, Longer
  <2> HIDE DEF pq
  <2>2. /\ \A k \in 1..Len(pq) : k \in 1..Len(p) \/ k \in (Len(p) + 1)..Len(pq)
        /\ \A k \in 1..Len(p) : k \in 1..Len(pq)
        /\ \A k \in (Len(p) + 1)..Len(pq) : k \in 1..Len(pq)
    BY <2>1
  <2> QED
    BY <1>4, <1>5, <2>1, <2>2
<1> HIDE DEF pq
<1>8. es = pq \o last
  BY <1>1 DEF pq
<1>9. /\ es \in Seq(Event) /\ Len(pq) \in Nat /\ Len(es) \in Nat /\ Len(pq) <= Len(es)
      /\ Len(es) = Len(pq) + Len(last)
      /\ \A k \in 1..Len(pq) : es[k] = pq[k]
      /\ \A k \in (Len(pq) + 1)..Len(es) :
           k - Len(pq) \in 1..Len(last) /\ es[k] = last[k - Len(pq)]
      /\ \A i \in 1..Len(last) :
           Len(pq) + i \in (Len(pq) + 1)..Len(es) /\ es[Len(pq) + i] = last[i]
  BY <1>5, <1>7, <1>8, Longer
<1>10. /\ \A k \in 1..Len(es) : k \in 1..Len(pq) \/ k \in (Len(pq) + 1)..Len(es)
       /\ \A k \in 1..Len(pq) : k \in 1..Len(es)
       /\ \A k \in (Len(pq) + 1)..Len(es) : k \in 1..Len(es)
       /\ Len(last) = 1 => 1 \in 1..Len(last)
  <2>1. Len(pq) \in Nat /\ Len(es) \in Nat /\ Len(pq) <= Len(es)
    BY <1>9
  <2> HIDE <1>9
  <2> QED
    BY <2>1
<1>11. \A i \in 1..Len(es) : \/ es[i] \in Opening(w, v) \cup Closing(w, v)
                             \/ es[i] = Refocus(v) /\ i = Len(es)
  <2>1. ASSUME NEW k \in (Len(pq) + 1)..Len(es) PROVE es[k] = Refocus(v) /\ k = Len(es)
    <3>1. es[k] = Refocus(v) /\ k - Len(pq) = Len(last)
      BY <1>6, <1>9
    <3> QED
      BY <1>9, <3>1
  <2> QED
    BY <1>7, <1>9, <1>10, <2>1
<1>12. \A x \in Opening(w, v) \cup Closing(w, v) : \E i \in 1..Len(es) : es[i] = x
  BY <1>7, <1>9, <1>10
<1>13. Focused(w) # Focused(v) => \E i \in 1..Len(es) : es[i] = Refocus(v)
  BY <1>6, <1>9, <1>10
<1> QED
  BY <1>9, <1>11, <1>12, <1>13 DEF es

(* What they say. *)
LEMMA WindowEventsSay ==
    ASSUME NEW w \in Worlds, NEW v \in Worlds
    PROVE  LET es == WindowEvents(w, v)
           IN /\ \A i \in 1..Len(es) :
                   /\ Correct(es[i], v) /\ WindowEvent(es[i])
                   /\ es[i].type # "WindowsChanged"
              /\ \A id : Quiet(es, id) => SameWindow(w, v, id)
              /\ \/ \E i \in 1..Len(es) : AboutFocus(es[i])
                 \/ Focused(w) = Focused(v) /\ (Focused(v) = None \/ Quiet(es, Focused(v)))
              /\ \A i \in 1..Len(es), j \in 1..Len(es) :
                   AboutFocus(es[i]) /\ AboutWindow(es[j], Focused(v)) =>
                     \E k \in 1..i : AboutWindow(es[k], Focused(v))
              /\ \A ws \in DOMAIN w.active \cap DOMAIN v.active :
                   w.active[ws] = v.active[ws] /\ v.active[ws] # None =>
                     Quiet(es, v.active[ws])
<1> DEFINE es == WindowEvents(w, v)
<1>1. /\ es \in Seq(Event)
      /\ \A i \in 1..Len(es) : \/ es[i] \in Opening(w, v) \cup Closing(w, v)
                               \/ es[i] = Refocus(v) /\ i = Len(es)
      /\ \A x \in Opening(w, v) \cup Closing(w, v) : \E i \in 1..Len(es) : es[i] = x
      /\ Focused(w) # Focused(v) => \E i \in 1..Len(es) : es[i] = Refocus(v)
  BY WindowEventsAre
<1>2. Len(es) \in Nat
  BY <1>1
<1> HIDE DEF es
<1>3. ASSUME NEW x \in Opening(w, v)
      PROVE  /\ x.type = "WindowOpenedOrChanged" /\ x.id \in Shown(w, v)
             /\ x.window = WindowList(v)[x.id] /\ x.focused = (x.id = Focused(v))
             /\ \A id : AboutWindow(x, id) <=> x.id = id
             /\ AboutFocus(x) <=> x.id = Focused(v)
  <2>1. PICK id \in Shown(w, v) :
          x = [type |-> "WindowOpenedOrChanged", id |-> id, window |-> WindowList(v)[id],
               focused |-> id = Focused(v)]
    BY DEF Opening
  <2>2. /\ x.type = "WindowOpenedOrChanged" /\ x.id = id
        /\ x.window = WindowList(v)[id] /\ x.focused = (id = Focused(v))
    BY <2>1
  <2> QED
    BY <2>2 DEF AboutWindow, AboutFocus
<1>4. ASSUME NEW x \in Closing(w, v)
      PROVE  /\ x.type = "WindowClosed" /\ x.id \in DOMAIN w.where \ DOMAIN v.where
             /\ \A id : AboutWindow(x, id) <=> x.id = id
             /\ ~AboutFocus(x)
  BY DEF Closing, AboutWindow, AboutFocus
<1>5. LET x == Refocus(v)
      IN /\ x.type = "WindowFocusChanged" /\ x.id = Focused(v)
         /\ \A id : ~AboutWindow(x, id)
         /\ AboutFocus(x)
  BY DEF Refocus, AboutWindow, AboutFocus
<1>6. ASSUME NEW i \in 1..Len(es)
      PROVE  Correct(es[i], v) /\ WindowEvent(es[i]) /\ es[i].type # "WindowsChanged"
  <2>1. CASE es[i] \in Opening(w, v)
    BY <1>3, <2>1 DEF Correct, WindowEvent, TellsWindow, AboutFlags, TellsFocus, AboutActive,
       Shown
  <2>2. CASE es[i] \in Closing(w, v)
    BY <1>4, <2>2 DEF Correct, WindowEvent, TellsWindow, AboutFlags, AboutActive
  <2>3. CASE es[i] = Refocus(v)
    BY <1>5, <2>3 DEF Correct, WindowEvent, AboutFlags, TellsFocus, AboutActive
  <2> QED
    BY <1>1, <2>1, <2>2, <2>3
<1>7. ASSUME NEW id, Quiet(es, id) PROVE SameWindow(w, v, id)
  <2>1. id \notin Shown(w, v)
    <3>1. SUFFICES ASSUME id \in Shown(w, v) PROVE FALSE
      OBVIOUS
    <3>2. PICK x \in Opening(w, v) : x.id = id
      <4> DEFINE x == [type |-> "WindowOpenedOrChanged", id |-> id,
                       window |-> WindowList(v)[id], focused |-> id = Focused(v)]
      <4>1. x \in Opening(w, v) /\ x.id = id
        BY <3>1 DEF Opening
      <4> QED
        BY <4>1
    <3>3. PICK i \in 1..Len(es) : es[i] = x
      BY <1>1
    <3> QED
      BY <1>3, <1>7, <3>2, <3>3 DEF Quiet
  <2>2. id \notin DOMAIN w.where \ DOMAIN v.where
    <3>1. SUFFICES ASSUME id \in DOMAIN w.where \ DOMAIN v.where PROVE FALSE
      OBVIOUS
    <3>2. PICK x \in Closing(w, v) : x.id = id
      <4> DEFINE x == [type |-> "WindowClosed", id |-> id]
      <4>1. x \in Closing(w, v) /\ x.id = id
        BY <3>1 DEF Closing
      <4> QED
        BY <4>1
    <3>3. PICK i \in 1..Len(es) : es[i] = x
      BY <1>1
    <3> QED
      BY <1>4, <1>7, <3>2, <3>3 DEF Quiet
  <2> QED
    BY <2>1, <2>2 DEF Shown, SameWindow
<1>8. ASSUME \A i \in 1..Len(es) : ~AboutFocus(es[i])
      PROVE  Focused(w) = Focused(v) /\ (Focused(v) = None \/ Quiet(es, Focused(v)))
  <2>1. Focused(w) = Focused(v)
    BY <1>1, <1>5, <1>8
  <2>2. ASSUME Focused(v) # None, NEW i \in 1..Len(es) PROVE ~AboutWindow(es[i], Focused(v))
    <3>1. Focused(v) \in DOMAIN v.where
      BY <2>2, WorldOf, ActiveOf DEF Focused
    <3> QED
      BY <1>1, <1>3, <1>4, <1>8, <1>5, <3>1
  <2> QED
    BY <2>1, <2>2 DEF Quiet
<1>9. ASSUME NEW i \in 1..Len(es), NEW j \in 1..Len(es),
             AboutFocus(es[i]), AboutWindow(es[j], Focused(v))
      PROVE  \E k \in 1..i : AboutWindow(es[k], Focused(v))
  <2>1. CASE es[i] = Refocus(v) /\ i = Len(es)
    BY <1>9, <2>1
  <2>2. CASE es[i] \in Opening(w, v)
    <3>1. AboutWindow(es[i], Focused(v)) /\ i \in 1..i
      BY <1>2, <1>3, <1>9, <2>2
    <3> QED
      BY <3>1
  <2>3. CASE es[i] \in Closing(w, v)
    BY <1>4, <1>9, <2>3
  <2> QED
    BY <1>1, <2>1, <2>2, <2>3
<1>10. ASSUME NEW ws \in DOMAIN w.active \cap DOMAIN v.active,
              w.active[ws] = v.active[ws], v.active[ws] # None
       PROVE  Quiet(es, v.active[ws])
  <2> DEFINE id == v.active[ws]
  <2>1. id \in DOMAIN w.where /\ id \in DOMAIN v.where /\ w.where[id] = v.where[id]
    BY <1>10, ActiveOf
  <2>2. id \notin Shown(w, v) /\ id \notin DOMAIN w.where \ DOMAIN v.where
    BY <2>1 DEF Shown
  <2> HIDE DEF id
  <2>3. \A i \in 1..Len(es) : ~AboutWindow(es[i], id)
    BY <1>1, <1>3, <1>4, <1>5, <2>2
  <2> QED
    BY <2>3 DEF Quiet, id
<1> QED
  BY <1>6, <1>7, <1>8, <1>9, <1>10 DEF es

(* The lists that the compositor would send have what it has. *)
LEMMA Exact ==
    ASSUME NEW w \in Worlds
    PROVE  /\ \A id : Shows(WindowList(w), id, w)
           /\ SameWorkspaces(WorkspaceList(w), w)
           /\ \A o : SameFlags(WorkspaceList(w), o, w)
           /\ \A ws \in DOMAIN w.active : SameActive(WorkspaceList(w), ws, w)
<1>1. /\ DOMAIN WindowList(w) = DOMAIN w.where
      /\ DOMAIN WorkspaceList(w) = DOMAIN w.active
  BY ListTypes
<1>2. ASSUME NEW ws \in DOMAIN w.active
      PROVE  /\ WorkspaceList(w)[ws].output = w.output[ws]
             /\ WorkspaceList(w)[ws].is_active = (ws \in w.shown)
             /\ WorkspaceList(w)[ws].is_focused = (ws = w.focused)
             /\ WorkspaceList(w)[ws].active_window_id = w.active[ws]
  BY DEF WorkspaceList
<1>3. \A id : Shows(WindowList(w), id, w)
  BY <1>1 DEF Shows
<1>4. SameWorkspaces(WorkspaceList(w), w) /\ \A o : SameFlags(WorkspaceList(w), o, w)
  <2>1. w.focused \in w.shown
    BY WorldOf DEF OneShown
  <2> QED
    BY <1>1, <1>2, <2>1 DEF SameWorkspaces, SameFlags
<1>5. \A ws \in DOMAIN w.active : SameActive(WorkspaceList(w), ws, w)
  BY <1>2 DEF SameActive
<1> QED
  BY <1>3, <1>4, <1>5

(* What the events about workspaces say. *)
LEMMA WorkspaceEventsSay ==
    ASSUME NEW w \in Worlds, NEW v \in Worlds
    PROVE  LET es == WorkspaceEvents(w, v)
           IN /\ es \in Seq(Event)
              /\ \A i \in 1..Len(es) : Correct(es[i], v) /\ WorkspaceEvent(es[i])
              /\ \/ \E i \in 1..Len(es) : es[i].type = "WorkspacesChanged"
                 \/ DOMAIN w.active = DOMAIN v.active /\ w.output = v.output
              /\ \A o : \/ \E i \in 1..Len(es) : AboutFlags(es[i], o, v)
                        \/ ShownAsWas(w, v, o)
              /\ \A ws \in DOMAIN v.active :
                   \/ \E i \in 1..Len(es) : AboutActive(es[i], ws)
                   \/ ws \in DOMAIN w.active /\ w.active[ws] = v.active[ws]
<1> DEFINE es == WorkspaceEvents(w, v)
<1>0. es \in Seq(Event)
  BY WorkspaceEventsTell DEF Tell
<1>1. CASE w.output # v.output
  <2> DEFINE ev == [type |-> "WorkspacesChanged", list |-> WorkspaceList(v)]
  <2>1. es = <<ev>>
    BY <1>1 DEF WorkspaceEvents
  <2>2. Len(es) = 1 /\ es[1] = ev
    BY <2>1
  <2>3. ev.type = "WorkspacesChanged" /\ ev.list = WorkspaceList(v)
    OBVIOUS
  <2> HIDE DEF es, ev
  <2>4. /\ SameWorkspaces(ev.list, v) /\ \A o : SameFlags(ev.list, o, v)
        /\ \A ws \in DOMAIN v.active : SameActive(ev.list, ws, v)
    BY <2>3, Exact
  <2>5. Correct(ev, v) /\ WorkspaceEvent(ev) /\ \A o : AboutFlags(ev, o, v)
    BY <2>3, <2>4 DEF Correct, WorkspaceEvent, AboutWindow, AboutFlags, AboutFocus,
       AboutActive, TellsWorkspaces, TellsFlags, TellsActive
  <2>6. \A ws : AboutActive(ev, ws)
    BY <2>3 DEF AboutActive
  <2>7. 1 \in 1..Len(es) /\ \A i \in 1..Len(es) : es[i] = ev
    BY <2>2
  <2> QED
    BY <1>0, <2>2, <2>3, <2>5, <2>6, <2>7 DEF es
<1>2. CASE w.output = v.output
  <2> DEFINE lit == {s \in v.shown : s \notin w.shown \/ (s = v.focused /\ s # w.focused)}
             f == [s \in lit |-> [type |-> "WorkspaceActivated", id |-> s,
                                  focused |-> s = v.focused]]
             first == {f[s] : s \in lit}
             moved == {s \in DOMAIN w.active : w.active[s] # v.active[s]}
             g == [s \in moved |-> [type |-> "WorkspaceActiveWindowChanged", id |-> s,
                                    window |-> v.active[s]]]
             rest == {g[s] : s \in moved}
             p == SetToSeq(first)
             q == SetToSeq(rest)
  <2>0. /\ DOMAIN w.active = DOMAIN v.active /\ DOMAIN w.active \subseteq Workspaces
        /\ DOMAIN v.output = DOMAIN v.active /\ v.shown \subseteq DOMAIN v.active
    BY <1>2, WorldOf
  <2>1. es = p \o q
    <3>1. first = {[type |-> "WorkspaceActivated", id |-> ws, focused |-> ws = v.focused] :
                   ws \in {s \in v.shown : \/ s \notin w.shown
                                           \/ s = v.focused /\ s # w.focused}}
      OBVIOUS
    <3>2. rest = {[type |-> "WorkspaceActiveWindowChanged", id |-> ws,
                   window |-> v.active[ws]] :
                  ws \in {s \in DOMAIN w.active : w.active[s] # v.active[s]}}
      OBVIOUS
    <3> HIDE DEF first, rest
    <3> QED
      BY <1>2, <3>1, <3>2 DEF WorkspaceEvents
  <2>2. /\ p \in Seq(first) /\ \A x \in first : \E i \in 1..Len(p) : p[i] = x
        /\ q \in Seq(rest) /\ \A x \in rest : \E i \in 1..Len(q) : q[i] = x
    <3>1. IsFiniteSet(DOMAIN v.active)
      BY <2>0, FS_Subset, ReplicationAssumption
    <3>2. /\ moved \subseteq DOMAIN v.active /\ lit \subseteq DOMAIN v.active
          /\ DOMAIN f = lit /\ DOMAIN g = moved
      BY <2>0
    <3> HIDE DEF lit, f, moved, g
    <3>3. IsFiniteSet(lit) /\ IsFiniteSet(moved)
      BY <3>1, <3>2, FS_Subset
    <3>4. IsFiniteSet(first) /\ IsFiniteSet(rest)
      BY <3>2, <3>3, FiniteImage
    <3> HIDE DEF first, rest
    <3> QED
      BY <3>4, Listed
  <2>3. \A s \in lit : /\ f[s].type = "WorkspaceActivated"
                       /\ f[s].id = s /\ f[s].focused = (s = v.focused)
                       /\ f[s] \in Event /\ f[s] \in first
    <3>1. \A s \in lit : s \in Workspaces
      BY <2>0
    <3> QED
      BY <3>1 DEF Event
  <2>4. \A s \in moved : /\ g[s].type = "WorkspaceActiveWindowChanged"
                         /\ g[s].id = s /\ g[s].window = v.active[s]
                         /\ g[s] \in Event /\ g[s] \in rest
    <3>1. \A s \in moved : s \in Workspaces /\ v.active[s] \in Windows \cup {None}
      BY <2>0, WorldOf
    <3> QED
      BY <3>1 DEF Event
  <2> HIDE DEF es, f, g, p, q
  <2>5. /\ \A x \in first :
             /\ x.type = "WorkspaceActivated" /\ x.id \in v.shown
             /\ x.focused = (x.id = v.focused) /\ x \in Event
        /\ \A x \in rest :
             /\ x.type = "WorkspaceActiveWindowChanged" /\ x.id \in DOMAIN v.active
             /\ x.window = v.active[x.id] /\ x \in Event
    BY <2>0, <2>3, <2>4
  <2>6. /\ p \in Seq(Event) /\ \A i \in 1..Len(p) : p[i] \in first
        /\ q \in Seq(Event) /\ \A i \in 1..Len(q) : q[i] \in rest
    BY <2>2, <2>5
  <2>7. /\ Len(es) \in Nat /\ Len(p) \in Nat /\ Len(p) <= Len(es)
        /\ \A k \in 1..Len(p) : es[k] = p[k]
        /\ \A k \in (Len(p) + 1)..Len(es) :
             k - Len(p) \in 1..Len(q) /\ es[k] = q[k - Len(p)]
        /\ \A i \in 1..Len(q) :
             Len(p) + i \in (Len(p) + 1)..Len(es) /\ es[Len(p) + i] = q[i]
    BY <2>1, <2>6, Longer
  <2>8. /\ \A k \in 1..Len(es) : k \in 1..Len(p) \/ k \in (Len(p) + 1)..Len(es)
        /\ \A k \in 1..Len(p) : k \in 1..Len(es)
        /\ \A k \in (Len(p) + 1)..Len(es) : k \in 1..Len(es)
    <3>1. Len(es) \in Nat /\ Len(p) \in Nat /\ Len(p) <= Len(es)
      BY <2>7
    <3> HIDE <2>7
    <3> QED
      BY <3>1
  <2>9. ASSUME NEW x \in first
        PROVE  /\ Correct(x, v) /\ WorkspaceEvent(x)
               /\ \A o : OnOutput(v, x.id, o) => AboutFlags(x, o, v)
    BY <2>5 DEF Correct, WorkspaceEvent, AboutWindow, AboutFlags, AboutFocus, AboutActive,
       TellsFlags
  <2>10. \A x \in rest : Correct(x, v) /\ WorkspaceEvent(x) /\ AboutActive(x, x.id)
    BY <2>5 DEF Correct, WorkspaceEvent, AboutWindow, AboutFlags, AboutFocus, AboutActive,
       TellsActive
  <2>11. \A i \in 1..Len(es) : Correct(es[i], v) /\ WorkspaceEvent(es[i])
    BY <2>6, <2>7, <2>8, <2>9, <2>10
  <2>12. ASSUME NEW o, \A i \in 1..Len(es) : ~AboutFlags(es[i], o, v)
         PROVE  ShownAsWas(w, v, o)
    <3>1. ASSUME NEW s \in lit PROVE ~OnOutput(v, s, o)
      <4>1. PICK i \in 1..Len(p) : p[i] = f[s]
        BY <2>2, <2>3
      <4>2. i \in 1..Len(es) /\ es[i] = f[s]
        BY <2>7, <2>8, <4>1
      <4>3. ~AboutFlags(f[s], o, v)
        BY <2>12, <4>2
      <4> QED
        BY <2>3, <2>9, <4>3
    <3>2. \A s \in v.shown : OnOutput(v, s, o) =>
            s \in w.shown /\ (s = v.focused => s = w.focused)
      BY <3>1
    <3>3. ASSUME NEW s \in w.shown, OnOutput(w, s, o) PROVE s \in v.shown
      <4>1. s \in DOMAIN v.output /\ v.output[s] = o
        BY <1>2, <3>3 DEF OnOutput
      <4>2. PICK t \in v.shown : v.output[t] = v.output[s] /\ t \in DOMAIN v.output
        BY <4>1, WorldOf DEF OneShown
      <4>3. t \in w.shown
        BY <3>2, <4>1, <4>2 DEF OnOutput
      <4>4. s = t
        BY <1>2, <4>2, <4>3, WorldOf DEF OneShown
      <4> QED
        BY <4>2, <4>4
    <3>4. v.focused \in v.shown
      BY WorldOf DEF OneShown
    <3> QED
      BY <1>2, <3>2, <3>3, <3>4 DEF ShownAsWas, OnOutput
  <2>13. ASSUME NEW ws \in DOMAIN v.active, w.active[ws] # v.active[ws]
         PROVE  \E i \in 1..Len(es) : AboutActive(es[i], ws)
    <3>1. ws \in moved
      BY <2>0, <2>13
    <3>2. g[ws] \in rest /\ g[ws].id = ws
      BY <2>4, <3>1
    <3>3. PICK i \in 1..Len(q) : q[i] = g[ws]
      BY <2>2, <3>2
    <3>4. AboutActive(q[i], ws)
      BY <2>10, <3>2, <3>3
    <3> QED
      BY <2>7, <2>8, <3>4
  <2> QED
    BY <1>0, <1>2, <2>0, <2>11, <2>12, <2>13 DEF es
<1> QED
  BY <1>1, <1>2

\* The elements of es are those of p, from a on, and those of q, from b on.
Joins(es, p, q, a, b) ==
    /\ \A i \in 1..Len(p) : a + i \in 1..Len(es) /\ es[a + i] = p[i]
    /\ \A i \in 1..Len(q) : b + i \in 1..Len(es) /\ es[b + i] = q[i]
    /\ \A k \in 1..Len(es) : \/ k - a \in 1..Len(p) /\ es[k] = p[k - a]
                             \/ k - b \in 1..Len(q) /\ es[k] = q[k - b]

(* Two sequences of events, one after the other in either order. *)
LEMMA Joined ==
    ASSUME NEW p \in Seq(Event), NEW q \in Seq(Event), NEW es \in {p \o q, q \o p}
    PROVE  /\ es \in Seq(Event)
           /\ \E a \in Nat, b \in Nat :
                /\ Joins(es, p, q, a, b)
                /\ es = p \o q => \A i \in 1..Len(p), j \in 1..Len(q) : a + i <= b + j
<1>1. ASSUME NEW s \in Seq(Event), NEW t \in Seq(Event), NEW u, u = s \o t
      PROVE  /\ u \in Seq(Event) /\ Len(s) \in Nat
             /\ \A i \in 1..Len(s), j \in 1..Len(t) : 0 + i <= Len(s) + j
             /\ Joins(u, s, t, 0, Len(s)) /\ Joins(u, t, s, Len(s), 0)
  <2>1. /\ u \in Seq(Event) /\ Len(s) \in Nat /\ Len(u) \in Nat
        /\ Len(t) \in Nat /\ Len(u) = Len(s) + Len(t)
        /\ \A k \in 1..Len(s) : u[k] = s[k]
        /\ \A i \in 1..Len(t) : u[Len(s) + i] = t[i]
        /\ \A k \in (Len(s) + 1)..Len(u) :
             k - Len(s) \in 1..Len(t) /\ u[k] = t[k - Len(s)]
    BY <1>1, Longer
  <2>2. /\ \A i \in 1..Len(s), j \in 1..Len(t) : 0 + i <= Len(s) + j
        /\ \A i \in 1..Len(s) : 0 + i = i /\ i \in 1..Len(u) /\ i - 0 = i
        /\ \A i \in 1..Len(t) : Len(s) + i \in 1..Len(u)
        /\ \A k \in 1..Len(u) : k \in 1..Len(s) \/ k \in (Len(s) + 1)..Len(u)
    <3>1. Len(s) \in Nat /\ Len(t) \in Nat /\ Len(u) = Len(s) + Len(t)
      BY <2>1
    <3> HIDE <2>1, <1>1
    <3> QED
      BY <3>1
  <2> QED
    BY <2>1, <2>2 DEF Joins
<1> DEFINE Good(a, b) ==
             /\ Joins(es, p, q, a, b)
             /\ es = p \o q => \A i \in 1..Len(p), j \in 1..Len(q) : a + i <= b + j
<1>2. CASE es = p \o q
  <2>1. es \in Seq(Event) /\ 0 \in Nat /\ Len(p) \in Nat /\ Good(0, Len(p))
    BY <1>1, <1>2
  <2> HIDE DEF Good
  <2>2. \E a \in Nat, b \in Nat : Good(a, b)
    BY <2>1
  <2> QED
    BY <2>1, <2>2 DEF Good
<1>3. CASE es = q \o p /\ es # p \o q
  <2>1. es \in Seq(Event) /\ 0 \in Nat /\ Len(q) \in Nat /\ Good(Len(q), 0)
    BY <1>1, <1>3
  <2> HIDE DEF Good
  <2>2. \E a \in Nat, b \in Nat : Good(a, b)
    BY <2>1
  <2> QED
    BY <2>1, <2>2 DEF Good
<1> QED
  BY <1>2, <1>3

(* What a change sends tells all of it. *)
LEMMA ChangeSent ==
    ASSUME NEW w \in Worlds, NEW v \in Worlds, NEW es,
           es = IF workspacesFirst THEN WorkspaceEvents(w, v) \o WindowEvents(w, v)
                ELSE WindowEvents(w, v) \o WorkspaceEvents(w, v)
    PROVE  Sent(es, w, v)
<1> DEFINE p == WindowEvents(w, v)
           q == WorkspaceEvents(w, v)
           f == Focused(v)
<1>1. /\ p \in Seq(Event)
      /\ \A i \in 1..Len(p) :
           Correct(p[i], v) /\ WindowEvent(p[i]) /\ p[i].type # "WindowsChanged"
      /\ \A id : Quiet(p, id) => SameWindow(w, v, id)
      /\ \/ \E i \in 1..Len(p) : AboutFocus(p[i])
         \/ Focused(w) = f /\ (f = None \/ Quiet(p, f))
      /\ \A i \in 1..Len(p), j \in 1..Len(p) :
           AboutFocus(p[i]) /\ AboutWindow(p[j], f) => \E k \in 1..i : AboutWindow(p[k], f)
      /\ \A ws \in DOMAIN w.active \cap DOMAIN v.active :
           w.active[ws] = v.active[ws] /\ v.active[ws] # None => Quiet(p, v.active[ws])
  BY WindowEventsAre, WindowEventsSay
<1>2. /\ q \in Seq(Event)
      /\ \A i \in 1..Len(q) : Correct(q[i], v) /\ WorkspaceEvent(q[i])
      /\ \/ \E i \in 1..Len(q) : q[i].type = "WorkspacesChanged"
         \/ DOMAIN w.active = DOMAIN v.active /\ w.output = v.output
      /\ \A o : (\E i \in 1..Len(q) : AboutFlags(q[i], o, v)) \/ ShownAsWas(w, v, o)
      /\ \A ws \in DOMAIN v.active :
           \/ \E i \in 1..Len(q) : AboutActive(q[i], ws)
           \/ ws \in DOMAIN w.active /\ w.active[ws] = v.active[ws]
  BY WorkspaceEventsSay
<1> HIDE DEF p, q, f
<1>3. es \in {p \o q, q \o p} /\ (~workspacesFirst => es = p \o q)
  BY DEF p, q
<1>4. es \in Seq(Event)
  BY <1>1, <1>2, <1>3, Joined
<1>5. PICK a \in Nat, b \in Nat :
        /\ Joins(es, p, q, a, b)
        /\ es = p \o q => \A i \in 1..Len(p), j \in 1..Len(q) : a + i <= b + j
  BY <1>1, <1>2, <1>3, Joined
<1>6. /\ \A i \in 1..Len(p) : a + i \in 1..Len(es) /\ es[a + i] = p[i]
      /\ \A i \in 1..Len(q) : b + i \in 1..Len(es) /\ es[b + i] = q[i]
      /\ \A k \in 1..Len(es) : \/ k - a \in 1..Len(p) /\ es[k] = p[k - a]
                               \/ k - b \in 1..Len(q) /\ es[k] = q[k - b]
  BY <1>5 DEF Joins
<1>7. \A i \in 1..Len(q) : \A id : ~AboutWindow(q[i], id) /\ ~AboutFocus(q[i])
  BY <1>2 DEF WorkspaceEvent, AboutWindow, AboutFocus
<1>8. \A i \in 1..Len(p) : \A ws : ~AboutActive(p[i], ws)
  BY <1>1 DEF WindowEvent, AboutActive
<1>9. \A i \in 1..Len(es) : Correct(es[i], v)
  BY <1>1, <1>2, <1>6
<1>10. \A id : Quiet(p, id) <=> Quiet(es, id)
  BY <1>6, <1>7 DEF Quiet
<1>11. Complete(es, w, v)
  <2>1. \A id : Quiet(es, id) => SameWindow(w, v, id)
    BY <1>1, <1>10
  <2>2. \/ \E i \in 1..Len(es) : es[i].type = "WorkspacesChanged"
        \/ DOMAIN w.active = DOMAIN v.active /\ w.output = v.output
    <3>1. ASSUME NEW i \in 1..Len(q), q[i].type = "WorkspacesChanged"
          PROVE  \E k \in 1..Len(es) : es[k].type = "WorkspacesChanged"
      <4>1. b + i \in 1..Len(es) /\ es[b + i] = q[i]
        BY <1>6
      <4>2. es[b + i].type = "WorkspacesChanged"
        BY <3>1, <4>1
      <4> HIDE <1>6
      <4> QED
        BY <4>1, <4>2
    <3> QED
      BY <1>2, <3>1
  <2>3. ASSUME NEW o
        PROVE  (\E i \in 1..Len(es) : AboutFlags(es[i], o, v)) \/ ShownAsWas(w, v, o)
    BY <1>2, <1>6
  <2>4. \/ \E i \in 1..Len(es) : AboutFocus(es[i])
        \/ Focused(w) = f /\ (f = None \/ Quiet(es, f))
    BY <1>1, <1>6, <1>10
  <2>5. ASSUME NEW ws \in DOMAIN v.active
        PROVE  \/ \E i \in 1..Len(es) : AboutActive(es[i], ws)
               \/ /\ ws \in DOMAIN w.active /\ w.active[ws] = v.active[ws]
                  /\ v.active[ws] = None \/ Quiet(es, v.active[ws])
    <3>1. CASE \E i \in 1..Len(q) : AboutActive(q[i], ws)
      BY <1>6, <3>1
    <3>2. CASE ws \in DOMAIN w.active /\ w.active[ws] = v.active[ws]
      <4>1. v.active[ws] = None \/ Quiet(p, v.active[ws])
        BY <1>1, <3>2
      <4> QED
        BY <1>10, <3>2, <4>1
    <3> QED
      BY <1>2, <3>1, <3>2
  <2> QED
    BY <2>1, <2>2, <2>3, <2>4, <2>5 DEF Complete, f
<1>12. ASSUME NEW i \in 1..Len(es), NEW j \in 1..Len(es)
       PROVE  /\ AboutFocus(es[i]) /\ AboutWindow(es[j], f) =>
                   \E k \in 1..i : AboutWindow(es[k], f)
              /\ ~workspacesFirst =>
                   \A ws \in DOMAIN v.active :
                      AboutActive(es[i], ws) /\ AboutWindow(es[j], v.active[ws]) =>
                        \E k \in 1..i : AboutWindow(es[k], v.active[ws])
  <2>0. Len(es) \in Nat /\ Len(p) \in Nat /\ Len(q) \in Nat
    BY <1>1, <1>2, <1>4
  <2>1. ASSUME AboutFocus(es[i]), AboutWindow(es[j], f)
        PROVE  \E k \in 1..i : AboutWindow(es[k], f)
    <3>1. /\ i - a \in 1..Len(p) /\ AboutFocus(p[i - a])
          /\ j - a \in 1..Len(p) /\ AboutWindow(p[j - a], f)
      BY <1>6, <1>7, <2>1
    <3>2. PICK k \in 1..(i - a) : AboutWindow(p[k], f)
      BY <1>1, <3>1
    <3>3. k \in 1..Len(p) /\ a + k \in 1..i
      BY <2>0, <3>1, <3>2
    <3> QED
      BY <1>6, <3>2, <3>3
  <2>2. ASSUME ~workspacesFirst, NEW ws \in DOMAIN v.active, AboutActive(es[i], ws),
               AboutWindow(es[j], v.active[ws])
        PROVE  \E k \in 1..i : AboutWindow(es[k], v.active[ws])
    <3>1. i - b \in 1..Len(q) /\ j - a \in 1..Len(p)
      BY <1>6, <1>7, <1>8, <2>2
    <3>2. a + (j - a) <= b + (i - b)
      BY <1>3, <1>5, <2>2, <3>1
    <3>3. j \in 1..i
      BY <2>0, <3>2
    <3> QED
      BY <2>2, <3>3
  <2> QED
    BY <2>1, <2>2
<1>13. Ordered(es, v)
  BY <1>12 DEF Ordered, f
<1> QED
  BY <1>4, <1>9, <1>11, <1>13 DEF Sent

(* An attribute of a window is about none of this. *)
LEMMA TouchSent ==
    ASSUME NEW w \in Worlds, NEW id \in Windows
    PROVE  Sent(<<[type |-> "WindowAttribute", id |-> id]>>, w, w)
<1> DEFINE ev == [type |-> "WindowAttribute", id |-> id]
           es == <<ev>>
<1>1. ev \in Event /\ ev.type = "WindowAttribute"
  BY DEF Event
<1> HIDE DEF ev
<1>2. /\ \A x : ~AboutWindow(ev, x) /\ ~AboutActive(ev, x)
      /\ ~AboutFocus(ev) /\ ev.type # "WorkspacesChanged"
      /\ \A o : ~AboutFlags(ev, o, w)
  BY <1>1 DEF AboutWindow, AboutActive, AboutFocus, AboutFlags
<1>3. es \in Seq(Event) /\ \A i \in 1..Len(es) : es[i] = ev
  BY <1>1
<1> HIDE DEF es
<1>4. \A x : Quiet(es, x)
  BY <1>2, <1>3 DEF Quiet
<1>5. \A i \in 1..Len(es) : Correct(es[i], w)
  BY <1>2, <1>3 DEF Correct
<1>6. Complete(es, w, w)
  BY <1>4 DEF Complete, SameWindow, ShownAsWas
<1>7. Ordered(es, w)
  BY <1>2, <1>3 DEF Ordered
<1>8. Sent(es, w, w)
  BY <1>3, <1>5, <1>6, <1>7 DEF Sent
<1> QED
  BY <1>8 DEF es, ev

-------------------------------------------------------------------------------
(* The compositor and the replica *)

(* An engine that has what the world has follows any events that are correct. *)
LEMMA ExactFollows ==
    ASSUME NEW h \in Seq(Event), NEW w \in Worlds, NEW e,
           \A id : Shows(e.windows, id, w),
           SameWorkspaces(e.workspaces, w), \A o : SameFlags(e.workspaces, o, w),
           e.focused_window_id = Focused(w),
           \A ws \in DOMAIN w.active : SameActive(e.workspaces, ws, w),
           \A i \in 1..Len(h) : Correct(h[i], w)
    PROVE  Follows(e, h, 0, w)
<1>1. Len(h) \in Nat /\ \A k \in 0..Len(h) : k = 0 \/ k \in 1..Len(h)
  OBVIOUS
<1>2. ASSUME NEW id, NEW i PROVE Steady(e.windows, h, 0, w, id, i)
  <2>1. WindowAt(h, 0, id) \subseteq WindowRight(e.windows, h, 0, w, id)
    BY <1>1 DEF WindowAt, WindowRight, Correct
  <2> QED
    BY <2>1 DEF Steady, Settled
<1>3. WindowsFollow(e, h, 0, w)
  BY <1>2 DEF WindowsFollow
<1>4. ListAt(h, 0) \subseteq ListRight(e, h, 0, w)
  BY <1>1 DEF ListAt, ListRight, Correct
<1>5. \A o : FlagsAt(h, 0, o, w) \subseteq FlagsRight(e, h, 0, o, w)
  BY <1>1 DEF FlagsAt, FlagsRight, Correct
<1>6. FocusAt(h, 0) \subseteq FocusRight(e, h, 0, w)
  BY <1>1, <1>2 DEF FocusAt, FocusRight, Correct
<1>7. ASSUME NEW ws \in DOMAIN w.active
      PROVE  ActiveAt(h, 0, ws) \subseteq ActiveRight(e, h, 0, w, ws)
  BY <1>1, <1>2, <1>7 DEF ActiveAt, ActiveRight, Correct
<1>8. ASSUME NEW ws \in DOMAIN w.active
      PROVE  ActiveAt(h, 0, ws) \subseteq FreshRight(e, h, 0, w, ws)
  <2>1. Fresh(e.workspaces, ws, w)
    BY DEF SameActive, Fresh
  <2> QED
    BY <1>1, <1>8, <2>1 DEF ActiveAt, FreshRight, Correct
<1> QED
  BY <1>3, <1>4, <1>5, <1>6, <1>7, <1>8
  DEF Follows, WorkspacesFollow, FlagsFollow, FocusFollows, ActiveFollows, ActiveFresh,
      Settled

(* The full lists are correct. *)
LEMMA GreetingCorrect ==
    ASSUME NEW w \in Worlds
    PROVE  \A i \in 1..Len(Greeting(w)) : Correct(Greeting(w)[i], w)
<1> DEFINE c == [type |-> "WorkspacesChanged", list |-> WorkspaceList(w)]
           d == [type |-> "WindowsChanged", list |-> WindowList(w)]
<1>1. \A i \in 1..Len(Greeting(w)) : Greeting(w)[i] = c \/ Greeting(w)[i] = d
  BY DEF Greeting
<1>2. c.type = "WorkspacesChanged" /\ c.list = WorkspaceList(w)
  OBVIOUS
<1>3. d.type = "WindowsChanged" /\ d.list = WindowList(w)
  OBVIOUS
<1> HIDE DEF c, d
<1>4. Correct(c, w)
  BY <1>2, Exact DEF Correct, AboutWindow, TellsWorkspaces, AboutFlags, TellsFlags,
     AboutFocus, AboutActive, TellsActive
<1>5. Correct(d, w)
  BY <1>3, Exact DEF Correct, AboutWindow, TellsWindow, AboutFlags, AboutFocus,
     AboutActive
<1> QED
  BY <1>1, <1>4, <1>5

(* The stream has just been opened. *)
LEMMA AgreementStarts == ReplicationInit => AgreementInv
<1> SUFFICES ASSUME ReplicationInit PROVE Follows(Asked, buffer \o stream, 0, world)
  BY DEF AgreementInv, ReplicationInit
<1>1. /\ world \in Worlds /\ buffer = <<>> /\ answers = <<>>
      /\ stream = IF greeted THEN Greeting(world) ELSE <<>>
  BY DEF ReplicationInit
<1>2. Asked = [windows |-> WindowList(world), workspaces |-> WorkspaceList(world),
               focused_window_id |-> Focused(world)]
  BY <1>1 DEF Asked
<1>3. stream \in Seq(Event) /\ \A i \in 1..Len(stream) : Correct(stream[i], world)
  <2>1. CASE greeted
    BY <1>1, <2>1, GreetingTells, GreetingCorrect
  <2>2. CASE ~greeted
    BY <1>1, <2>2, EmptySeq
  <2> QED
    BY <2>1, <2>2
<1>4. buffer \o stream = stream
  BY <1>1, <1>3, ConcatEmptySeq
<1>5. /\ Asked.windows = WindowList(world) /\ Asked.workspaces = WorkspaceList(world)
      /\ Asked.focused_window_id = Focused(world)
  BY <1>2
<1>6. Follows(Asked, stream, 0, world)
  BY <1>1, <1>3, <1>5, Exact, ExactFollows
<1> QED
  BY <1>4, <1>6

(* What is followed depends on the state only by the order of a change's events. *)
LEMMA FollowsPrimed ==
    ASSUME workspacesFirst' = workspacesFirst,
           phase' = "querying" => Follows(Asked', buffer' \o stream', 0, world'),
           phase' = "live" => Follows(engine', stream', 0, world')
    PROVE  AgreementInv'
BY DEF AgreementInv, Follows

(* Events are sent of what the compositor did: an answer that is still to come tells
   of it too. *)
LEMMA SendingAgrees ==
    ASSUME ReplicationInv, AgreementInv, NEW es, stream' = stream \o es,
           world' \in Worlds, Sent(es, world, world'),
           UNCHANGED <<engine, workspacesFirst, phase, answers, buffer>>
    PROVE  AgreementInv'
<1> DEFINE h == buffer \o stream
           g == h \o es
<1>1. /\ stream \in Seq(Event) /\ buffer \in Seq(Event) /\ es \in Seq(Event)
      /\ h \in Seq(Event) /\ g \in Seq(Event)
      /\ 0 \in 0..Len(h) /\ 0 \in 0..Len(stream) /\ 0 \in 0..Len(g)
  BY ConcatProperties, LenProperties DEF ReplicationInv, ReplicationTypes, Sent
<1>2. g = buffer' \o stream'
  BY <1>1, ConcatAssociative
<1>3. phase = "querying" => Follows(Asked, h, 0, world)
  BY DEF AgreementInv
<1> HIDE DEF g, h
<1>4. ASSUME phase = "querying" PROVE Follows(Asked', g, 0, world')
  <2>1. Follows(Asked, g, 0, world')
    BY <1>1, <1>3, <1>4, FollowsMore DEF g
  <2>2. /\ Focused(world') \in Windows \cup {None}
        /\ \A ws \in DOMAIN world'.active : world'.active[ws] \in Windows \cup {None}
    BY WorldOf, ActiveOf DEF Focused
  <2> DEFINE d == Asked'
  <2>3. /\ d.windows = Asked.windows \/ d.windows = WindowList(world')
        /\ d.workspaces = Asked.workspaces \/ d.workspaces = WorkspaceList(world')
        /\ \/ d.focused_window_id = Asked.focused_window_id
           \/ d.focused_window_id = Focused(world')
    BY DEF Asked
  <2> HIDE DEF d
  <2> DEFINE c == Asked
             v == world'
  <2>4. /\ \A id \in Windows : Shows(c.windows, id, v) => Shows(d.windows, id, v)
        /\ SameWorkspaces(c.workspaces, v) => SameWorkspaces(d.workspaces, v)
        /\ \A o : SameFlags(c.workspaces, o, v) => SameFlags(d.workspaces, o, v)
        /\ c.focused_window_id = Focused(v) => d.focused_window_id = Focused(v)
        /\ \A ws \in DOMAIN v.active :
             /\ SameActive(c.workspaces, ws, v) => SameActive(d.workspaces, ws, v)
             /\ Fresh(c.workspaces, ws, v) => Fresh(d.workspaces, ws, v)
    <3>1. \A list, ws : SameActive(list, ws, v) => Fresh(list, ws, v)
      BY DEF SameActive, Fresh
    <3> HIDE DEF c, d
    <3> QED
      BY <2>3, <3>1, Exact DEF c
  <2> HIDE DEF c, v
  <2>5. Follows(d, g, 0, v)
    <3>1. Follows(c, g, 0, v)
      BY <2>1 DEF c, v
    <3>2. g \in Seq(Event) /\ 0 \in 0..Len(g)
      BY <1>1
    <3>3. /\ Focused(v) \in Windows \cup {None}
          /\ \A ws \in DOMAIN v.active : v.active[ws] \in Windows \cup {None}
      BY <2>2 DEF v
    <3> QED
      BY <2>4, <3>1, <3>2, <3>3, FollowsBetter
  <2> QED
    BY <2>5 DEF d, v
<1>5. ASSUME phase = "live" PROVE Follows(engine', stream', 0, world')
  BY <1>1, <1>5, FollowsMore DEF AgreementInv
<1> QED
  BY <1>2, <1>4, <1>5, FollowsPrimed

(* The compositor changes. *)
LEMMA ChangeAgrees ==
    ASSUME ReplicationInv, AgreementInv, Change
    PROVE  AgreementInv'
<1> DEFINE es == IF workspacesFirst
                 THEN WorkspaceEvents(world, world') \o WindowEvents(world, world')
                 ELSE WindowEvents(world, world') \o WorkspaceEvents(world, world')
<1>1. /\ world \in Worlds /\ DOMAIN world.where \subseteq opened
  BY DEF ReplicationInv, ReplicationTypes
<1>2. /\ stream' = stream \o es
      /\ UNCHANGED <<engine, workspacesFirst, phase, answers, buffer>>
  BY DEF Change, vars, bootstrap
<1>3. world' \in Worlds
  BY <1>1, WorldsLast DEF Change
<1>4. Sent(es, world, world')
  BY <1>1, <1>3, ChangeSent
<1> HIDE DEF es
<1> QED
  BY <1>2, <1>3, <1>4, SendingAgrees

(* An attribute of a window changes. *)
LEMMA TouchAgrees ==
    ASSUME ReplicationInv, AgreementInv, Touch
    PROVE  AgreementInv'
<1>1. PICK id \in DOMAIN world.where :
        stream' = Append(stream, [type |-> "WindowAttribute", id |-> id])
  BY DEF Touch
<1> DEFINE ev == [type |-> "WindowAttribute", id |-> id]
<1>2. world \in Worlds /\ stream \in Seq(Event) /\ id \in Windows
  BY WorldOf DEF ReplicationInv, ReplicationTypes
<1>3. UNCHANGED <<engine, workspacesFirst, phase, answers, buffer, world>>
  BY DEF Touch, vars, bootstrap
<1>4. Sent(<<ev>>, world, world')
  BY <1>2, <1>3, TouchSent
<1>5. ev \in Event
  BY <1>2 DEF Event
<1> HIDE DEF ev
<1>6. stream' = stream \o <<ev>>
  BY <1>1, <1>2, <1>5 DEF ev
<1> QED
  BY <1>2, <1>3, <1>4, <1>6, SendingAgrees

(* An answer is what the compositor has at that moment. *)
LEMMA AnswerAgrees ==
    ASSUME ReplicationInv, AgreementInv, Answer
    PROVE  AgreementInv'
<1> DEFINE value(q) ==
             CASE q = "workspaces" -> WorkspaceList(world)
               [] q = "windows" -> WindowList(world)
               [] q = "focused_window" ->
                    IF Focused(world) = None THEN [id |-> None, workspace |-> None]
                    ELSE [id |-> Focused(world), workspace |-> world.where[Focused(world)]]
<1>1. PICK q \in Queries \ DOMAIN answers : answers' = Put(answers, q, value(q))
  BY DEF Answer
<1>2. /\ phase = "querying"
      /\ UNCHANGED <<engine, workspacesFirst, world, stream, phase, buffer>>
  BY DEF Answer, vars, compositor
<1>3. /\ value("workspaces") = WorkspaceList(world)
      /\ value("windows") = WindowList(world)
      /\ value("focused_window").id = Focused(world)
  OBVIOUS
<1> HIDE DEF value
<1>4. /\ DOMAIN answers' = DOMAIN answers \cup {q}
      /\ answers'[q] = value(q)
      /\ \A x \in DOMAIN answers : answers'[x] = answers[x]
  BY <1>1 DEF Put
<1>5. Asked' = Asked
  BY <1>2, <1>3, <1>4 DEF Asked
<1>6. Follows(Asked', buffer' \o stream', 0, world')
  BY <1>2, <1>5 DEF AgreementInv
<1> QED
  BY <1>2, <1>6, FollowsPrimed

(* An event that is buffered is still to come. *)
LEMMA BufferAgrees ==
    ASSUME ReplicationInv, AgreementInv, BufferEvent
    PROVE  AgreementInv'
<1>1. /\ phase = "querying" /\ stream # <<>>
      /\ buffer' = Append(buffer, Head(stream)) /\ stream' = Tail(stream)
      /\ UNCHANGED <<engine, workspacesFirst, world, phase, answers>>
  BY DEF BufferEvent, vars, compositor
<1>2. stream \in Seq(Event) /\ buffer \in Seq(Event)
  BY DEF ReplicationInv, ReplicationTypes
<1>3. buffer' \o stream' = buffer \o stream
  BY <1>1, <1>2, BufferNext
<1>4. Asked' = Asked
  BY <1>1 DEF Asked
<1>5. Follows(Asked', buffer' \o stream', 0, world')
  BY <1>1, <1>3, <1>4 DEF AgreementInv
<1> QED
  BY <1>1, <1>5, FollowsPrimed

(* The loop handles an event, which is no longer to come. *)
LEMMA HandleAgrees ==
    ASSUME ReplicationInv, AgreementInv, HandleEvent
    PROVE  AgreementInv'
<1>1. /\ phase = "live" /\ stream # <<>>
      /\ Handle(Reduce(engine, Head(stream))) /\ stream' = Tail(stream)
      /\ UNCHANGED <<workspacesFirst, world, phase>>
  BY DEF HandleEvent, compositor, bootstrap
<1>2. /\ stream \in Seq(Event) /\ world \in Worlds /\ engine \in EngineState
      /\ Follows(engine, stream, 0, world)
  BY <1>1 DEF ReplicationInv, ReplicationTypes, PhaseInv, EngineInv, Publishable,
     Repaired, AgreementInv
<1>3. /\ Head(stream) = stream[1] /\ Head(stream) \in Event /\ stream' \in Seq(Event)
      /\ Len(stream) \in Nat \ {0} /\ Len(stream) = Len(stream') + 1
      /\ \A i \in 1..Len(stream') : stream[i + 1] = stream'[i]
  <2>1. /\ Head(stream) \in Event /\ Tail(stream) \in Seq(Event)
        /\ Len(Tail(stream)) = Len(stream) - 1
        /\ \A i \in 1..Len(Tail(stream)) : Tail(stream)[i] = stream[i + 1]
        /\ Head(stream) = stream[1]
    BY <1>1, <1>2, HeadTailProperties
  <2>2. Len(stream) \in Nat \ {0}
    BY <1>1, <1>2, EmptySeq
  <2> QED
    BY <1>1, <2>1, <2>2
<1> DEFINE r == Reduce(engine, Head(stream))
<1>4. Follows(r.engine, stream, 1, world)
  <2>1. 0 \in Nat /\ 0 < Len(stream) /\ 0 + 1 = 1
    BY <1>3
  <2>2. Follows(Reduce(engine, stream[0 + 1]).engine, stream, 0 + 1, world)
    BY <1>2, <2>1, FollowsNext
  <2> QED
    BY <1>3, <2>1, <2>2
<1>5. r.engine \in EngineState
  <2>1. Kept(engine, Head(stream), r)
    BY <1>2, <1>3, EventsKept
  <2> QED
    BY <2>1 DEF Kept, Reductions
<1>6. Handle(r)
  BY <1>1
<1> HIDE DEF r
<1>7. Follows(engine', stream, 1, world)
  <2>1. 1 \in 0..Len(stream)
    BY <1>3
  <2> QED
    BY <1>2, <1>4, <1>5, <1>6, <2>1, HandleFollows
<1>8. Follows(engine', stream', 0, world)
  <2>1. 1 \in Nat
    OBVIOUS
  <2> QED
    BY <1>2, <1>3, <1>7, <2>1, FollowsShift
<1> QED
  BY <1>1, <1>8, FollowsPrimed

(* The engine that is built from the answers has what was asked for. *)
LEMMA BuiltFollows ==
    ASSUME NEW windows \in Dict(Windows, Window),
           NEW workspaces \in Dict(Workspaces, Workspace),
           NEW focused \in Windows \cup {None}, NEW workspace \in Workspaces \cup {None},
           engine = EmptyEngine,
           NEW h \in Seq(Event), NEW w \in Worlds, NEW e, Follows(e, h, 0, w),
           e.windows = windows, e.workspaces = workspaces, e.focused_window_id = focused
    PROVE  Follows(BuildInitial(windows, workspaces, focused, workspace,
                                engine.keyboard, engine.overview), h, 0, w)
<1> DEFINE f == IF focused = None THEN None ELSE workspace
           k == [names |-> 0, current_idx |-> 0]
           a == [outputs |-> KnownOutputs, workspaces |-> workspaces,
                 windows |-> windows, focused_window_id |-> focused,
                 focused_workspace_id |-> f,
                 keyboard |-> k, overview |-> FALSE,
                 health |-> "bootstrapping", desynced |-> FALSE]
<1>1. f \in Workspaces \cup {None} /\ k \in [names : Nat, current_idx : Nat]
  OBVIOUS
<1>2. engine.keyboard = k /\ engine.overview = FALSE
  BY DEF EmptyEngine
<1>3. Reconcile(a) = BuildInitial(windows, workspaces, focused, workspace,
                                  engine.keyboard, engine.overview)
  BY <1>2 DEF BuildInitial
<1> HIDE DEF f, k
<1>4. a \in EngineState
  BY <1>1, EngineAssumption DEF EngineState
<1>5. /\ a.windows = e.windows /\ a.workspaces = e.workspaces
      /\ a.focused_window_id = e.focused_window_id
  OBVIOUS
<1> HIDE DEF a
<1>6. 0 \in 0..Len(h)
  OBVIOUS
<1>7. Follows(a, h, 0, w)
  BY <1>5, <1>6, FollowsSame
<1>8. Follows(Reconcile(a), h, 0, w)
  BY <1>4, <1>6, <1>7, ReconcileFollows
<1> QED
  BY <1>3, <1>8

(* One event of a replay. *)
LEMMA ReplayFollows ==
    ASSUME NEW r \in Replays, ~r.desync, NEW h \in Seq(Event), NEW n \in Nat, n < Len(h),
           NEW w \in Worlds, Follows(r.engine, h, n, w)
    PROVE  Follows(Replay(r, h[n + 1]).engine, h, n + 1, w)
<1> DEFINE d == Reduce(r.engine, h[n + 1])
<1>1. h[n + 1] \in Event /\ n + 1 \in 0..Len(h)
  BY ElementOfSeq, LenProperties
<1>2. r.engine \in EngineState
  BY DEF Replays, Reductions
<1>3. Kept(r.engine, h[n + 1], d)
  BY <1>1, <1>2, EventsKept
<1>4. Follows(d.engine, h, n + 1, w)
  BY <1>2, FollowsNext
<1>5. Replay(r, h[n + 1]) = [d EXCEPT !.engine = Reconcile(@)]
  BY DEF Replay
<1> HIDE DEF d
<1>6. d \in Reductions /\ d.engine \in EngineState
  BY <1>3 DEF Kept, Reductions
<1>7. Replay(r, h[n + 1]).engine = Reconcile(d.engine)
  BY <1>5, <1>6 DEF Reductions
<1>8. Follows(Reconcile(d.engine), h, n + 1, w)
  BY <1>1, <1>4, <1>6, ReconcileFollows
<1> QED
  BY <1>7, <1>8

(* All of it: what was buffered has been reduced, the rest of the stream is to come. *)
LEMMA BufferFollows ==
    ASSUME NEW b \in Replays, NEW buffered \in Seq(Event), NEW s \in Seq(Event),
           NEW w \in Worlds, Follows(b.engine, buffered \o s, 0, w),
           ~FoldLeft(Replay, b, buffered).desync
    PROVE  Follows(FoldLeft(Replay, b, buffered).engine, s, 0, w)
<1> DEFINE h == buffered \o s
           N == Len(buffered)
           Q(n) == {r \in Replays : ~r.desync => Follows(r.engine, h, n, w)}
           P == [n \in 0..N |-> Q(n)]
<1>1. /\ h \in Seq(Event) /\ N \in Nat /\ Len(s) \in Nat /\ Len(h) = N + Len(s)
      /\ \A i \in 1..N : h[i] = buffered[i]
      /\ \A i \in 1..Len(s) : h[i + N] = s[i]
  <2>1. /\ h \in Seq(Event) /\ Len(h) = N + Len(s)
        /\ \A i \in 1..(N + Len(s)) : h[i] = IF i <= N THEN buffered[i] ELSE s[i - N]
    BY ConcatProperties
  <2>2. N \in Nat /\ Len(s) \in Nat
    BY LenProperties
  <2> HIDE DEF h, N
  <2>3. \A i \in 1..N : i \in 1..(N + Len(s)) /\ i <= N
    BY <2>2
  <2>4. \A i \in 1..Len(s) :
          i + N \in 1..(N + Len(s)) /\ ~(i + N <= N) /\ (i + N) - N = i
    BY <2>2
  <2> QED
    BY <2>1, <2>2, <2>3, <2>4
<1>2. Follows(b.engine, h, 0, w)
  OBVIOUS
<1> HIDE DEF h
<1>3. b \in P[0]
  BY <1>1, <1>2
<1>4. ASSUME NEW n \in 1..N, NEW r \in P[n - 1] PROVE Replay(r, buffered[n]) \in P[n]
  <2>1. P[n] = Q(n) /\ P[n - 1] = Q(n - 1)
    BY <1>1
  <2>2. buffered[n] \in Event /\ buffered[n] = h[n]
    BY <1>1, ElementOfSeq
  <2>3. r \in Replays /\ Replay(r, buffered[n]) \in Replays
    BY <2>1, <2>2, ReplayStep
  <2>4. ASSUME ~Replay(r, h[n]).desync
        PROVE  Follows(Replay(r, h[n]).engine, h, n, w)
    <3>1. ~r.desync
      BY <2>4 DEF Replay
    <3>2. Follows(r.engine, h, n - 1, w)
      BY <2>1, <3>1
    <3>3. n - 1 \in Nat /\ n - 1 < Len(h) /\ (n - 1) + 1 = n
      BY <1>1
    <3>4. Follows(Replay(r, h[(n - 1) + 1]).engine, h, (n - 1) + 1, w)
      BY <1>1, <2>3, <3>1, <3>2, <3>3, ReplayFollows
    <3> QED
      BY <3>3, <3>4
  <2>5. Replay(r, buffered[n]) \in Q(n)
    BY <2>2, <2>3, <2>4
  <2> QED
    BY <2>1, <2>5
<1>5. P[N] = Q(N)
  BY <1>1
<1> HIDE DEF P
<1>6. FoldLeft(Replay, b, buffered) \in P[N]
  BY <1>3, <1>4, ReplayInduction
<1>7. Follows(FoldLeft(Replay, b, buffered).engine, h, N, w)
  BY <1>5, <1>6
<1> QED
  BY <1>1, <1>7, FollowsShift

(* The replica is built and catches up with what was buffered. *)
LEMMA FinishAgrees ==
    ASSUME ReplicationInv, AgreementInv, FinishBootstrap
    PROVE  AgreementInv'
<1> DEFINE focused == answers["focused_window"]
           built == BuildInitial(answers["windows"], answers["workspaces"],
                                 focused.id, focused.workspace,
                                 engine.keyboard, engine.overview)
           base == Applied(built, {})
           replayed == FoldLeft(Replay, base, buffer)
<1>1. /\ phase = "querying" /\ DOMAIN answers = Queries
      /\ IF replayed.desync THEN phase' = "failed"
         ELSE phase' = "live" /\ engine' = Bootstrapped(replayed.engine)
      /\ UNCHANGED <<workspacesFirst, world, stream>>
  BY DEF FinishBootstrap, compositor
<1>2. /\ engine = EmptyEngine /\ world \in Worlds
      /\ \A q \in Queries : answers[q] \in Answers[q]
      /\ stream \in Seq(Event) /\ buffer \in Seq(Event) /\ buffer \o stream \in Seq(Event)
  BY <1>1, ConcatProperties DEF ReplicationInv, PhaseInv, ReplicationTypes
<1>3. /\ answers["workspaces"] \in Dict(Workspaces, Workspace)
      /\ answers["windows"] \in Dict(Windows, Window)
      /\ focused.id \in Windows \cup {None} /\ focused.workspace \in Workspaces \cup {None}
  <2>1. /\ "workspaces" \in Queries /\ "windows" \in Queries
        /\ "focused_window" \in Queries
    BY DEF Queries
  <2>2. /\ answers["workspaces"] \in Dict(Workspaces, Workspace)
        /\ answers["windows"] \in Dict(Windows, Window)
        /\ focused \in [id : Windows \cup {None}, workspace : Workspaces \cup {None}]
    BY <1>2, <2>1 DEF Answers
  <2> HIDE DEF focused
  <2> QED
    BY <2>2
<1>4. /\ Asked.windows = answers["windows"] /\ Asked.workspaces = answers["workspaces"]
      /\ Asked.focused_window_id = focused.id
  BY <1>1 DEF Asked, Queries
<1>5. Follows(Asked, buffer \o stream, 0, world)
  BY <1>1 DEF AgreementInv
<1> HIDE DEF focused
<1>6. Follows(built, buffer \o stream, 0, world)
  BY <1>2, <1>3, <1>4, <1>5, BuiltFollows
<1>7. base \in Replays
  BY <1>2, <1>3, BuiltReplays
<1>8. base.engine = built
  BY DEF Applied
<1> HIDE DEF base
<1>9. ASSUME ~replayed.desync PROVE Follows(Bootstrapped(replayed.engine), stream, 0, world)
  <2>1. Follows(replayed.engine, stream, 0, world)
    BY <1>2, <1>6, <1>7, <1>8, <1>9, BufferFollows
  <2>2. replayed \in Replays
    BY <1>2, <1>7, ReplayLeaves
  <2> HIDE DEF replayed
  <2>3. replayed.engine \in EngineState /\ 0 \in 0..Len(stream)
    BY <1>2, <2>2, LenProperties DEF Replays, Reductions
  <2> QED
    BY <1>2, <2>1, <2>3, CheckedFollows
<1> HIDE DEF replayed
<1> QED
  BY <1>1, <1>9, FollowsPrimed

(* The replica agrees, but for what is still to come, however queries, changes and
   events interleave. *)
LEMMA AgreementInvariance == ReplicationSpec => []AgreementInv
<1>1. ReplicationInv /\ AgreementInv /\ [ReplicationNext]_allVars => AgreementInv'
  <2>1. ASSUME ReplicationInv, AgreementInv, ReplicationNext PROVE AgreementInv'
    BY <2>1, ChangeAgrees, TouchAgrees, AnswerAgrees, BufferAgrees, FinishAgrees,
       HandleAgrees
    DEF ReplicationNext
  <2>2. ASSUME AgreementInv, UNCHANGED allVars PROVE AgreementInv'
    <3>1. UNCHANGED <<engine, phase, answers, buffer, stream, world, workspacesFirst>>
      BY <2>2 DEF allVars, vars, compositor, bootstrap
    <3>2. Asked' = Asked
      BY <3>1 DEF Asked
    <3> QED
      BY <2>2, <3>1, <3>2, FollowsPrimed DEF AgreementInv
  <2> QED
    BY <2>1, <2>2
<1> QED
  BY <1>1, AgreementStarts, ReplicationInvariance, PTL DEF ReplicationSpec

-------------------------------------------------------------------------------
(* What it gives *)

(* With nothing to come, what follows is there. *)
LEMMA NothingToCome ==
    ASSUME NEW e, NEW w, Follows(e, <<>>, 0, w)
    PROVE  /\ \A id \in Windows : Shows(e.windows, id, w)
           /\ SameWorkspaces(e.workspaces, w)
           /\ \A o \in Outputs : SameFlags(e.workspaces, o, w)
           /\ e.focused_window_id = Focused(w)
           /\ \A ws \in DOMAIN w.active :
                /\ Fresh(e.workspaces, ws, w)
                /\ ~workspacesFirst => SameActive(e.workspaces, ws, w)
<1> DEFINE h == <<>>
<1>1. h \in Seq(Event) /\ Len(h) = 0 /\ 0 \in 0..Len(h)
  BY EmptySeq
<1>2. Follows(e, h, 0, w)
  OBVIOUS
<1> HIDE DEF h
<1>3. ASSUME NEW A \in SUBSET Nat, NEW R, 0 \in A, \A k \in A : 0 <= k /\ k <= Len(h),
             Settled(A, R, Len(h))
      PROVE  0 \in R
  BY <1>1, <1>3 DEF Settled
<1>4. \A id \in Windows : Shows(e.windows, id, w)
  <2> SUFFICES ASSUME NEW id \in Windows PROVE Shows(e.windows, id, w)
    OBVIOUS
  <2>1. CASE id = None
    BY <2>1, EngineAssumption
  <2>2. CASE id # None
    <3>1. Settled(WindowAt(h, 0, id), WindowRight(e.windows, h, 0, w, id), Len(h))
      BY <1>2, <2>2 DEF Follows, WindowsFollow, Steady
    <3>2. 0 \in WindowRight(e.windows, h, 0, w, id)
      BY <1>1, <1>3, <3>1, Places
    <3> QED
      BY <3>2 DEF WindowRight
  <2> QED
    BY <2>1, <2>2
<1>5. SameWorkspaces(e.workspaces, w)
  <2>1. 0 \in ListRight(e, h, 0, w)
    BY <1>1, <1>2, <1>3, Places DEF Follows, WorkspacesFollow
  <2> QED
    BY <2>1 DEF ListRight
<1>6. ASSUME NEW o \in Outputs PROVE SameFlags(e.workspaces, o, w)
  <2>1. 0 \in FlagsRight(e, h, 0, o, w)
    BY <1>1, <1>2, <1>3, Places DEF Follows, FlagsFollow
  <2> QED
    BY <2>1 DEF FlagsRight
<1>7. e.focused_window_id = Focused(w)
  <2>1. 0 \in FocusRight(e, h, 0, w)
    BY <1>1, <1>2, <1>3, Places DEF Follows, FocusFollows
  <2> QED
    BY <2>1 DEF FocusRight
<1>8. ASSUME ~workspacesFirst, NEW ws \in DOMAIN w.active
      PROVE  SameActive(e.workspaces, ws, w)
  <2>1. 0 \in ActiveRight(e, h, 0, w, ws)
    BY <1>1, <1>2, <1>3, <1>8, Places DEF Follows, ActiveFollows
  <2> QED
    BY <2>1 DEF ActiveRight
<1>9. ASSUME NEW ws \in DOMAIN w.active PROVE Fresh(e.workspaces, ws, w)
  <2>1. 0 \in FreshRight(e, h, 0, w, ws)
    BY <1>1, <1>2, <1>3, <1>9, Places DEF Follows, ActiveFresh
  <2> QED
    BY <2>1 DEF FreshRight
<1> QED
  BY <1>4, <1>5, <1>6, <1>7, <1>8, <1>9

\* Replaying the buffered events closes the race of the bootstrap (bootstrap.py,
\* run_bootstrap), and the loop loses nothing after it: however queries, changes and
\* events interleave, a replica that has handled every event has the compositor's
\* windows and its focused window, its workspaces, on its outputs, and the one that is
\* active on each; the workspace with the focus says so.  Another one that does is
\* active on another output (reducers.py:216-220 clears only those of the same one).
THEOREM CaughtUpAgreement == ReplicationSpec => []CaughtUpAgrees
<1>1. ReplicationInv /\ AgreementInv => CaughtUpAgrees
  <2> SUFFICES ASSUME ReplicationInv, AgreementInv, CaughtUp
               PROVE  /\ engine.windows = WindowList(world)
                      /\ engine.focused_window_id = Focused(world)
                      /\ DOMAIN engine.workspaces = DOMAIN world.active
                      /\ \A ws \in DOMAIN world.active :
                           LET workspace == engine.workspaces[ws] IN
                           /\ workspace.output = world.output[ws]
                           /\ workspace.is_active = (ws \in world.shown)
                           /\ workspace.is_focused => ws \in world.shown
                           /\ ws = world.focused => workspace.is_focused
                      /\ Focused(world) # None =>
                           engine.focused_workspace_id = world.focused
    BY DEF CaughtUpAgrees
  <2>1. /\ world \in Worlds /\ EngineInv /\ engine \in EngineState
        /\ Follows(engine, <<>>, 0, world)
    BY DEF CaughtUp, AgreementInv, ReplicationInv, ReplicationTypes, PhaseInv, EngineInv,
       Publishable, Repaired
  <2>2. /\ \A id \in Windows : Shows(engine.windows, id, world)
        /\ SameWorkspaces(engine.workspaces, world)
        /\ \A o \in Outputs : SameFlags(engine.workspaces, o, world)
        /\ engine.focused_window_id = Focused(world)
    BY <2>1, NothingToCome
  <2>3. DOMAIN engine.workspaces = DOMAIN world.active
    BY <2>2 DEF SameWorkspaces
  <2>4. engine.windows = WindowList(world)
    <3>1. /\ engine.windows \in Dict(Windows, Window)
          /\ WindowList(world) \in Dict(Windows, Window)
      BY <2>1, ListTypes DEF EngineState
    <3>2. /\ DOMAIN engine.windows \subseteq Windows
          /\ engine.windows = [id \in DOMAIN engine.windows |-> engine.windows[id]]
          /\ DOMAIN WindowList(world) = DOMAIN world.where
          /\ WindowList(world) = [id \in DOMAIN world.where |-> WindowList(world)[id]]
      BY <2>1, <3>1, DictElement, ListTypes DEF Dict, WindowList
    <3>3. DOMAIN engine.windows = DOMAIN world.where
      BY <2>1, <2>2, <3>2, WorldOf DEF Shows
    <3>4. \A id \in DOMAIN world.where : engine.windows[id] = WindowList(world)[id]
      BY <2>1, <2>2, WorldOf DEF Shows
    <3> QED
      BY <3>2, <3>3, <3>4
  <2>5. ASSUME Focused(world) # None PROVE engine.focused_workspace_id = world.focused
    <3>1. world.focused \in DOMAIN world.active
      BY <2>1, WorldOf
    <3>2. Focused(world) \in DOMAIN world.where /\ world.where[Focused(world)] = world.focused
      BY <2>1, <2>5, <3>1, ActiveOf DEF Focused
    <3>3. engine.windows[engine.focused_window_id].workspace_id = world.focused
      BY <2>2, <2>4, <3>2 DEF WindowList
    <3>4. FocusFollowsWindow
      BY <2>1, FocusAgreeing
    <3> QED
      BY <2>2, <2>3, <2>5, <3>1, <3>3, <3>4 DEF FocusFollowsWindow
  <2>6. ASSUME NEW ws \in DOMAIN world.active
        PROVE  LET workspace == engine.workspaces[ws] IN
               /\ workspace.output = world.output[ws]
               /\ workspace.is_active = (ws \in world.shown)
               /\ workspace.is_focused => ws \in world.shown
               /\ ws = world.focused => workspace.is_focused
    <3> DEFINE o == world.output[ws]
    <3>1. o \in Outputs /\ OnOutput(world, ws, o)
      BY <2>1, WorldOf DEF OnOutput
    <3>2. SameFlags(engine.workspaces, o, world)
      BY <2>2, <3>1
    <3>3. engine.workspaces[ws].is_active \in BOOLEAN
      BY <2>1, <2>3, WorkspaceOf DEF EngineState, Workspace
    <3> HIDE DEF o
    <3>4. /\ engine.workspaces[ws].is_active <=> ws \in world.shown
          /\ engine.workspaces[ws].is_focused => ws \in world.shown
          /\ ws = world.focused => engine.workspaces[ws].is_focused
      BY <2>3, <3>1, <3>2 DEF SameFlags
    <3>5. engine.workspaces[ws].is_active = (ws \in world.shown)
      BY <3>3, <3>4
    <3>6. engine.workspaces[ws].output = world.output[ws]
      BY <2>2, <2>3 DEF SameWorkspaces
    <3> QED
      BY <3>4, <3>5, <3>6
  <2> QED
    BY <2>2, <2>3, <2>4, <2>5, <2>6
<1> QED
  BY <1>1, ReplicationInvariance, AgreementInvariance, PTL

\* No workspace of such a replica has an active window that the compositor no longer
\* has there, and if the compositor sends the events about windows first, each has the
\* compositor's: then reconcile erases none for good (reconcile.py:62-64).
THEOREM ActiveWindowsAgreement == ReplicationSpec => []ActiveWindowsAgree
<1>1. ReplicationInv /\ AgreementInv => ActiveWindowsAgree
  <2> SUFFICES ASSUME ReplicationInv, AgreementInv, CaughtUp
               PROVE  /\ DOMAIN engine.workspaces = DOMAIN world.active
                      /\ \A ws \in DOMAIN world.active :
                           LET active == engine.workspaces[ws].active_window_id IN
                           /\ active \in {world.active[ws], None}
                           /\ workspacesFirst \/ active = world.active[ws]
    BY DEF ActiveWindowsAgree
  <2>1. Follows(engine, <<>>, 0, world)
    BY DEF CaughtUp, AgreementInv
  <2>2. DOMAIN engine.workspaces = DOMAIN world.active
    BY <2>1, NothingToCome DEF SameWorkspaces
  <2>3. \A ws \in DOMAIN world.active :
          /\ Fresh(engine.workspaces, ws, world)
          /\ ~workspacesFirst => SameActive(engine.workspaces, ws, world)
    BY <2>1, NothingToCome
  <2> QED
    BY <2>2, <2>3 DEF Fresh, SameActive
<1> QED
  BY <1>1, ReplicationInvariance, AgreementInvariance, PTL

===============================================================================
