--------------------------- MODULE Replication_proofs ---------------------------
(***************************************************************************)
(* Proofs about Replication, for every set of ids and every number of        *)
(* changes: what a replay of buffered events leaves, and why a greeted        *)
(* replica always connects.                                                  *)
(***************************************************************************)
EXTENDS Replication, Engine_proofs, SequenceTheorems, FiniteSetTheorems,
        WellFoundedInduction

(* A set of naturals has a least element. *)
LEMMA LeastNatural ==
    ASSUME NEW T, T \subseteq Nat, T # {}
    PROVE  \E n \in T : \A m \in T : n <= m
<1> DEFINE R == OpToRel(<, Nat)
<1>1. IsWellFoundedOn(R, Nat)
  BY NatLessThanWellFounded
<1>2. R = {ss \in Nat \X Nat : ss[1] < ss[2]}
  BY DEF OpToRel
<1> HIDE DEF R
<1>3. PICK n \in T : \A m \in T : <<m, n>> \notin R
  BY <1>1, WFMin
<1>4. ASSUME NEW m \in T PROVE n <= m
  <2>1. m \in Nat /\ n \in Nat
    OBVIOUS
  <2>2. ~(m < n)
    BY <1>2, <1>3, <2>1
  <2> QED
    BY <2>1, <2>2
<1> QED
  BY <1>4

-------------------------------------------------------------------------------
(* What a replay computes *)

\* The function by which the fold over seq is defined, for the indices 1..n.
IsReplay(f, b, seq, n) ==
    f = [s \in SUBSET (1..n) |->
           IF s = {} THEN b ELSE Replay(f[s \ {Max(s)}], seq[Max(s)])]

ReplayFunction(b, seq) == CHOOSE f : IsReplay(f, b, seq, Len(seq))

(* The fold is defined by that function. *)
LEMMA ReplayUnfolds ==
    ASSUME NEW b, NEW E, NEW seq \in Seq(E)
    PROVE  FoldLeft(Replay, b, seq) = ReplayFunction(b, seq)[1..Len(seq)]
<1>1. DOMAIN seq = 1..Len(seq)
  OBVIOUS
<1>2. FoldLeft(Replay, b, seq) =
        (CHOOSE f : f = [s \in SUBSET (DOMAIN seq) |->
           IF s = {} THEN b ELSE LET x == Max(s) IN Replay(f[s \ {x}], seq[x])])
        [DOMAIN seq]
  BY DEF FoldLeft, MapThenFoldSet
<1> QED
  BY <1>1, <1>2 DEF IsReplay, ReplayFunction

(* The last index of a set that goes up to it. *)
LEMMA LastIndex ==
    ASSUME NEW n \in Nat, NEW s \in SUBSET (1..n), n \in s
    PROVE  Max(s) = n
<1>1. \A y \in s : n >= y
  OBVIOUS
<1>2. ASSUME NEW x \in s, \A y \in s : x >= y PROVE x = n
  BY <1>2
<1> QED
  BY <1>1, <1>2 DEF Max

(* That function exists, whatever the events. *)
LEMMA ReplayExists ==
    ASSUME NEW b, NEW seq, NEW n \in Nat
    PROVE  \E f : IsReplay(f, b, seq, n)
<1> DEFINE T == {m \in Nat : ~ \E f : IsReplay(f, b, seq, m)}
<1>1. SUFFICES T = {}
  OBVIOUS
<1>2. SUFFICES ASSUME T # {} PROVE FALSE
  OBVIOUS
<1>3. PICK m \in T : \A k \in T : m <= k
  BY <1>2, LeastNatural
<1>4. m # 0
  <2> DEFINE f == [s \in SUBSET (1..0) |-> b]
  <2>1. \A s \in SUBSET (1..0) : s = {}
    OBVIOUS
  <2>2. f = [s \in SUBSET (1..0) |->
               IF s = {} THEN b ELSE Replay(f[s \ {Max(s)}], seq[Max(s)])]
    BY <2>1
  <2>3. IsReplay(f, b, seq, 0)
    BY <2>2 DEF IsReplay
  <2> QED
    BY <1>3, <2>3
<1>5. m - 1 \in Nat /\ m - 1 \notin T
  BY <1>3, <1>4
<1>6. PICK g : IsReplay(g, b, seq, m - 1)
  BY <1>5
<1> DEFINE f == [s \in SUBSET (1..m) |->
                   IF m \in s THEN Replay(g[s \ {m}], seq[m]) ELSE g[s]]
           body(s) == IF s = {} THEN b ELSE Replay(f[s \ {Max(s)}], seq[Max(s)])
<1>7. ASSUME NEW s \in SUBSET (1..m) PROVE f[s] = body(s)
  <2>1. CASE m \in s
    <3>1. Max(s) = m
      BY <1>3, <2>1, LastIndex
    <3>2. s \ {m} \in SUBSET (1..m) /\ m \notin s \ {m}
      OBVIOUS
    <3>3. f[s \ {m}] = g[s \ {m}]
      BY <3>2
    <3>4. f[s] = Replay(g[s \ {m}], seq[m])
      BY <2>1
    <3>5. body(s) = Replay(f[s \ {m}], seq[m])
      BY <2>1, <3>1
    <3> QED
      BY <3>3, <3>4, <3>5
  <2>2. CASE m \notin s
    <3>1. s \in SUBSET (1..(m - 1))
      BY <1>3, <2>2
    <3>2. g[s] = IF s = {} THEN b ELSE Replay(g[s \ {Max(s)}], seq[Max(s)])
      BY <1>6, <3>1 DEF IsReplay
    <3>3. s \ {Max(s)} \in SUBSET (1..m) /\ m \notin s \ {Max(s)}
      BY <2>2
    <3>4. f[s \ {Max(s)}] = g[s \ {Max(s)}]
      BY <3>3
    <3>5. f[s] = g[s]
      BY <2>2
    <3> QED
      BY <3>2, <3>4, <3>5
  <2> QED
    BY <2>1, <2>2
<1>8. IsReplay(f, b, seq, m)
  <2>1. f = [s \in SUBSET (1..m) |-> f[s]]
    OBVIOUS
  <2>2. f = [s \in SUBSET (1..m) |-> body(s)]
    BY <1>7, <2>1, Zenon
  <2> QED
    BY <2>2 DEF IsReplay
<1> QED
  BY <1>3, <1>8

\* What holds of the result before the first event, and after an event if before
\* it, holds after the last: P[n] is what holds after n events.
LEMMA ReplayInduction ==
    ASSUME NEW b, NEW E, NEW seq \in Seq(E), NEW P,
           b \in P[0],
           \A n \in 1..Len(seq) : \A r \in P[n - 1] : Replay(r, seq[n]) \in P[n]
    PROVE  FoldLeft(Replay, b, seq) \in P[Len(seq)]
<1> DEFINE N == Len(seq)
<1>0. N \in Nat
  OBVIOUS
<1> DEFINE f == ReplayFunction(b, seq)
<1>1. IsReplay(f, b, seq, N)
  BY <1>0, ReplayExists DEF ReplayFunction
<1>2. FoldLeft(Replay, b, seq) = f[1..N]
  BY ReplayUnfolds
<1> HIDE DEF f
<1>3. f[1..0] = b
  <2>1. 1..0 = {} /\ 1..0 \in SUBSET (1..N)
    BY <1>0
  <2> QED
    BY <1>1, <2>1 DEF IsReplay
<1>4. ASSUME NEW n \in 1..N PROVE f[1..n] = Replay(f[1..(n - 1)], seq[n])
  <2>1. 1..n \in SUBSET (1..N) /\ 1..n # {} /\ n \in 1..n /\ n \in Nat
    BY <1>0
  <2>2. Max(1..n) = n
    BY <2>1, LastIndex
  <2>3. (1..n) \ {n} = 1..(n - 1)
    BY <2>1
  <2>4. f[1..n] = Replay(f[(1..n) \ {Max(1..n)}], seq[Max(1..n)])
    BY <1>1, <2>1 DEF IsReplay
  <2> QED
    BY <2>2, <2>3, <2>4
<1> DEFINE T == {n \in 0..N : f[1..n] \notin P[n]}
<1>5. T = {}
  <2>1. SUFFICES ASSUME T # {} PROVE FALSE
    OBVIOUS
  <2>7. T \subseteq Nat
    BY <1>0
  <2> HIDE DEF T
  <2>2. PICK n \in T : \A m \in T : n <= m
    BY <2>1, <2>7, LeastNatural
  <2> USE DEF T
  <2>3. n # 0
    BY <1>3, <2>2
  <2>4. n \in 1..N /\ n - 1 \in 0..N
    BY <1>0, <2>2, <2>3
  <2>5. n - 1 \notin T
    BY <2>2, <2>4
  <2>6. f[1..(n - 1)] \in P[n - 1]
    BY <2>4, <2>5
  <2> QED
    BY <1>4, <2>2, <2>4, <2>6
<1> QED
  BY <1>0, <1>2, <1>5

-------------------------------------------------------------------------------
(* Events *)

\* The events that the compositor sends.
Event ==
    [type : {"WindowsChanged"}, list : Dict(Windows, Window)]
    \cup [type : {"WindowOpenedOrChanged"}, id : Windows, window : Window,
          focused : BOOLEAN]
    \cup [type : {"WindowClosed", "WindowAttribute"}, id : Windows]
    \cup [type : {"WindowFocusChanged"}, id : Windows \cup {None}]
    \cup [type : {"WorkspacesChanged"}, list : Dict(Workspaces, Workspace)]
    \cup [type : {"WorkspaceActivated"}, id : Workspaces, focused : BOOLEAN]
    \cup [type : {"WorkspaceActiveWindowChanged"}, id : Workspaces,
          window : Windows \cup {None}]

\* What exists, as an engine has it; what exists after an event, what does not,
\* and what must exist for its reducer to accept it.
Element(kind, ids) == {<<kind, id>> : id \in ids}
Has(e) == Element("window", DOMAIN e.windows)
          \cup Element("workspace", DOMAIN e.workspaces)

Gives(ev) ==
    CASE ev.type = "WindowsChanged" -> Element("window", DOMAIN ev.list)
      [] ev.type = "WindowOpenedOrChanged" -> Element("window", {ev.id})
      [] ev.type = "WorkspacesChanged" -> Element("workspace", DOMAIN ev.list)
      [] OTHER -> {}

Takes(ev) ==
    CASE ev.type = "WindowsChanged" -> Element("window", Windows \ DOMAIN ev.list)
      [] ev.type = "WindowClosed" -> Element("window", {ev.id})
      [] ev.type = "WorkspacesChanged" ->
           Element("workspace", Workspaces \ DOMAIN ev.list)
      [] OTHER -> {}

Needs(ev) ==
    CASE ev.type = "WindowAttribute" -> Element("window", {ev.id})
      [] ev.type \in {"WorkspaceActivated", "WorkspaceActiveWindowChanged"} ->
           Element("workspace", {ev.id})
      [] OTHER -> {}

\* What a reducer makes of engine e when event ev is reduced.
Reductions == [engine : EngineState, domains : SUBSET Domains, desync : BOOLEAN]

Kept(e, ev, r) ==
    /\ r \in Reductions
    /\ r.engine.health = e.health /\ r.engine.desynced = e.desynced
    /\ Needs(ev) \subseteq Has(e) =>
         /\ ~r.desync
         /\ (Has(e) \ Takes(ev)) \cup Gives(ev) \subseteq Has(r.engine)

(* An element is in Has if its id is in the dictionary of its kind. *)
LEMMA HasElement ==
    ASSUME NEW e, NEW id
    PROVE  /\ <<"window", id>> \in Has(e) <=> id \in DOMAIN e.windows
           /\ <<"workspace", id>> \in Has(e) <=> id \in DOMAIN e.workspaces
BY DEF Has, Element

(* An engine whose field is replaced by itself is the same. *)
LEMMA SameFields ==
    ASSUME NEW e \in EngineState
    PROVE  /\ \A x : [e EXCEPT !.windows = x]
                       = [[e EXCEPT !.windows = x]
                            EXCEPT !.focused_window_id = e.focused_window_id]
           /\ \A x : [e EXCEPT !.focused_window_id = x]
                       = [[e EXCEPT !.windows = e.windows] EXCEPT !.focused_window_id = x]
           /\ \A x : [e EXCEPT !.workspaces = x]
                       = [e EXCEPT !.workspaces = x,
                                   !.focused_workspace_id = e.focused_workspace_id]
BY DEF EngineState

(* The two full lists. *)
LEMMA ListsKept ==
    ASSUME NEW e \in EngineState, NEW ev \in Event,
           ev.type \in {"WindowsChanged", "WorkspacesChanged"}
    PROVE  Kept(e, ev, Reduce(e, ev))
<1> DEFINE r == Reduce(e, ev)
<1>1. CASE ev.type = "WindowsChanged"
  <2> DEFINE d == [e EXCEPT !.windows = ev.list]
  <2>1. ev.list \in Dict(Windows, Window)
    BY <1>1 DEF Event
  <2>2. e.focused_window_id \in Windows \cup {None}
    BY DEF EngineState
  <2>3. d = [[e EXCEPT !.windows = ev.list] EXCEPT !.focused_window_id = e.focused_window_id]
    BY SameFields
  <2>4. /\ d \in EngineState
        /\ d.health = e.health /\ d.desynced = e.desynced
        /\ d.windows = ev.list /\ d.workspaces = e.workspaces
    BY <2>1, <2>2, <2>3 DEF EngineState
  <2>5. r = Applied(d, {"windows", "focus"})
    BY <1>1 DEF Reduce, ReduceWindowsChanged
  <2> HIDE DEF d
  <2>6. /\ Gives(ev) = Element("window", DOMAIN ev.list)
        /\ Takes(ev) = Element("window", Windows \ DOMAIN ev.list)
    BY <1>1 DEF Gives, Takes
  <2>7. DOMAIN e.windows \subseteq Windows
    BY WindowOf
  <2>8. (Has(e) \ Takes(ev)) \cup Gives(ev) \subseteq Has(d)
    BY <2>4, <2>6, <2>7 DEF Has, Element
  <2> QED
    BY <2>4, <2>5, <2>8 DEF Kept, Reductions, Applied, Domains
<1>2. CASE ev.type = "WorkspacesChanged"
  <2> DEFINE d == [e EXCEPT !.workspaces = ev.list]
  <2>1. ev.list \in Dict(Workspaces, Workspace)
    BY <1>2 DEF Event
  <2>2. e.focused_workspace_id \in Workspaces \cup {None}
    BY DEF EngineState
  <2>3. d = [e EXCEPT !.workspaces = ev.list,
                      !.focused_workspace_id = e.focused_workspace_id]
    BY SameFields
  <2>4. /\ d \in EngineState
        /\ d.health = e.health /\ d.desynced = e.desynced
        /\ d.windows = e.windows /\ d.workspaces = ev.list
    BY <2>1, <2>2, <2>3 DEF EngineState
  <2>5. r = Applied(d, {"workspaces", "focus"})
    BY <1>2 DEF Reduce, ReduceWorkspacesChanged
  <2> HIDE DEF d
  <2>6. /\ Gives(ev) = Element("workspace", DOMAIN ev.list)
        /\ Takes(ev) = Element("workspace", Workspaces \ DOMAIN ev.list)
    BY <1>2 DEF Gives, Takes
  <2>7. DOMAIN e.workspaces \subseteq Workspaces
    BY WorkspaceOf
  <2>8. (Has(e) \ Takes(ev)) \cup Gives(ev) \subseteq Has(d)
    BY <2>4, <2>6, <2>7 DEF Has, Element
  <2> QED
    BY <2>4, <2>5, <2>8 DEF Kept, Reductions, Applied, Domains
<1> QED
  BY <1>1, <1>2

(* A window appears or is replaced, goes, or takes the focus. *)
LEMMA WindowEventsKept ==
    ASSUME NEW e \in EngineState, NEW ev \in Event,
           ev.type \in {"WindowOpenedOrChanged", "WindowClosed", "WindowFocusChanged"}
    PROVE  Kept(e, ev, Reduce(e, ev))
<1> DEFINE r == Reduce(e, ev)
<1>0. /\ e.windows \in Dict(Windows, Window)
      /\ e.focused_window_id \in Windows \cup {None}
  BY DEF EngineState
<1>1. CASE ev.type = "WindowOpenedOrChanged"
  <2> DEFINE ws == Put(e.windows, ev.id, ev.window)
             f == IF ev.focused THEN ev.id ELSE e.focused_window_id
             d == [[e EXCEPT !.windows = ws] EXCEPT !.focused_window_id = f]
  <2>1. ev.id \in Windows /\ ev.window \in Window /\ ev.focused \in BOOLEAN
    BY <1>1 DEF Event
  <2>2. ws \in Dict(Windows, Window) /\ DOMAIN ws = DOMAIN e.windows \cup {ev.id}
    BY <1>0, <2>1, PutWindow
  <2>3. f \in Windows \cup {None}
    BY <1>0, <2>1
  <2> HIDE DEF ws
  <2>4. r = Applied(d, IF ev.focused THEN {"windows", "focus"} ELSE {"windows"})
    <3>1. r = ReduceWindowOpenedOrChanged(e, ev.id, ev.window, ev.focused)
      BY <1>1 DEF Reduce
    <3>2. CASE ev.focused
      BY <3>1, <3>2 DEF ReduceWindowOpenedOrChanged, ws
    <3>3. CASE ~ev.focused
      <4>1. r = Applied([e EXCEPT !.windows = ws], {"windows"})
        BY <3>1, <3>3 DEF ReduceWindowOpenedOrChanged, ws
      <4> QED
        BY <3>3, <4>1, SameFields
    <3> QED
      BY <3>2, <3>3
  <2> HIDE DEF f
  <2>5. /\ d \in EngineState
        /\ d.health = e.health /\ d.desynced = e.desynced
        /\ d.windows = ws /\ d.workspaces = e.workspaces
    BY <2>2, <2>3 DEF EngineState
  <2> HIDE DEF d
  <2>6. Gives(ev) = Element("window", {ev.id})
    BY <1>1 DEF Gives
  <2>7. (Has(e) \ Takes(ev)) \cup Gives(ev) \subseteq Has(d)
    BY <2>2, <2>5, <2>6 DEF Has, Element
  <2> QED
    BY <2>4, <2>5, <2>7 DEF Kept, Reductions, Applied, Domains
<1>2. CASE ev.type = "WindowClosed"
  <2> DEFINE ws == Drop(e.windows, ev.id)
             f == IF e.focused_window_id = ev.id THEN None ELSE e.focused_window_id
             d == [[e EXCEPT !.windows = ws] EXCEPT !.focused_window_id = f]
  <2>1. ev.id \in Windows
    BY <1>2 DEF Event
  <2>2. ws \in Dict(Windows, Window) /\ DOMAIN ws = DOMAIN e.windows \ {ev.id}
    BY <1>0, DropWindow
  <2>3. f \in Windows \cup {None}
    BY <1>0
  <2> HIDE DEF ws
  <2>4. r = Applied(d, IF e.focused_window_id = ev.id THEN {"windows", "focus"}
                       ELSE {"windows"})
    <3>1. r = ReduceWindowClosed(e, ev.id)
      BY <1>2 DEF Reduce
    <3>2. CASE e.focused_window_id = ev.id
      BY <3>1, <3>2 DEF ReduceWindowClosed, ws
    <3>3. CASE e.focused_window_id # ev.id
      <4>1. r = Applied([e EXCEPT !.windows = ws], {"windows"})
        BY <3>1, <3>3 DEF ReduceWindowClosed, ws
      <4> QED
        BY <3>3, <4>1, SameFields
    <3> QED
      BY <3>2, <3>3
  <2> HIDE DEF f
  <2>5. /\ d \in EngineState
        /\ d.health = e.health /\ d.desynced = e.desynced
        /\ d.windows = ws /\ d.workspaces = e.workspaces
    BY <2>2, <2>3 DEF EngineState
  <2> HIDE DEF d
  <2>6. Takes(ev) = Element("window", {ev.id}) /\ Gives(ev) = {}
    BY <1>2 DEF Takes, Gives
  <2>7. (Has(e) \ Takes(ev)) \cup Gives(ev) \subseteq Has(d)
    BY <2>2, <2>5, <2>6 DEF Has, Element
  <2> QED
    BY <2>4, <2>5, <2>7 DEF Kept, Reductions, Applied, Domains
<1>3. CASE ev.type = "WindowFocusChanged"
  <2> DEFINE d == [e EXCEPT !.focused_window_id = ev.id]
  <2>1. ev.id \in Windows \cup {None}
    BY <1>3 DEF Event
  <2>2. d = [[e EXCEPT !.windows = e.windows] EXCEPT !.focused_window_id = ev.id]
    BY SameFields
  <2>3. /\ d \in EngineState
        /\ d.health = e.health /\ d.desynced = e.desynced
        /\ d.windows = e.windows /\ d.workspaces = e.workspaces
    BY <1>0, <2>1, <2>2 DEF EngineState
  <2>4. r = Applied(d, {"focus"})
    BY <1>3 DEF Reduce, ReduceWindowFocusChanged
  <2> HIDE DEF d
  <2>5. Gives(ev) = {}
    BY <1>3 DEF Gives
  <2>6. (Has(e) \ Takes(ev)) \cup Gives(ev) \subseteq Has(d)
    BY <2>3, <2>5 DEF Has
  <2> QED
    BY <2>3, <2>4, <2>6 DEF Kept, Reductions, Applied, Domains
<1> QED
  BY <1>1, <1>2, <1>3

(* Nothing changes: the event is about something else than ids. *)
LEMMA NothingKept ==
    ASSUME NEW e \in EngineState, NEW ev, Gives(ev) = {},
           NEW domains \in SUBSET Domains
    PROVE  Kept(e, ev, Applied(e, domains))
BY DEF Kept, Reductions, Applied

(* Nothing changes: the event is not accepted. *)
LEMMA RaisedKept ==
    ASSUME NEW e \in EngineState, NEW ev, ~(Needs(ev) \subseteq Has(e))
    PROVE  Kept(e, ev, Raised(e))
BY DEF Kept, Reductions, Raised

(* The events that must be about something there is. *)
LEMMA NeedyEventsKept ==
    ASSUME NEW e \in EngineState, NEW ev \in Event,
           ev.type \in {"WindowAttribute", "WorkspaceActivated",
                        "WorkspaceActiveWindowChanged"}
    PROVE  Kept(e, ev, Reduce(e, ev))
<1> DEFINE r == Reduce(e, ev)
<1>0. /\ Gives(ev) = {}
      /\ e.workspaces \in Dict(Workspaces, Workspace)
      /\ e.focused_workspace_id \in Workspaces \cup {None}
  BY DEF Gives, EngineState
<1>1. CASE ev.type = "WindowAttribute"
  <2>1. r = IF ev.id \in DOMAIN e.windows THEN Applied(e, {"windows"}) ELSE Raised(e)
    BY <1>1 DEF Reduce, ReduceWindowAttribute
  <2>2. ev.id \notin DOMAIN e.windows => ~(Needs(ev) \subseteq Has(e))
    <3>1. Needs(ev) = Element("window", {ev.id})
      BY <1>1 DEF Needs
    <3>2. <<"window", ev.id>> \in Needs(ev)
      BY <3>1 DEF Element
    <3> QED
      BY <3>2, HasElement
  <2>3. Kept(e, ev, Applied(e, {"windows"}))
    <3>1. {"windows"} \in SUBSET Domains
      BY DEF Domains
    <3> QED
      BY <1>0, <3>1, NothingKept, Zenon
  <2>4. ~(Needs(ev) \subseteq Has(e)) => Kept(e, ev, Raised(e))
    BY RaisedKept, Zenon
  <2> QED
    BY <2>1, <2>2, <2>3, <2>4
<1>2. CASE ev.type \in {"WorkspaceActivated", "WorkspaceActiveWindowChanged"}
           /\ ev.id \notin DOMAIN e.workspaces
  <2>1. r = Raised(e)
    BY <1>2 DEF Reduce, ReduceWorkspaceActivated, ReduceWorkspaceActiveWindowChanged
  <2>2. ~(Needs(ev) \subseteq Has(e))
    <3>1. Needs(ev) = Element("workspace", {ev.id})
      BY <1>2 DEF Needs
    <3>2. <<"workspace", ev.id>> \in Needs(ev)
      BY <3>1 DEF Element
    <3> QED
      BY <1>2, <3>2, HasElement
  <2> QED
    BY <2>1, <2>2, RaisedKept, Zenon
<1>3. CASE ev.type = "WorkspaceActivated" /\ ev.id \in DOMAIN e.workspaces
  <2> DEFINE list ==
               [w \in DOMAIN e.workspaces |->
                 IF w = ev.id
                 THEN [e.workspaces[w] EXCEPT !.is_active = TRUE,
                                              !.is_focused = ev.focused]
                 ELSE IF e.workspaces[w].output = e.workspaces[ev.id].output
                 THEN [e.workspaces[w] EXCEPT !.is_active = FALSE, !.is_focused = FALSE]
                 ELSE e.workspaces[w]]
             d == [e EXCEPT !.workspaces = list,
                            !.focused_workspace_id = IF ev.focused THEN ev.id ELSE @]
  <2>0. ev.id \in Workspaces /\ ev.focused \in BOOLEAN
    BY <1>3 DEF Event
  <2>1. list \in Dict(Workspaces, Workspace)
    <3>1. ASSUME NEW w \in DOMAIN e.workspaces
          PROVE  w \in Workspaces /\ list[w] \in Workspace
      <4>1. w \in Workspaces /\ e.workspaces[w] \in Workspace
        BY WorkspaceOf
      <4>2. /\ [e.workspaces[w] EXCEPT !.is_active = TRUE, !.is_focused = ev.focused]
                 \in Workspace
            /\ [e.workspaces[w] EXCEPT !.is_active = FALSE, !.is_focused = FALSE]
                 \in Workspace
        BY <2>0, <4>1 DEF Workspace
      <4> QED
        BY <4>1, <4>2
    <3>2. /\ list \in [DOMAIN e.workspaces -> Workspace]
          /\ DOMAIN e.workspaces \subseteq Workspaces
      BY <3>1
    <3> QED
      BY <3>2, DictElement
  <2>2. DOMAIN list = DOMAIN e.workspaces
    OBVIOUS
  <2>3. r = Applied(d, {"workspaces", "focus"})
    BY <1>3 DEF Reduce, ReduceWorkspaceActivated
  <2> HIDE DEF list
  <2>4. (IF ev.focused THEN ev.id ELSE e.focused_workspace_id) \in Workspaces \cup {None}
    BY <1>0, <2>0
  <2>5. /\ d \in EngineState
        /\ d.health = e.health /\ d.desynced = e.desynced
        /\ d.windows = e.windows /\ d.workspaces = list
    BY <2>1, <2>4 DEF EngineState
  <2> HIDE DEF d
  <2>6. Has(d) = Has(e)
    BY <2>2, <2>5 DEF Has
  <2> QED
    BY <1>0, <2>3, <2>5, <2>6 DEF Kept, Reductions, Applied, Domains
<1>4. CASE ev.type = "WorkspaceActiveWindowChanged" /\ ev.id \in DOMAIN e.workspaces
  <2> DEFINE v == [e.workspaces[ev.id] EXCEPT !.active_window_id = ev.window]
             list == [e.workspaces EXCEPT ![ev.id] = v]
             d == [e EXCEPT !.workspaces = list]
  <2>1. ev.id \in Workspaces /\ ev.window \in Windows \cup {None}
    BY <1>4 DEF Event
  <2>2. e.workspaces[ev.id] \in Workspace
    BY <1>4, WorkspaceOf
  <2>3. v \in Workspace
    BY <2>1, <2>2 DEF Workspace
  <2>4. r = Applied(d, {"workspaces", "focus"})
    <3>1. r = ReduceWorkspaceActiveWindowChanged(e, ev.id, ev.window)
      BY <1>4 DEF Reduce
    <3> QED
      BY <1>4, <3>1, Zenon DEF ReduceWorkspaceActiveWindowChanged
  <2> HIDE DEF v
  <2>5. /\ list \in [DOMAIN e.workspaces -> Workspace]
        /\ DOMAIN e.workspaces \subseteq Workspaces
    BY <1>0, <2>3, DictElement
  <2>6. list \in Dict(Workspaces, Workspace) /\ DOMAIN list = DOMAIN e.workspaces
    BY <2>5, DictElement
  <2> HIDE DEF list
  <2>7. /\ d \in EngineState
        /\ d.health = e.health /\ d.desynced = e.desynced
        /\ d.windows = e.windows /\ d.workspaces = list
    BY <2>6 DEF EngineState
  <2> HIDE DEF d
  <2>8. Has(d) = Has(e)
    BY <2>6, <2>7 DEF Has
  <2> QED
    BY <1>0, <2>4, <2>7, <2>8 DEF Kept, Reductions, Applied, Domains
<1> QED
  BY <1>1, <1>2, <1>3, <1>4

(* Every event that the compositor sends. *)
LEMMA EventsKept ==
    ASSUME NEW e \in EngineState, NEW ev \in Event
    PROVE  Kept(e, ev, Reduce(e, ev))
<1>1. ev.type \in {"WindowsChanged", "WorkspacesChanged", "WindowOpenedOrChanged",
                   "WindowClosed", "WindowFocusChanged", "WindowAttribute",
                   "WorkspaceActivated", "WorkspaceActiveWindowChanged"}
  BY DEF Event
<1> QED
  BY <1>1, ListsKept, WindowEventsKept, NeedyEventsKept

-------------------------------------------------------------------------------
(* The replay *)

\* What a replay is while it goes on: an engine that is repaired, or would be but
\* for an event that was not accepted, and not published yet.
Replays ==
    {r \in Reductions :
        /\ Repaired(r.engine)
        /\ r.engine.health = "bootstrapping" /\ ~r.engine.desynced}

(* One event of a replay: what is needed is there, what exists is kept. *)
LEMMA ReplayStep ==
    ASSUME NEW r \in Replays, NEW ev \in Event
    PROVE  /\ Replay(r, ev) \in Replays
           /\ ~r.desync /\ Needs(ev) \subseteq Has(r.engine) =>
                /\ ~Replay(r, ev).desync
                /\ (Has(r.engine) \ Takes(ev)) \cup Gives(ev)
                     \subseteq Has(Replay(r, ev).engine)
<1>1. CASE r.desync
  BY <1>1 DEF Replay
<1>2. CASE ~r.desync
  <2> DEFINE d == Reduce(r.engine, ev)
             c == Reconcile(d.engine)
             s == [d EXCEPT !.engine = c]
  <2>1. r.engine \in EngineState /\ r.engine.health = "bootstrapping" /\ ~r.engine.desynced
    BY DEF Replays, Reductions
  <2>2. Kept(r.engine, ev, d)
    BY <2>1, EventsKept
  <2>3. d \in Reductions
    BY <2>2 DEF Kept
  <2>4. Replay(r, ev) = s
    BY <1>2 DEF Replay
  <2> HIDE DEF d
  <2>5. /\ Repaired(c) /\ c.health = d.engine.health
        /\ c.desynced = (d.engine.desynced /\ d.engine.health # "live")
        /\ c.windows = d.engine.windows
        /\ c.workspaces = Related(d.engine)
    BY <2>3, Reconciled, ReconcileTwice DEF Reductions, Repaired
  <2>6. Has(c) = Has(d.engine)
    BY <2>5 DEF Has, Related
  <2> HIDE DEF c
  <2>7. s.engine = c /\ s.domains = d.domains /\ s.desync = d.desync
    BY <2>3 DEF Reductions
  <2>8. s \in Replays
    BY <2>1, <2>2, <2>3, <2>5, <2>7 DEF Kept, Replays, Reductions, Repaired
  <2> QED
    BY <2>2, <2>4, <2>6, <2>7, <2>8 DEF Kept
<1> QED
  BY <1>1, <1>2

(* The engine that is built from the answers. *)
LEMMA BuiltReplays ==
    ASSUME NEW windows \in Dict(Windows, Window),
           NEW workspaces \in Dict(Workspaces, Workspace),
           NEW focused \in Windows \cup {None}, NEW workspace \in Workspaces \cup {None},
           engine = EmptyEngine
    PROVE  Applied(BuildInitial(windows, workspaces, focused, workspace,
                                engine.keyboard, engine.overview), {}) \in Replays
<1> DEFINE f == IF focused = None THEN None ELSE workspace
           k == [names |-> 0, current_idx |-> 0]
           a == [outputs |-> KnownOutputs, workspaces |-> workspaces,
                 windows |-> windows, focused_window_id |-> focused,
                 focused_workspace_id |-> f,
                 keyboard |-> k, overview |-> FALSE,
                 health |-> "bootstrapping", desynced |-> FALSE]
           b == Reconcile(a)
<1>1. f \in Workspaces \cup {None} /\ k \in [names : Nat, current_idx : Nat]
  OBVIOUS
<1>2. engine.keyboard = k /\ engine.overview = FALSE
  BY DEF EmptyEngine
<1>3. b = BuildInitial(windows, workspaces, focused, workspace,
                       engine.keyboard, engine.overview)
  BY <1>2 DEF BuildInitial
<1> HIDE DEF f, k
<1>4. a \in EngineState /\ a.health = "bootstrapping" /\ ~a.desynced
  BY <1>1, EngineAssumption DEF EngineState
<1> HIDE DEF a
<1>5. Repaired(b) /\ b.health = "bootstrapping" /\ ~b.desynced
  BY <1>4, Reconciled, ReconcileTwice DEF Repaired
<1> HIDE DEF b
<1> QED
  BY <1>3, <1>5 DEF Applied, Replays, Reductions, Repaired

(* A replay that ended without an error leaves an engine to publish. *)
LEMMA ReplayPublishes ==
    ASSUME NEW r \in Replays
    PROVE  Publishable(Bootstrapped(r.engine))
<1> DEFINE b == r.engine
           c == [b EXCEPT !.health = "live"]
<1>1. Repaired(b) /\ b.health = "bootstrapping" /\ ~b.desynced
  BY DEF Replays
<1> HIDE DEF b
<1>2. Bootstrapped(b) = Checked(c)
  BY <1>1 DEF Bootstrapped
<1>3. Repaired(c) /\ c.health = "live"
  BY <1>1, RepairedHealth DEF Repaired, EngineState
<1> HIDE DEF c
<1>4. Publishable(Checked(c))
  BY <1>3, CheckedPublishable
<1> QED
  BY <1>2, <1>4 DEF b

(* The mutation loop publishes after every event. *)
LEMMA HandlePublishes ==
    ASSUME EngineInv, NEW ev \in Event, Handle(Reduce(engine, ev))
    PROVE  EngineInv'
<1> DEFINE r == Reduce(engine, ev)
           e == r.engine
<1>1. engine \in EngineState /\ engine.health \in {"live", "stale"}
  BY DEF EngineInv, Publishable, Repaired
<1>2. Kept(engine, ev, r)
  BY <1>1, EventsKept
<1>3. Handle(r)
  OBVIOUS
<1> HIDE DEF r
<1>4. /\ e \in EngineState /\ e.health \in {"live", "stale"}
      /\ r.domains \subseteq Domains /\ r.desync \in BOOLEAN
  BY <1>1, <1>2 DEF Kept, Reductions
<1>5. CASE ~r.desync
  <2> DEFINE d == Reconcile(e)
  <2>1. Repaired(d) /\ d.health \in {"live", "stale"}
    BY <1>4, Reconciled, ReconcileTwice DEF Repaired
  <2>2. /\ engine' = Checked(d)
        /\ changes'.cause = "event"
        /\ changes'.domains \subseteq r.domains \cup {"health", "diagnostics"}
    BY <1>3, <1>5 DEF Handle, Apply
  <2> HIDE DEF d
  <2>3. Publishable(engine')
    BY <2>1, <2>2, CheckedPublishable
  <2> QED
    BY <1>4, <2>2, <2>3 DEF EngineInv, Domains
<1>6. CASE r.desync
  <2> DEFINE c == [e EXCEPT !.health = "stale", !.desynced = TRUE]
             d == Reconcile(c)
  <2>1. c \in EngineState /\ c.health = "stale"
    BY <1>4 DEF EngineState
  <2>2. /\ engine' = d
        /\ changes' = [cause |-> "health", domains |-> {"health", "diagnostics"}]
    BY <1>3, <1>6 DEF Handle, Desync
  <2> HIDE DEF c
  <2>3. Repaired(d) /\ d.health = "stale"
    BY <2>1, Reconciled, ReconcileTwice DEF Repaired
  <2> HIDE DEF d
  <2>4. Publishable(engine')
    BY <2>2, <2>3 DEF Publishable
  <2> QED
    BY <2>2, <2>4 DEF EngineInv, Domains
<1> QED
  BY <1>4, <1>5, <1>6

-------------------------------------------------------------------------------
(* The compositor *)

(* A set listed in some order. *)
LEMMA Listed ==
    ASSUME NEW S, IsFiniteSet(S)
    PROVE  /\ SetToSeq(S) \in Seq(S)
           /\ \A x \in S : \E i \in 1..Len(SetToSeq(S)) : SetToSeq(S)[i] = x
<1> DEFINE n == Cardinality(S)
           q == SetToSeq(S)
<1>1. n \in Nat
  BY FS_CardinalityType
<1>2. \E f \in [1..n -> S] : IsInjective(f)
  <2>1. ExistsBijection(1..n, S)
    BY FS_CardinalityType
  <2>2. PICK f \in Bijection(1..n, S) : TRUE
    BY <2>1 DEF ExistsBijection
  <2> QED
    BY <2>2 DEF Bijection, Injection, IsInjective
<1>3. q \in [1..n -> S] /\ IsInjective(q)
  BY <1>2 DEF SetToSeq
<1> HIDE DEF q
<1>4. q \in Seq(S) /\ Len(q) = n
  BY <1>1, <1>3
<1>5. ASSUME NEW x \in S PROVE \E i \in 1..n : q[i] = x
  <2>1. q \in Injection(1..n, S)
    BY <1>3 DEF Injection, IsInjective
  <2>2. IsFiniteSet(1..n) /\ Cardinality(1..n) = n
    BY <1>1, FS_Interval
  <2>3. q \in Surjection(1..n, S)
    BY <2>1, <2>2, FS_Injection
  <2> QED
    BY <2>3 DEF Surjection
<1> QED
  BY <1>4, <1>5 DEF q

(* A function maps a finite set to a finite one. *)
LEMMA FiniteImage ==
    ASSUME NEW S, IsFiniteSet(S), NEW g, DOMAIN g = S
    PROVE  IsFiniteSet({g[x] : x \in S})
<1> DEFINE T == {g[x] : x \in S}
           h == [x \in S |-> g[x]]
<1>1. h \in Surjection(S, T)
  BY DEF Surjection
<1> QED
  BY <1>1, FS_Surjection

\* A world is its fields, of these types.
WorldFields ==
    [where : Dict(Windows, Workspaces),
     active : Dict(Workspaces, Windows \cup {None}),
     output : Dict(Workspaces, Outputs),
     shown : SUBSET Workspaces, focused : Workspaces]

(* What makes five fields a world. *)
LEMMA WorldIs ==
    ASSUME NEW w \in WorldFields,
           DOMAIN w.output = DOMAIN w.active,
           OneShown(w),
           \A id \in DOMAIN w.where : w.where[id] \in DOMAIN w.active,
           \A ws \in DOMAIN w.active :
             \/ w.active[ws] \in On(w, ws)
             \/ w.active[ws] = None /\ On(w, ws) = {}
    PROVE  w \in Worlds
BY DEF Worlds, WorldFields

(* The parts of a world. *)
LEMMA WorldOf ==
    ASSUME NEW w \in Worlds
    PROVE  /\ w \in WorldFields
           /\ w.where \in Dict(Windows, Workspaces)
           /\ w.active \in Dict(Workspaces, Windows \cup {None})
           /\ w.output \in Dict(Workspaces, Outputs)
           /\ DOMAIN w.where \subseteq Windows /\ DOMAIN w.active \subseteq Workspaces
           /\ DOMAIN w.output = DOMAIN w.active
           /\ w.shown \subseteq DOMAIN w.active
           /\ OneShown(w)
           /\ w.focused \in DOMAIN w.active
           /\ \A id \in DOMAIN w.where : w.where[id] \in DOMAIN w.active
           /\ \A ws \in DOMAIN w.active :
                /\ w.output[ws] \in Outputs
                /\ w.active[ws] \in Windows \cup {None}
                /\ \/ w.active[ws] \in On(w, ws)
                   \/ w.active[ws] = None /\ On(w, ws) = {}
<1>1. /\ w \in WorldFields
      /\ DOMAIN w.output = DOMAIN w.active
      /\ OneShown(w)
      /\ \A id \in DOMAIN w.where : w.where[id] \in DOMAIN w.active
      /\ \A ws \in DOMAIN w.active :
           \/ w.active[ws] \in On(w, ws)
           \/ w.active[ws] = None /\ On(w, ws) = {}
  BY DEF Worlds, WorldFields
<1>2. /\ w.where \in Dict(Windows, Workspaces)
      /\ w.active \in Dict(Workspaces, Windows \cup {None})
      /\ w.output \in Dict(Workspaces, Outputs)
  BY <1>1 DEF WorldFields
<1>3. DOMAIN w.where \subseteq Windows /\ DOMAIN w.active \subseteq Workspaces
  BY <1>2, DictElement
<1>4. \A ws \in DOMAIN w.active : w.active[ws] \in Windows \cup {None}
  BY <1>2, DictElement
<1>5. \A ws \in DOMAIN w.active : w.output[ws] \in Outputs
  BY <1>1, <1>2, DictElement
<1>6. w.shown \subseteq DOMAIN w.active /\ w.focused \in DOMAIN w.active
  BY <1>1 DEF OneShown
<1> QED
  BY <1>1, <1>2, <1>3, <1>4, <1>5, <1>6

\* Once a workspace is shown on its output, one is shown on each.
LEMMA ShowingOne ==
    ASSUME NEW w \in Worlds, NEW ws \in DOMAIN w.active, NEW v,
           v.output = w.output, v.shown = Showing(w, ws), v.focused \in v.shown
    PROVE  OneShown(v) /\ v.shown \subseteq Workspaces
<1>1. /\ w.shown \subseteq DOMAIN w.output /\ ws \in DOMAIN w.output
      /\ DOMAIN w.output \subseteq Workspaces
      /\ \A x \in DOMAIN w.output : \E s \in w.shown : w.output[s] = w.output[x]
      /\ \A s, t \in w.shown : w.output[s] = w.output[t] => s = t
  BY WorldOf DEF OneShown
<1>2. \A s : s \in v.shown <=> (s \in w.shown /\ w.output[s] # w.output[ws]) \/ s = ws
  BY DEF Showing
<1>3. v.shown \subseteq DOMAIN v.output
  BY <1>1, <1>2
<1>4. ASSUME NEW x \in DOMAIN v.output
      PROVE  \E s \in v.shown : v.output[s] = v.output[x]
  <2>1. CASE v.output[x] = v.output[ws]
    BY <1>2, <2>1
  <2>2. CASE v.output[x] # v.output[ws]
    <3>1. PICK s \in w.shown : w.output[s] = w.output[x]
      BY <1>1
    <3> QED
      BY <1>2, <2>2, <3>1
  <2> QED
    BY <2>1, <2>2
<1>5. \A s, t \in v.shown : v.output[s] = v.output[t] => s = t
  BY <1>1, <1>2
<1> QED
  BY <1>1, <1>3, <1>4, <1>5 DEF OneShown

\* What is active once a window has left.
LEMMA WithoutWindow ==
    ASSUME NEW w \in Worlds, NEW id \in DOMAIN w.where
    PROVE  LET a == Without(w, id, w.where[id])
           IN /\ a \in Dict(Workspaces, Windows \cup {None})
              /\ DOMAIN a = DOMAIN w.active
              /\ \A ws \in DOMAIN w.active :
                   \/ a[ws] \in On(w, ws) \ {id}
                   \/ a[ws] = None /\ On(w, ws) \ {id} = {}
<1> DEFINE here == w.where[id]
           left == On(w, here) \ {id}
           next == IF On(w, here) = {id} THEN None ELSE CHOOSE i \in left : TRUE
           a == Without(w, id, here)
<1>0. /\ here \in DOMAIN w.active /\ id \in On(w, here)
      /\ \A ws \in DOMAIN w.active \ {here} : id \notin On(w, ws)
      /\ \A ws : On(w, ws) \subseteq Windows
  BY WorldOf DEF On
<1>1. CASE w.active[here] # id
  <2>1. a = w.active
    BY <1>1 DEF Without
  <2> HIDE DEF a
  <2>2. ASSUME NEW ws \in DOMAIN w.active
        PROVE  \/ a[ws] \in On(w, ws) \ {id}
               \/ a[ws] = None /\ On(w, ws) \ {id} = {}
    <3>1. CASE ws = here
      BY <1>0, <1>1, <2>1, <3>1, WorldOf
    <3>2. CASE ws # here
      BY <1>0, <2>1, <3>2, WorldOf
    <3> QED
      BY <3>1, <3>2
  <2> QED
    BY <2>1, <2>2, WorldOf DEF a
<1>2. CASE w.active[here] = id
  <2>1. \/ next \in left
        \/ next = None /\ left = {}
    BY <1>0
  <2>2. a = [w.active EXCEPT ![here] = next]
    BY <1>2 DEF Without
  <2>3. next \in Windows \cup {None}
    BY <1>0, <2>1
  <2> HIDE DEF next, a
  <2>4. a \in Dict(Workspaces, Windows \cup {None}) /\ DOMAIN a = DOMAIN w.active
    BY <2>2, <2>3, WorldOf, DictElement
  <2>5. ASSUME NEW ws \in DOMAIN w.active
        PROVE  \/ a[ws] \in On(w, ws) \ {id}
               \/ a[ws] = None /\ On(w, ws) \ {id} = {}
    <3>1. CASE ws = here
      BY <1>0, <2>1, <2>2, <3>1
    <3>2. CASE ws # here
      <4>1. a[ws] = w.active[ws]
        BY <2>2, <3>2
      <4> QED
        BY <1>0, <3>2, <4>1, WorldOf
    <3> QED
      BY <3>1, <3>2
  <2> QED
    BY <2>4, <2>5 DEF a
<1> QED
  BY <1>1, <1>2

(* Every change leaves a world. *)
LEMMA WorldsLast ==
    ASSUME NEW w \in Worlds, DOMAIN w.where \subseteq opened, NEW v \in NextWorlds(w)
    PROVE  v \in Worlds
<1>0. /\ w \in WorldFields
      /\ w.where \in Dict(Windows, Workspaces)
      /\ w.active \in Dict(Workspaces, Windows \cup {None})
      /\ w.output \in Dict(Workspaces, Outputs)
      /\ DOMAIN w.where \subseteq Windows /\ DOMAIN w.active \subseteq Workspaces
      /\ DOMAIN w.output = DOMAIN w.active
      /\ w.shown \subseteq DOMAIN w.active
      /\ OneShown(w)
      /\ w.focused \in DOMAIN w.active
      /\ \A id \in DOMAIN w.where : w.where[id] \in DOMAIN w.active
      /\ \A ws \in DOMAIN w.active :
           /\ w.active[ws] \in Windows \cup {None}
           /\ \/ w.active[ws] \in On(w, ws)
              \/ w.active[ws] = None /\ On(w, ws) = {}
  BY WorldOf
<1>a. \A u : u.output = w.output /\ u.shown = w.shown /\ u.focused = w.focused
               => OneShown(u)
  BY <1>0 DEF OneShown
<1>b. \A ws \in DOMAIN w.active : ws \in Showing(w, ws)
  BY DEF Showing
<1>1. ASSUME NEW id \in Windows \ opened, v = Opens(w, id)
      PROVE  v \in Worlds
  <2> DEFINE where == Put(w.where, id, w.focused)
             active == [w.active EXCEPT ![w.focused] = id]
  <2>1. v = [[w EXCEPT !.where = where] EXCEPT !.active = active]
    BY <1>1, Zenon DEF Opens
  <2>2. /\ where \in Dict(Windows, Workspaces) /\ DOMAIN where = DOMAIN w.where \cup {id}
        /\ where[id] = w.focused /\ \A i \in DOMAIN w.where : where[i] = w.where[i]
    BY <1>0, <1>1, DictElement DEF Put
  <2>3. /\ active \in Dict(Workspaces, Windows \cup {None})
        /\ DOMAIN active = DOMAIN w.active
        /\ active[w.focused] = id
        /\ \A ws \in DOMAIN w.active \ {w.focused} : active[ws] = w.active[ws]
    BY <1>0, <1>1, DictElement
  <2> HIDE DEF where, active
  <2>4. /\ v \in WorldFields /\ v.where = where /\ v.active = active
        /\ v.focused = w.focused /\ v.output = w.output /\ v.shown = w.shown
    BY <1>0, <2>1, <2>2, <2>3 DEF WorldFields
  <2>5. \A ws \in DOMAIN w.active :
          On(v, ws) = IF ws = w.focused THEN On(w, ws) \cup {id} ELSE On(w, ws)
    BY <1>0, <1>1, <2>2, <2>4 DEF On
  <2> QED
    BY <1>0, <1>a, <2>2, <2>3, <2>4, <2>5, WorldIs
<1>2. ASSUME NEW id \in DOMAIN w.where, v = Closes(w, id)
      PROVE  v \in Worlds
  <2> DEFINE where == Drop(w.where, id)
             active == Without(w, id, w.where[id])
  <2>1. v = [w EXCEPT !.where = where, !.active = active]
    BY <1>2, Zenon DEF Closes
  <2>2. /\ where \in Dict(Windows, Workspaces) /\ DOMAIN where = DOMAIN w.where \ {id}
        /\ \A i \in DOMAIN where : where[i] = w.where[i]
    BY <1>0, DictElement DEF Drop, Restrict
  <2>3. /\ active \in Dict(Workspaces, Windows \cup {None})
        /\ DOMAIN active = DOMAIN w.active
        /\ \A ws \in DOMAIN w.active :
             \/ active[ws] \in On(w, ws) \ {id}
             \/ active[ws] = None /\ On(w, ws) \ {id} = {}
    BY WithoutWindow
  <2> HIDE DEF where, active
  <2>4. /\ v \in WorldFields /\ v.where = where /\ v.active = active
        /\ v.focused = w.focused /\ v.output = w.output /\ v.shown = w.shown
    BY <1>0, <2>1, <2>2, <2>3 DEF WorldFields
  <2>5. \A ws : On(v, ws) = On(w, ws) \ {id}
    BY <2>2, <2>4 DEF On
  <2> QED
    BY <1>0, <1>a, <2>2, <2>3, <2>4, <2>5, WorldIs
<1>3. ASSUME NEW id \in DOMAIN w.where, v = Focuses(w, id)
      PROVE  v \in Worlds
  <2> DEFINE here == w.where[id]
             active == [w.active EXCEPT ![here] = id]
  <2>1. v = [w EXCEPT !.focused = here, !.shown = Showing(w, here),
                 !.active = active]
    BY <1>3, Zenon DEF Focuses
  <2>2. /\ active \in Dict(Workspaces, Windows \cup {None})
        /\ DOMAIN active = DOMAIN w.active
        /\ active[here] = id
        /\ \A ws \in DOMAIN w.active \ {here} : active[ws] = w.active[ws]
    BY <1>0, DictElement
  <2> HIDE DEF active
  <2>3. /\ v \in WorldFields /\ v.where = w.where /\ v.active = active
        /\ v.focused = here /\ v.output = w.output /\ v.shown = Showing(w, here)
    <3>1. Showing(w, here) \subseteq Workspaces
      BY <1>0 DEF Showing
    <3> QED
      BY <1>0, <2>1, <2>2, <3>1 DEF WorldFields
  <2>4. \A ws : On(v, ws) = On(w, ws)
    BY <2>3 DEF On
  <2>5. id \in On(w, here)
    BY DEF On
  <2>6. OneShown(v)
    BY <1>0, <1>b, <2>3, ShowingOne
  <2> QED
    BY <1>0, <2>2, <2>3, <2>4, <2>5, <2>6, WorldIs
<1>4. ASSUME NEW id \in DOMAIN w.where, NEW there \in DOMAIN w.active,
             v = Moves(w, id, there)
      PROVE  v \in Worlds
  <2> DEFINE where == [w.where EXCEPT ![id] = there]
             left == Without(w, id, w.where[id])
             active == [left EXCEPT ![there] = id]
  <2>1. v = [[w EXCEPT !.where = where] EXCEPT !.active = active]
    BY <1>4, Zenon DEF Moves
  <2>2. /\ where \in Dict(Windows, Workspaces) /\ DOMAIN where = DOMAIN w.where
        /\ where[id] = there /\ \A i \in DOMAIN where \ {id} : where[i] = w.where[i]
    BY <1>0, DictElement
  <2>3. /\ left \in Dict(Workspaces, Windows \cup {None})
        /\ DOMAIN left = DOMAIN w.active
        /\ \A ws \in DOMAIN w.active :
             \/ left[ws] \in On(w, ws) \ {id}
             \/ left[ws] = None /\ On(w, ws) \ {id} = {}
    BY WithoutWindow
  <2> HIDE DEF where, left
  <2>4. /\ active \in Dict(Workspaces, Windows \cup {None})
        /\ DOMAIN active = DOMAIN w.active
        /\ active[there] = id
        /\ \A ws \in DOMAIN w.active \ {there} : active[ws] = left[ws]
    BY <1>0, <2>3, DictElement
  <2> HIDE DEF active
  <2>5. /\ v \in WorldFields /\ v.where = where /\ v.active = active
        /\ v.focused = w.focused /\ v.output = w.output /\ v.shown = w.shown
    BY <1>0, <2>1, <2>2, <2>4 DEF WorldFields
  <2>6. \A ws \in DOMAIN w.active :
          On(v, ws) = IF ws = there THEN On(w, ws) \cup {id} ELSE On(w, ws) \ {id}
    BY <2>2, <2>5 DEF On
  <2>7. \A i \in DOMAIN v.where : v.where[i] \in DOMAIN v.active
    BY <1>0, <2>2, <2>4, <2>5
  <2>8. ASSUME NEW ws \in DOMAIN v.active
        PROVE  \/ v.active[ws] \in On(v, ws)
               \/ v.active[ws] = None /\ On(v, ws) = {}
    BY <2>3, <2>4, <2>5, <2>6
  <2> QED
    BY <1>0, <1>a, <2>4, <2>5, <2>7, <2>8, WorldIs
<1>5. ASSUME NEW ws \in DOMAIN w.active,
             \/ v = Switches(w, ws)
             \/ v = Reveals(w, ws) /\ w.output[ws] # w.output[w.focused]
      PROVE  v \in Worlds
  <2>1. Showing(w, ws) \subseteq Workspaces
    BY <1>0 DEF Showing
  <2>2. /\ v \in WorldFields /\ v.where = w.where /\ v.active = w.active
        /\ v.output = w.output /\ v.shown = Showing(w, ws)
        /\ \/ v.focused = ws
           \/ v.focused = w.focused /\ w.output[ws] # w.output[w.focused]
    BY <1>0, <1>5, <2>1 DEF Switches, Reveals, WorldFields
  <2>3. \A s : On(v, s) = On(w, s)
    BY <2>2 DEF On
  <2>4. v.focused \in Showing(w, ws)
    BY <1>0, <1>b, <2>2 DEF Showing, OneShown
  <2>5. OneShown(v)
    BY <2>2, <2>4, ShowingOne
  <2> QED
    BY <1>0, <2>2, <2>3, <2>5, WorldIs
<1>6. ASSUME NEW ws \in Workspaces \ DOMAIN w.active, NEW o \in Outputs, v = Adds(w, ws, o)
      PROVE  v \in Worlds
  <2> DEFINE active == Put(w.active, ws, None)
             output == Put(w.output, ws, o)
             shown == IF \E s \in w.shown : w.output[s] = o THEN w.shown
                      ELSE w.shown \cup {ws}
  <2>1. v = [w EXCEPT !.active = active, !.output = output, !.shown = shown]
    BY <1>6, Zenon DEF Adds
  <2>2. /\ active \in Dict(Workspaces, Windows \cup {None})
        /\ DOMAIN active = DOMAIN w.active \cup {ws}
        /\ active[ws] = None
        /\ \A s \in DOMAIN w.active : active[s] = w.active[s]
    BY <1>0, <1>6, DictElement DEF Put
  <2>3. /\ output \in Dict(Workspaces, Outputs)
        /\ DOMAIN output = DOMAIN w.active \cup {ws}
        /\ output[ws] = o
        /\ \A s \in DOMAIN w.active : output[s] = w.output[s]
    BY <1>0, <1>6, DictElement DEF Put
  <2>4. shown \subseteq Workspaces
    BY <1>0, <1>6
  <2>5. \A s : s \in shown <=>
                 s \in w.shown \/ (s = ws /\ \A x \in w.shown : w.output[x] # o)
    OBVIOUS
  <2> HIDE DEF active, output, shown
  <2>6. /\ v \in WorldFields /\ v.where = w.where /\ v.active = active
        /\ v.focused = w.focused /\ v.output = output /\ v.shown = shown
    BY <1>0, <2>1, <2>2, <2>3, <2>4 DEF WorldFields
  <2>7. \A s : On(v, s) = On(w, s)
    BY <2>6 DEF On
  <2>8. On(w, ws) = {}
    BY <1>0, <1>6 DEF On
  <2>9. OneShown(v)
    <3>1. v.focused \in shown /\ shown \subseteq DOMAIN output
      BY <1>0, <2>3, <2>5, <2>6 DEF OneShown
    <3>2. ASSUME NEW x \in DOMAIN output
          PROVE  \E s \in shown : output[s] = output[x]
      <4>1. CASE x = ws
        <5>1. CASE \E s \in w.shown : w.output[s] = o
          <6>1. PICK s \in w.shown : w.output[s] = o
            BY <5>1
          <6> QED
            BY <1>0, <2>3, <2>5, <4>1, <6>1
        <5>2. CASE \A s \in w.shown : w.output[s] # o
          BY <2>5, <4>1, <5>2
        <5> QED
          BY <5>1, <5>2
      <4>2. CASE x # ws
        <5>1. PICK s \in w.shown : w.output[s] = w.output[x]
          BY <1>0, <2>3, <4>2 DEF OneShown
        <5> QED
          BY <1>0, <2>3, <2>5, <4>2, <5>1
      <4> QED
        BY <4>1, <4>2
    <3>3. ASSUME NEW s \in shown, NEW t \in shown, output[s] = output[t]
          PROVE  s = t
      <4>1. CASE s \in w.shown /\ t \in w.shown
        BY <1>0, <2>3, <3>3, <4>1 DEF OneShown
      <4>2. CASE s \in w.shown /\ t \notin w.shown
        BY <1>0, <2>3, <2>5, <3>3, <4>2
      <4>3. CASE s \notin w.shown /\ t \in w.shown
        BY <1>0, <2>3, <2>5, <3>3, <4>3
      <4>4. CASE s \notin w.shown /\ t \notin w.shown
        BY <2>5, <4>4
      <4> QED
        BY <4>1, <4>2, <4>3, <4>4
    <3> QED
      BY <2>6, <3>1, <3>2, <3>3 DEF OneShown
  <2> QED
    BY <1>0, <2>2, <2>3, <2>6, <2>7, <2>8, <2>9, WorldIs
<1>7. ASSUME NEW ws \in DOMAIN w.active \ w.shown, On(w, ws) = {}, v = Removes(w, ws)
      PROVE  v \in Worlds
  <2> DEFINE active == Drop(w.active, ws)
             output == Drop(w.output, ws)
  <2>1. v = [w EXCEPT !.active = active, !.output = output]
    BY <1>7, Zenon DEF Removes
  <2>2. /\ active \in Dict(Workspaces, Windows \cup {None})
        /\ DOMAIN active = DOMAIN w.active \ {ws}
        /\ \A s \in DOMAIN active : active[s] = w.active[s]
    BY <1>0, DictElement DEF Drop, Restrict
  <2>3. /\ output \in Dict(Workspaces, Outputs)
        /\ DOMAIN output = DOMAIN w.active \ {ws}
        /\ \A s \in DOMAIN output : output[s] = w.output[s]
    BY <1>0, DictElement DEF Drop, Restrict
  <2> HIDE DEF active, output
  <2>4. /\ v \in WorldFields /\ v.where = w.where /\ v.active = active
        /\ v.focused = w.focused /\ v.output = output /\ v.shown = w.shown
    BY <1>0, <2>1, <2>2, <2>3 DEF WorldFields
  <2>5. \A s : On(v, s) = On(w, s)
    BY <2>4 DEF On
  <2>6. \A id \in DOMAIN w.where : w.where[id] # ws
    BY <1>7 DEF On
  <2>7. OneShown(v)
    BY <1>0, <1>7, <2>3, <2>4 DEF OneShown
  <2> QED
    BY <1>0, <2>2, <2>3, <2>4, <2>5, <2>6, <2>7, WorldIs
<1>8. ASSUME NEW ws \in DOMAIN w.active, NEW o \in Outputs, v \in Relocates(w, ws, o)
      PROVE  v \in Worlds
  <2> DEFINE output == [w.output EXCEPT ![ws] = o]
  <2>1. /\ \E s \in SUBSET DOMAIN w.active : v = [w EXCEPT !.output[ws] = o, !.shown = s]
        /\ OneShown(v)
    BY <1>8 DEF Relocates
  <2>2. PICK s \in SUBSET DOMAIN w.active : v = [w EXCEPT !.output = output, !.shown = s]
    BY <2>1
  <2>3. output \in Dict(Workspaces, Outputs) /\ DOMAIN output = DOMAIN w.active
    BY <1>0, DictElement
  <2> HIDE DEF output
  <2>4. /\ v \in WorldFields /\ v.where = w.where /\ v.active = w.active
        /\ v.output = output
    BY <1>0, <2>2, <2>3 DEF WorldFields
  <2>5. \A x : On(v, x) = On(w, x)
    BY <2>4 DEF On
  <2> QED
    BY <1>0, <2>1, <2>3, <2>4, <2>5, WorldIs
<1>9. \/ \E id \in Windows \ opened : v = Opens(w, id)
      \/ \E id \in DOMAIN w.where : v = Closes(w, id) \/ v = Focuses(w, id)
      \/ \E id \in DOMAIN w.where, ws \in DOMAIN w.active : v = Moves(w, id, ws)
      \/ \E ws \in DOMAIN w.active : v = Switches(w, ws)
      \/ \E ws \in DOMAIN w.active :
           v = Reveals(w, ws) /\ w.output[ws] # w.output[w.focused]
      \/ \E ws \in Workspaces \ DOMAIN w.active, o \in Outputs : v = Adds(w, ws, o)
      \/ \E ws \in DOMAIN w.active \ w.shown :
           On(w, ws) = {} /\ v = Removes(w, ws)
      \/ \E ws \in DOMAIN w.active, o \in Outputs : v \in Relocates(w, ws, o)
  BY DEF NextWorlds
<1> QED
  BY <1>1, <1>2, <1>3, <1>4, <1>5, <1>6, <1>7, <1>8, <1>9, Zenon

-------------------------------------------------------------------------------
(* What the compositor tells of a change *)

Ids(w) == Element("window", DOMAIN w.where) \cup Element("workspace", DOMAIN w.active)

\* Events sent when what exists goes from A to B: they are about what both have,
\* and take nothing of B away.
Tell(es, A, B) ==
    /\ es \in Seq(Event)
    /\ \A i \in 1..Len(es) : Needs(es[i]) \subseteq A \cap B /\ Takes(es[i]) \cap B = {}

Given(es, X) == \A x \in X : \E i \in 1..Len(es) : x \in Gives(es[i])

(* Events one after the other. *)
LEMMA TellBoth ==
    ASSUME NEW A, NEW B, NEW X, NEW Y, NEW s, NEW t,
           Tell(s, A, B), Tell(t, A, B), Given(s, X), Given(t, Y)
    PROVE  Tell(s \o t, A, B) /\ Given(s \o t, X \cup Y)
<1> DEFINE u == s \o t
<1>1. /\ s \in Seq(Event) /\ t \in Seq(Event)
      /\ Len(s) \in Nat /\ Len(t) \in Nat
  BY DEF Tell
<1>2. /\ u \in Seq(Event) /\ Len(u) = Len(s) + Len(t)
      /\ \A i \in 1..(Len(s) + Len(t)) :
           u[i] = IF i <= Len(s) THEN s[i] ELSE t[i - Len(s)]
  BY <1>1, ConcatProperties
<1> HIDE DEF u
<1>3. ASSUME NEW i \in 1..Len(u)
      PROVE  Needs(u[i]) \subseteq A \cap B /\ Takes(u[i]) \cap B = {}
  <2>1. CASE i <= Len(s)
    BY <1>1, <1>2, <2>1 DEF Tell
  <2>2. CASE ~(i <= Len(s))
    <3>1. i - Len(s) \in 1..Len(t) /\ u[i] = t[i - Len(s)]
      BY <1>1, <1>2, <2>2
    <3> QED
      BY <3>1 DEF Tell
  <2> QED
    BY <2>1, <2>2
<1>4. ASSUME NEW x \in X PROVE \E i \in 1..Len(u) : x \in Gives(u[i])
  <2>1. PICK i \in 1..Len(s) : x \in Gives(s[i])
    BY DEF Given
  <2>2. i \in 1..Len(u) /\ u[i] = s[i]
    BY <1>1, <1>2
  <2> QED
    BY <2>1, <2>2
<1>5. ASSUME NEW y \in Y PROVE \E i \in 1..Len(u) : y \in Gives(u[i])
  <2>1. PICK i \in 1..Len(t) : y \in Gives(t[i])
    BY DEF Given
  <2>2. i + Len(s) \in 1..Len(u) /\ u[i + Len(s)] = t[i]
    <3>1. /\ i + Len(s) \in 1..(Len(s) + Len(t)) /\ ~(i + Len(s) <= Len(s))
          /\ (i + Len(s)) - Len(s) = i
      BY <1>1
    <3> QED
      BY <1>2, <3>1
  <2> QED
    BY <2>1, <2>2
<1>6. Tell(u, A, B)
  BY <1>2, <1>3 DEF Tell
<1>7. Given(u, X \cup Y)
  BY <1>4, <1>5 DEF Given
<1> QED
  BY <1>6, <1>7 DEF u

(* A set of events, in any order. *)
LEMMA TellSet ==
    ASSUME NEW A, NEW B, NEW S, IsFiniteSet(S), S \subseteq Event,
           \A ev \in S : Needs(ev) \subseteq A \cap B /\ Takes(ev) \cap B = {}
    PROVE  /\ Tell(SetToSeq(S), A, B)
           /\ Given(SetToSeq(S), UNION {Gives(ev) : ev \in S})
<1> DEFINE q == SetToSeq(S)
<1>1. /\ q \in Seq(S)
      /\ \A x \in S : \E i \in 1..Len(q) : q[i] = x
  BY Listed
<1> HIDE DEF q
<1>2. \A i \in 1..Len(q) : q[i] \in S
  BY <1>1
<1>3. q \in Seq(Event)
  BY <1>1, SeqMonotonic
<1>4. Tell(q, A, B)
  BY <1>2, <1>3 DEF Tell
<1>5. Given(q, UNION {Gives(ev) : ev \in S})
  BY <1>1 DEF Given
<1> QED
  BY <1>4, <1>5 DEF q

(* No event, or one. *)
LEMMA TellOne ==
    ASSUME NEW A, NEW B
    PROVE  /\ Tell(<<>>, A, B) /\ Given(<<>>, {})
           /\ \A ev \in Event :
                Needs(ev) \subseteq A \cap B /\ Takes(ev) \cap B = {} =>
                  Tell(<<ev>>, A, B) /\ Given(<<ev>>, Gives(ev))
<1>1. Tell(<<>>, A, B) /\ Given(<<>>, {})
  BY EmptySeq DEF Tell, Given
<1>2. ASSUME NEW ev \in Event, Needs(ev) \subseteq A \cap B, Takes(ev) \cap B = {}
      PROVE  Tell(<<ev>>, A, B) /\ Given(<<ev>>, Gives(ev))
  <2>1. <<ev>> \in Seq(Event) /\ Len(<<ev>>) = 1 /\ <<ev>>[1] = ev
    OBVIOUS
  <2> QED
    BY <1>2, <2>1 DEF Tell, Given
<1> QED
  BY <1>1, <1>2

(* The full lists are lists of windows and of workspaces. *)
LEMMA ListTypes ==
    ASSUME NEW w \in Worlds
    PROVE  /\ WindowList(w) \in Dict(Windows, Window)
           /\ DOMAIN WindowList(w) = DOMAIN w.where
           /\ WorkspaceList(w) \in Dict(Workspaces, Workspace)
           /\ DOMAIN WorkspaceList(w) = DOMAIN w.active
<1>1. ASSUME NEW id \in DOMAIN w.where
      PROVE  id \in Windows /\ WindowList(w)[id] \in Window
  <2>1. w.where[id] \in Workspaces
    BY WorldOf
  <2> QED
    BY <2>1, WorldOf, ReplicationAssumption DEF WindowList, Window
<1>2. ASSUME NEW ws \in DOMAIN w.active
      PROVE  ws \in Workspaces /\ WorkspaceList(w)[ws] \in Workspace
  <2>1. w.active[ws] \in Windows \cup {None}
    BY WorldOf
  <2> QED
    BY <2>1, WorldOf, ReplicationAssumption, EngineAssumption
    DEF WorkspaceList, Workspace
<1>3. /\ DOMAIN WindowList(w) = DOMAIN w.where
      /\ DOMAIN WorkspaceList(w) = DOMAIN w.active
  BY DEF WindowList, WorkspaceList
<1>4. WindowList(w) \in [DOMAIN w.where -> Window]
  BY <1>1 DEF WindowList
<1>5. WorkspaceList(w) \in [DOMAIN w.active -> Workspace]
  BY <1>2 DEF WorkspaceList
<1> QED
  BY <1>1, <1>2, <1>3, <1>4, <1>5, DictElement

(* What is sent about workspaces. *)
LEMMA WorkspaceEventsTell ==
    ASSUME NEW w \in Worlds, NEW v \in Worlds
    PROVE  /\ Tell(WorkspaceEvents(w, v), Ids(w), Ids(v))
           /\ Given(WorkspaceEvents(w, v),
                    Element("workspace", DOMAIN v.active \ DOMAIN w.active))
<1> DEFINE new == DOMAIN v.active \ DOMAIN w.active
<1>0. /\ DOMAIN w.output = DOMAIN w.active /\ DOMAIN v.output = DOMAIN v.active
      /\ v.shown \subseteq DOMAIN v.active
      /\ DOMAIN v.active \subseteq Workspaces
  BY WorldOf
<1>1. CASE w.output # v.output
  <2> DEFINE ev == [type |-> "WorkspacesChanged", list |-> WorkspaceList(v)]
  <2>1. ev \in Event
    BY ListTypes DEF Event
  <2>2. /\ ev.type = "WorkspacesChanged" /\ DOMAIN ev.list = DOMAIN v.active
    BY ListTypes
  <2> HIDE DEF ev
  <2>3. /\ Needs(ev) = {}
        /\ Takes(ev) = Element("workspace", Workspaces \ DOMAIN v.active)
        /\ Gives(ev) = Element("workspace", DOMAIN v.active)
    BY <2>2 DEF Needs, Takes, Gives
  <2>4. Takes(ev) \cap Ids(v) = {}
    BY <2>3 DEF Ids, Element
  <2>5. Tell(<<ev>>, Ids(w), Ids(v)) /\ Given(<<ev>>, Gives(ev))
    BY <2>1, <2>3, <2>4, TellOne
  <2>6. Element("workspace", new) \subseteq Gives(ev)
    BY <2>3 DEF Element
  <2>7. WorkspaceEvents(w, v) = <<ev>>
    BY <1>1 DEF WorkspaceEvents, ev
  <2> QED
    BY <2>5, <2>6, <2>7 DEF Given
<1>2. CASE w.output = v.output
  <2> DEFINE lit == {s \in v.shown : s \notin w.shown \/ (s = v.focused /\ s # w.focused)}
             f == [s \in lit |-> [type |-> "WorkspaceActivated", id |-> s,
                                  focused |-> s = v.focused]]
             first == {f[s] : s \in lit}
             moved == {s \in DOMAIN w.active : w.active[s] # v.active[s]}
             g == [s \in moved |-> [type |-> "WorkspaceActiveWindowChanged", id |-> s,
                                    window |-> v.active[s]]]
             rest == {g[s] : s \in moved}
  <2>0. DOMAIN w.active = DOMAIN v.active
    BY <1>0, <1>2
  <2>1. ASSUME NEW s \in lit
        PROVE  /\ f[s] \in Event
               /\ Needs(f[s]) \subseteq Ids(w) \cap Ids(v) /\ Takes(f[s]) \cap Ids(v) = {}
    <3>1. s \in Workspaces /\ s \in DOMAIN v.active
      BY <1>0
    <3>2. f[s] \in Event
      BY <3>1 DEF Event
    <3>3. Needs(f[s]) = Element("workspace", {s}) /\ Takes(f[s]) = {}
      BY DEF Needs, Takes
    <3>4. Needs(f[s]) \subseteq Ids(w) \cap Ids(v)
      BY <2>0, <3>1, <3>3 DEF Ids, Element
    <3> QED
      BY <3>2, <3>3, <3>4
  <2>2. IsFiniteSet(moved) /\ IsFiniteSet(lit)
    <3>1. IsFiniteSet(DOMAIN w.active) /\ IsFiniteSet(DOMAIN v.active)
      BY <1>0, <2>0, FS_Subset, ReplicationAssumption
    <3>2. moved \subseteq DOMAIN w.active /\ lit \subseteq DOMAIN v.active
      BY <1>0
    <3> HIDE DEF moved, lit
    <3> QED
      BY <3>1, <3>2, FS_Subset
  <2>3. DOMAIN g = moved /\ DOMAIN f = lit
    OBVIOUS
  <2>4. ASSUME NEW s \in moved
        PROVE  /\ g[s] \in Event
               /\ Needs(g[s]) \subseteq Ids(w) \cap Ids(v) /\ Takes(g[s]) \cap Ids(v) = {}
    <3>1. s \in Workspaces /\ v.active[s] \in Windows \cup {None} /\ s \in DOMAIN v.active
      BY <2>0, WorldOf
    <3>2. g[s] \in Event
      BY <3>1 DEF Event
    <3>3. Needs(g[s]) = Element("workspace", {s}) /\ Takes(g[s]) = {}
      BY DEF Needs, Takes
    <3>4. Needs(g[s]) \subseteq Ids(w) \cap Ids(v)
      BY <2>0, <3>1, <3>3 DEF Ids, Element
    <3> QED
      BY <3>2, <3>3, <3>4
  <2>5. rest = {[type |-> "WorkspaceActiveWindowChanged", id |-> ws,
                 window |-> v.active[ws]] :
                ws \in {s \in DOMAIN w.active : w.active[s] # v.active[s]}}
    OBVIOUS
  <2>6. first = {[type |-> "WorkspaceActivated", id |-> ws, focused |-> ws = v.focused] :
                 ws \in {s \in v.shown : \/ s \notin w.shown
                                         \/ s = v.focused /\ s # w.focused}}
    OBVIOUS
  <2> HIDE DEF first, rest
  <2>7. WorkspaceEvents(w, v) = SetToSeq(first) \o SetToSeq(rest)
    BY <1>2, <2>5, <2>6 DEF WorkspaceEvents
  <2> HIDE DEF lit, moved, f, g
  <2>8. IsFiniteSet(first) /\ IsFiniteSet(rest)
    BY <2>2, <2>3, FiniteImage DEF first, rest
  <2>9. \A x \in first \cup rest :
          x \in Event /\ Needs(x) \subseteq Ids(w) \cap Ids(v) /\ Takes(x) \cap Ids(v) = {}
    BY <2>1, <2>4 DEF first, rest
  <2>10. Tell(SetToSeq(first), Ids(w), Ids(v)) /\ Tell(SetToSeq(rest), Ids(w), Ids(v))
    BY <2>8, <2>9, TellSet
  <2>11. Given(SetToSeq(first), {}) /\ Given(SetToSeq(rest), {})
    BY DEF Given
  <2>12. Tell(SetToSeq(first) \o SetToSeq(rest), Ids(w), Ids(v))
    BY <2>10, <2>11, TellBoth
  <2>13. Element("workspace", new) = {}
    BY <2>0 DEF Element
  <2> QED
    BY <2>7, <2>12, <2>13 DEF Given
<1> QED
  BY <1>1, <1>2

(* What is sent about windows. *)
LEMMA WindowEventsTell ==
    ASSUME NEW w \in Worlds, NEW v \in Worlds
    PROVE  /\ Tell(WindowEvents(w, v), Ids(w), Ids(v))
           /\ Given(WindowEvents(w, v),
                    Element("window", DOMAIN v.where \ DOMAIN w.where))
<1> DEFINE shown == {i \in DOMAIN v.where :
                       i \notin DOMAIN w.where \/ w.where[i] # v.where[i]}
           gone == DOMAIN w.where \ DOMAIN v.where
           g == [id \in shown |-> [type |-> "WindowOpenedOrChanged", id |-> id,
                                   window |-> WindowList(v)[id],
                                   focused |-> id = Focused(v)]]
           h == [id \in gone |-> [type |-> "WindowClosed", id |-> id]]
           ev == [type |-> "WindowFocusChanged", id |-> Focused(v)]
           opening == {g[id] : id \in shown}
           closing == {h[id] : id \in gone}
           last == IF Focused(w) = Focused(v) THEN <<>> ELSE <<ev>>
           new == DOMAIN v.where \ DOMAIN w.where
<1>1. IsFiniteSet(shown) /\ IsFiniteSet(gone)
  BY WorldOf, FS_Subset, ReplicationAssumption
<1>2. IsFiniteSet(opening) /\ IsFiniteSet(closing)
  <2>1. DOMAIN g = shown /\ DOMAIN h = gone
    OBVIOUS
  <2> HIDE DEF g, h, shown, gone
  <2> QED
    BY <1>1, <2>1, FiniteImage
<1>3. ASSUME NEW id \in shown
      PROVE  /\ g[id] \in Event
             /\ Needs(g[id]) = {} /\ Takes(g[id]) = {}
             /\ Gives(g[id]) = Element("window", {id})
  <2>1. id \in Windows /\ WindowList(v)[id] \in Window
    BY WorldOf, ListTypes, DictElement
  <2> QED
    BY <2>1 DEF Event, Needs, Takes, Gives
<1>4. ASSUME NEW id \in gone
      PROVE  /\ h[id] \in Event
             /\ Needs(h[id]) = {} /\ Takes(h[id]) \cap Ids(v) = {}
  <2>1. id \in Windows
    BY WorldOf
  <2>2. h[id] \in Event
    BY <2>1 DEF Event
  <2>3. Needs(h[id]) = {} /\ Takes(h[id]) = Element("window", {id})
    BY DEF Needs, Takes
  <2>4. id \notin DOMAIN v.where
    OBVIOUS
  <2> HIDE DEF h
  <2>5. Takes(h[id]) \cap Ids(v) = {}
    BY <2>3, <2>4 DEF Ids, Element
  <2> QED
    BY <2>2, <2>3, <2>5
<1>5. Tell(last, Ids(w), Ids(v)) /\ Given(last, {})
  <2>1. Focused(v) \in Windows \cup {None}
    BY WorldOf DEF Focused
  <2>2. ev \in Event /\ Needs(ev) = {} /\ Takes(ev) = {}
    BY <2>1 DEF Event, Needs, Takes
  <2> HIDE DEF ev
  <2> QED
    BY <2>2, TellOne DEF Given
<1>6. /\ Tell(SetToSeq(opening), Ids(w), Ids(v))
      /\ Given(SetToSeq(opening), Element("window", new))
  <2>1. \A x \in opening : x \in Event /\ Needs(x) = {} /\ Takes(x) = {}
    BY <1>3
  <2>2. Element("window", new) \subseteq UNION {Gives(x) : x \in opening}
    <3>1. ASSUME NEW id \in new
          PROVE  <<"window", id>> \in UNION {Gives(x) : x \in opening}
      <4>1. id \in shown
        OBVIOUS
      <4> HIDE DEF g, shown
      <4>2. <<"window", id>> \in Gives(g[id])
        BY <1>3, <4>1 DEF Element
      <4>3. g[id] \in opening
        BY <4>1
      <4> QED
        BY <4>2, <4>3
    <3> QED
      BY <3>1 DEF Element
  <2> HIDE DEF opening, new
  <2>3. /\ Tell(SetToSeq(opening), Ids(w), Ids(v))
        /\ Given(SetToSeq(opening), UNION {Gives(x) : x \in opening})
    BY <1>2, <2>1, TellSet
  <2> QED
    BY <2>2, <2>3 DEF Given
<1>7. Tell(SetToSeq(closing), Ids(w), Ids(v)) /\ Given(SetToSeq(closing), {})
  <2>1. \A x \in closing : x \in Event /\ Needs(x) = {} /\ Takes(x) \cap Ids(v) = {}
    BY <1>4
  <2> HIDE DEF closing
  <2> QED
    BY <1>2, <2>1, TellSet DEF Given
<1>8. WindowEvents(w, v) = SetToSeq(opening) \o SetToSeq(closing) \o last
  <2>1. /\ opening = {[type |-> "WindowOpenedOrChanged", id |-> id,
                       window |-> WindowList(v)[id], focused |-> id = Focused(v)] :
                      id \in {i \in DOMAIN v.where :
                                i \notin DOMAIN w.where \/ w.where[i] # v.where[i]}}
        /\ closing = {[type |-> "WindowClosed", id |-> id] :
                      id \in DOMAIN w.where \ DOMAIN v.where}
    OBVIOUS
  <2> HIDE DEF opening, closing
  <2> QED
    BY <2>1 DEF WindowEvents
<1> HIDE DEF opening, closing, last
<1>9. /\ Tell(SetToSeq(opening) \o SetToSeq(closing), Ids(w), Ids(v))
      /\ Given(SetToSeq(opening) \o SetToSeq(closing), Element("window", new))
  <2> HIDE DEF new
  <2>1. Given(SetToSeq(opening) \o SetToSeq(closing), Element("window", new) \cup {})
    BY <1>6, <1>7, TellBoth
  <2> QED
    BY <1>6, <1>7, <2>1, TellBoth DEF Given
<1>10. /\ Tell((SetToSeq(opening) \o SetToSeq(closing)) \o last, Ids(w), Ids(v))
       /\ Given((SetToSeq(opening) \o SetToSeq(closing)) \o last,
                Element("window", new) \cup {})
  <2> HIDE DEF new
  <2> QED
    BY <1>5, <1>9, TellBoth
<1> QED
  BY <1>8, <1>10 DEF Given

(* What is sent of a change, in either order. *)
LEMMA ChangeTells ==
    ASSUME NEW w \in Worlds, NEW v \in Worlds,
           NEW es \in {WorkspaceEvents(w, v) \o WindowEvents(w, v),
                       WindowEvents(w, v) \o WorkspaceEvents(w, v)}
    PROVE  Tell(es, Ids(w), Ids(v)) /\ Given(es, Ids(v) \ Ids(w))
<1> DEFINE S == Element("workspace", DOMAIN v.active \ DOMAIN w.active)
           T == Element("window", DOMAIN v.where \ DOMAIN w.where)
<1>1. Ids(v) \ Ids(w) \subseteq S \cup T
  BY DEF Ids, Element
<1> HIDE DEF S, T
<1>2. /\ Tell(WorkspaceEvents(w, v), Ids(w), Ids(v)) /\ Given(WorkspaceEvents(w, v), S)
      /\ Tell(WindowEvents(w, v), Ids(w), Ids(v)) /\ Given(WindowEvents(w, v), T)
  BY WorkspaceEventsTell, WindowEventsTell DEF S, T
<1> DEFINE p == WorkspaceEvents(w, v)
           q == WindowEvents(w, v)
           A == Ids(w)
           B == Ids(v)
<1> HIDE DEF p, q, A, B
<1>3. Tell(es, A, B) /\ (Given(es, S \cup T) \/ Given(es, T \cup S))
  <2>1. es = p \o q \/ es = q \o p
    BY DEF p, q
  <2>2. Tell(p, A, B) /\ Given(p, S) /\ Tell(q, A, B) /\ Given(q, T)
    BY <1>2 DEF p, q, A, B
  <2>3. Tell(p \o q, A, B) /\ Given(p \o q, S \cup T)
    BY <2>2, TellBoth
  <2>4. Tell(q \o p, A, B) /\ Given(q \o p, T \cup S)
    BY <2>2, TellBoth
  <2> QED
    BY <2>1, <2>3, <2>4
<1> QED
  BY <1>1, <1>3 DEF Given, A, B

-------------------------------------------------------------------------------
(* What was told since the stream was opened *)

\* x exists after the first n events of h: one gives it, none after takes it.
Known(h, n, x) ==
    \E j \in 1..n : x \in Gives(h[j]) /\ \A k \in (j + 1)..n : x \notin Takes(h[k])

\* No event of h is about something that the ones before it do not give, and what
\* there is in the end is X.
Told(h, X) ==
    /\ h \in Seq(Event)
    /\ \A n \in 1..Len(h) : \A x \in Needs(h[n]) : Known(h, n - 1, x)
    /\ \A x \in X : Known(h, Len(h), x)

(* An event keeps known what it does not take, and makes known what it gives. *)
LEMMA KnownStep ==
    ASSUME NEW h, NEW n \in Nat \ {0}, NEW x, Known(h, n, x)
    PROVE  x \in Gives(h[n]) \/ (Known(h, n - 1, x) /\ x \notin Takes(h[n]))
<1>1. PICK j \in 1..n : x \in Gives(h[j]) /\ \A k \in (j + 1)..n : x \notin Takes(h[k])
  BY DEF Known
<1>2. CASE j = n
  BY <1>1, <1>2
<1>3. CASE j # n
  <2>1. j \in 1..(n - 1) /\ n \in (j + 1)..n /\ \A k \in (j + 1)..(n - 1) : k \in (j + 1)..n
    BY <1>3
  <2> QED
    BY <1>1, <2>1 DEF Known
<1> QED
  BY <1>2, <1>3

(* What is told of a change is told after what was told before. *)
LEMMA ToldMore ==
    ASSUME NEW h, NEW A, NEW B, NEW es, Told(h, A), Tell(es, A, B), Given(es, B \ A)
    PROVE  Told(h \o es, B)
<1> DEFINE u == h \o es
           m == Len(h)
<1>1. /\ h \in Seq(Event) /\ es \in Seq(Event)
      /\ m \in Nat /\ Len(es) \in Nat
  BY DEF Told, Tell
<1>2. /\ u \in Seq(Event) /\ Len(u) = m + Len(es)
      /\ \A i \in 1..(m + Len(es)) : u[i] = IF i <= m THEN h[i] ELSE es[i - m]
  BY <1>1, ConcatProperties
<1> HIDE DEF u, m
<1>3. (\A i \in 1..m : u[i] = h[i]) /\ \A i \in 1..Len(es) : u[m + i] = es[i]
  <2>1. \A i \in 1..m : i \in 1..(m + Len(es)) /\ i <= m
    BY <1>1
  <2>2. \A i \in 1..Len(es) : /\ m + i \in 1..(m + Len(es)) /\ ~(m + i <= m)
                              /\ (m + i) - m = i
    BY <1>1
  <2> QED
    BY <1>2, <2>1, <2>2
<1>4. ASSUME NEW n \in 0..m, NEW x, Known(h, n, x) PROVE Known(u, n, x)
  <2>1. \A k \in 1..n : u[k] = h[k]
    BY <1>1, <1>3
  <2>2. \A j \in 1..n : \A k \in (j + 1)..n : k \in 1..n
    BY <1>1
  <2> QED
    BY <1>4, <2>1, <2>2 DEF Known
<1>5. ASSUME NEW n \in m..(m + Len(es)), NEW x \in A \cap B PROVE Known(u, n, x)
  <2>1. Known(h, m, x)
    BY DEF Told, m
  <2>2. Known(u, m, x)
    BY <1>1, <1>4, <2>1
  <2>3. PICK j \in 1..m : x \in Gives(u[j]) /\ \A k \in (j + 1)..m : x \notin Takes(u[k])
    BY <2>2 DEF Known
  <2>4. ASSUME NEW k \in (j + 1)..n PROVE x \notin Takes(u[k])
    <3>1. CASE k <= m
      BY <1>1, <2>3, <3>1
    <3>2. CASE ~(k <= m)
      <4>1. k - m \in 1..Len(es) /\ m + (k - m) = k
        BY <1>1, <3>2
      <4>2. u[k] = es[k - m]
        BY <1>3, <4>1
      <4> QED
        BY <4>1, <4>2 DEF Tell
    <3> QED
      BY <3>1, <3>2
  <2>5. j \in 1..n
    BY <1>1
  <2> QED
    BY <2>3, <2>4, <2>5 DEF Known
<1>6. ASSUME NEW x \in B PROVE Known(u, Len(u), x)
  <2>1. CASE x \in A
    <3>1. Len(u) \in m..(m + Len(es))
      BY <1>1, <1>2
    <3> QED
      BY <1>5, <2>1, <3>1
  <2>2. CASE x \notin A
    <3>1. PICK i \in 1..Len(es) : x \in Gives(es[i])
      BY <2>2 DEF Given
    <3>2. m + i \in 1..Len(u) /\ x \in Gives(u[m + i])
      BY <1>1, <1>2, <1>3, <3>1
    <3>3. ASSUME NEW k \in ((m + i) + 1)..Len(u) PROVE x \notin Takes(u[k])
      <4>1. k - m \in 1..Len(es) /\ m + (k - m) = k
        BY <1>1, <1>2
      <4>2. u[k] = es[k - m]
        BY <1>3, <4>1
      <4> QED
        BY <4>1, <4>2 DEF Tell
    <3> QED
      BY <3>2, <3>3 DEF Known
  <2> QED
    BY <2>1, <2>2
<1>7. ASSUME NEW n \in 1..Len(u), NEW x \in Needs(u[n]) PROVE Known(u, n - 1, x)
  <2>1. CASE n <= m
    <3>1. n \in 1..m /\ n - 1 \in 0..m
      BY <1>1, <2>1
    <3>2. Known(h, n - 1, x)
      BY <1>3, <3>1 DEF Told, m
    <3> QED
      BY <1>4, <3>1, <3>2
  <2>2. CASE ~(n <= m)
    <3>1. n - m \in 1..Len(es) /\ m + (n - m) = n /\ n - 1 \in m..(m + Len(es))
      BY <1>1, <1>2, <2>2
    <3>2. u[n] = es[n - m]
      BY <1>3, <3>1
    <3>3. x \in A \cap B
      BY <3>1, <3>2 DEF Tell
    <3> QED
      BY <1>5, <3>1, <3>3
  <2> QED
    BY <2>1, <2>2
<1>8. Told(u, B)
  BY <1>2, <1>6, <1>7 DEF Told
<1> QED
  BY <1>8 DEF u

(* What was told is told of every part of it from the start. *)
LEMMA ToldStart ==
    ASSUME NEW s \in Seq(Event), NEW t \in Seq(Event), NEW X, Told(s \o t, X)
    PROVE  \A n \in 1..Len(s) : \A x \in Needs(s[n]) : Known(s, n - 1, x)
<1> DEFINE u == s \o t
<1>1. Len(s) \in Nat /\ Len(t) \in Nat
  OBVIOUS
<1>2. /\ Len(u) = Len(s) + Len(t)
      /\ \A i \in 1..(Len(s) + Len(t)) :
           u[i] = IF i <= Len(s) THEN s[i] ELSE t[i - Len(s)]
  BY ConcatProperties
<1>3. Told(u, X)
  OBVIOUS
<1> HIDE DEF u
<1>4. \A i \in 1..Len(s) : i \in 1..Len(u) /\ u[i] = s[i]
  BY <1>1, <1>2
<1> SUFFICES ASSUME NEW n \in 1..Len(s), NEW x \in Needs(s[n])
             PROVE  Known(s, n - 1, x)
  OBVIOUS
<1>5. Known(u, n - 1, x)
  BY <1>3, <1>4 DEF Told
<1>6. PICK j \in 1..(n - 1) :
        x \in Gives(u[j]) /\ \A k \in (j + 1)..(n - 1) : x \notin Takes(u[k])
  BY <1>5 DEF Known
<1>7. j \in 1..Len(s) /\ \A k \in (j + 1)..(n - 1) : k \in 1..Len(s)
  BY <1>1
<1> QED
  BY <1>4, <1>6, <1>7 DEF Known

(* Buffering the next event forgets nothing. *)
LEMMA BufferNext ==
    ASSUME NEW E, NEW s \in Seq(E), NEW t \in Seq(E), t # <<>>
    PROVE  Append(s, Head(t)) \o Tail(t) = s \o t
<1>1. /\ Head(t) \in E /\ Tail(t) \in Seq(E) /\ Len(Tail(t)) = Len(t) - 1
      /\ \A i \in 1..Len(Tail(t)) : Tail(t)[i] = t[i + 1]
      /\ Head(t) = t[1]
  BY HeadTailProperties
<1>2. Len(t) \in Nat \ {0} /\ Len(s) \in Nat
  BY EmptySeq
<1> DEFINE a == Append(s, Head(t))
<1>3. /\ a \in Seq(E) /\ Len(a) = Len(s) + 1
      /\ \A i \in 1..Len(s) : a[i] = s[i]
      /\ a[Len(s) + 1] = Head(t)
  BY <1>1
<1> HIDE DEF a
<1> DEFINE u == a \o Tail(t)
           v == s \o t
<1>4. /\ u \in Seq(E) /\ Len(u) = Len(a) + Len(Tail(t))
      /\ \A i \in 1..(Len(a) + Len(Tail(t))) :
           u[i] = IF i <= Len(a) THEN a[i] ELSE Tail(t)[i - Len(a)]
  BY <1>1, <1>3, ConcatProperties
<1>5. /\ v \in Seq(E) /\ Len(v) = Len(s) + Len(t)
      /\ \A i \in 1..(Len(s) + Len(t)) : v[i] = IF i <= Len(s) THEN s[i] ELSE t[i - Len(s)]
  BY ConcatProperties
<1> HIDE DEF u, v
<1>6. Len(u) = Len(v)
  BY <1>1, <1>2, <1>3, <1>4, <1>5
<1>7. ASSUME NEW i \in 1..Len(u) PROVE u[i] = v[i]
  <2>0. i \in 1..(Len(s) + Len(t)) /\ i \in 1..(Len(a) + Len(Tail(t))) /\ i \in Nat
    BY <1>1, <1>2, <1>3, <1>4
  <2>1. CASE i <= Len(s)
    <3>1. i <= Len(a) /\ i \in 1..Len(s)
      BY <1>2, <1>3, <2>0, <2>1
    <3> QED
      BY <1>3, <1>4, <1>5, <2>0, <2>1, <3>1
  <2>2. CASE i = Len(s) + 1
    <3>1. i <= Len(a) /\ ~(i <= Len(s)) /\ i - Len(s) = 1
      BY <1>2, <1>3, <2>2
    <3>2. u[i] = a[Len(s) + 1]
      BY <1>4, <2>0, <2>2, <3>1
    <3>3. v[i] = t[1]
      BY <1>5, <2>0, <3>1
    <3> QED
      BY <1>1, <1>3, <3>2, <3>3
  <2>3. CASE i > Len(s) + 1
    <3>1. /\ ~(i <= Len(a)) /\ ~(i <= Len(s))
          /\ i - Len(a) \in 1..Len(Tail(t)) /\ (i - Len(a)) + 1 = i - Len(s)
      BY <1>1, <1>2, <1>3, <2>0, <2>3
    <3>2. u[i] = Tail(t)[i - Len(a)]
      BY <1>4, <2>0, <3>1
    <3>3. v[i] = t[i - Len(s)]
      BY <1>5, <2>0, <3>1
    <3>4. Tail(t)[i - Len(a)] = t[(i - Len(a)) + 1]
      BY <1>1, <3>1
    <3> QED
      BY <3>1, <3>2, <3>3, <3>4
  <2> QED
    BY <1>2, <2>0, <2>1, <2>2, <2>3
<1>8. u = v
  BY <1>4, <1>5, <1>6, <1>7, SeqEqual
<1> QED
  BY <1>8 DEF u, v, a

(* A replay of events, whatever they are. *)
LEMMA ReplayLeaves ==
    ASSUME NEW b \in Replays, NEW h \in Seq(Event)
    PROVE  FoldLeft(Replay, b, h) \in Replays
<1> DEFINE P == [n \in 0..Len(h) |-> Replays]
<1>1. Len(h) \in Nat
  OBVIOUS
<1>2. b \in P[0] /\ P[Len(h)] = Replays
  BY <1>1
<1>3. ASSUME NEW n \in 1..Len(h), NEW r \in P[n - 1] PROVE Replay(r, h[n]) \in P[n]
  <2>1. P[n] = Replays /\ P[n - 1] = Replays /\ h[n] \in Event
    BY <1>1, ElementOfSeq
  <2> QED
    BY <2>1, ReplayStep
<1> HIDE DEF P
<1> QED
  BY <1>2, <1>3, ReplayInduction

(* A replay of events each of which is about what the ones before it give: none is
   refused, whatever the engine was. *)
LEMMA ReplayAccepts ==
    ASSUME NEW b \in Replays, ~b.desync, NEW h \in Seq(Event),
           \A n \in 1..Len(h) : \A x \in Needs(h[n]) : Known(h, n - 1, x)
    PROVE  ~FoldLeft(Replay, b, h).desync
<1> DEFINE Q(n) == {r \in Replays : ~r.desync /\ \A x : Known(h, n, x) => x \in Has(r.engine)}
           P == [n \in 0..Len(h) |-> Q(n)]
<1>1. Len(h) \in Nat
  OBVIOUS
<1>2. b \in P[0]
  <2>1. \A x : ~Known(h, 0, x)
    BY DEF Known
  <2>2. P[0] = Q(0)
    BY <1>1
  <2> QED
    BY <2>1, <2>2
<1>3. ASSUME NEW n \in 1..Len(h), NEW r \in P[n - 1] PROVE Replay(r, h[n]) \in P[n]
  <2>1. P[n] = Q(n) /\ P[n - 1] = Q(n - 1) /\ h[n] \in Event /\ n \in Nat \ {0}
    BY <1>1, ElementOfSeq
  <2>2. /\ r \in Replays /\ ~r.desync
        /\ \A x : Known(h, n - 1, x) => x \in Has(r.engine)
    BY <2>1
  <2>3. Needs(h[n]) \subseteq Has(r.engine)
    BY <2>2
  <2> DEFINE s == Replay(r, h[n])
  <2>4. /\ s \in Replays /\ ~s.desync
        /\ (Has(r.engine) \ Takes(h[n])) \cup Gives(h[n]) \subseteq Has(s.engine)
    BY <2>1, <2>2, <2>3, ReplayStep
  <2> HIDE DEF s
  <2>5. ASSUME NEW x, Known(h, n, x) PROVE x \in Has(s.engine)
    <3>1. x \in Gives(h[n]) \/ (Known(h, n - 1, x) /\ x \notin Takes(h[n]))
      BY <2>1, <2>5, KnownStep
    <3> QED
      BY <2>2, <2>4, <3>1
  <2>6. s \in Q(n)
    BY <2>4, <2>5
  <2> QED
    BY <2>1, <2>6 DEF s
<1>4. P[Len(h)] = Q(Len(h))
  BY <1>1
<1> HIDE DEF P
<1>5. FoldLeft(Replay, b, h) \in P[Len(h)]
  BY <1>2, <1>3, ReplayInduction
<1> QED
  BY <1>4, <1>5

-------------------------------------------------------------------------------
(* The inductive invariant *)

\* What the variables hold.
ReplicationTypes ==
    /\ world \in Worlds /\ DOMAIN world.where \subseteq opened /\ opened \subseteq Windows
    /\ budget \in 0..MaxChanges
    /\ stream \in Seq(Event) /\ buffer \in Seq(Event)
    /\ phase \in {"querying", "live", "failed"}

\* What each phase leaves behind.
PhaseInv ==
    /\ phase = "querying" =>
         engine = EmptyEngine /\ \A q \in DOMAIN answers : answers[q] \in Answers[q]
    /\ phase # "querying" => answers = <<>> /\ buffer = <<>>
    /\ phase = "live" => EngineInv

\* A stream that started with the full lists tells, with what is buffered of it,
\* of everything there is, and of nothing before it is there.
StreamTells == greeted /\ phase = "querying" => Told(buffer \o stream, Ids(world))

ReplicationInv == ReplicationTypes /\ PhaseInv /\ StreamTells /\ GreetedConnects

(* A stream starts with everything there is. *)
LEMMA GreetingTells ==
    ASSUME NEW w \in Worlds
    PROVE  Greeting(w) \in Seq(Event) /\ Told(Greeting(w), Ids(w))
<1> DEFINE c == [type |-> "WorkspacesChanged", list |-> WorkspaceList(w)]
           d == [type |-> "WindowsChanged", list |-> WindowList(w)]
           S == Element("workspace", DOMAIN w.active)
           T == Element("window", DOMAIN w.where)
           B == Ids(w)
<1>1. c \in Event /\ d \in Event
  BY ListTypes DEF Event
<1>2. /\ Needs(c) = {} /\ Gives(c) = S /\ Takes(c) \cap B = {}
      /\ Needs(d) = {} /\ Gives(d) = T /\ Takes(d) \cap B = {}
  <2>1. DOMAIN c.list = DOMAIN w.active /\ DOMAIN d.list = DOMAIN w.where
    BY ListTypes
  <2>2. c.type = "WorkspacesChanged" /\ d.type = "WindowsChanged"
    OBVIOUS
  <2> HIDE DEF c, d
  <2>3. /\ Needs(c) = {} /\ Gives(c) = S
        /\ Takes(c) = Element("workspace", Workspaces \ DOMAIN w.active)
    BY <2>1, <2>2 DEF Needs, Gives, Takes
  <2>4. /\ Needs(d) = {} /\ Gives(d) = T
        /\ Takes(d) = Element("window", Windows \ DOMAIN w.where)
    BY <2>1, <2>2 DEF Needs, Gives, Takes
  <2>5. /\ Element("workspace", Workspaces \ DOMAIN w.active) \cap B = {}
        /\ Element("window", Windows \ DOMAIN w.where) \cap B = {}
    BY DEF Ids, Element
  <2> QED
    BY <2>3, <2>4, <2>5
<1>3. B = S \cup T
  BY DEF Ids
<1>4. Greeting(w) = <<c, d>>
  BY DEF Greeting
<1> HIDE DEF c, d, S, T, B
<1>5. Tell(<<c>>, {}, B) /\ Given(<<c>>, S) /\ Tell(<<d>>, {}, B) /\ Given(<<d>>, T)
  BY <1>1, <1>2, TellOne
<1>6. Tell(<<c>> \o <<d>>, {}, B) /\ Given(<<c>> \o <<d>>, S \cup T)
  BY <1>5, TellBoth
<1>7. <<c>> \o <<d>> = <<c, d>>
  <2> DEFINE u == <<c>> \o <<d>>
             v == <<c, d>>
  <2>1. /\ <<c>> \in Seq(Event) /\ Len(<<c>>) = 1 /\ <<c>>[1] = c
        /\ <<d>> \in Seq(Event) /\ Len(<<d>>) = 1 /\ <<d>>[1] = d
    BY <1>1
  <2>2. u \in Seq(Event) /\ Len(u) = 2 /\ u[1] = c /\ u[2] = d
    BY <2>1, ConcatProperties
  <2>3. v \in Seq(Event) /\ Len(v) = 2 /\ v[1] = c /\ v[2] = d
    BY <1>1
  <2> HIDE DEF u, v
  <2>4. \A i \in 1..Len(u) : u[i] = v[i]
    BY <2>2, <2>3
  <2>5. u = v
    BY <2>2, <2>3, <2>4, SeqEqual
  <2> QED
    BY <2>5 DEF u, v
<1> DEFINE es == <<c, d>>
<1>8. es \in Seq(Event)
  BY <1>1
<1>9. Tell(es, {}, B) /\ Given(es, B \ {})
  BY <1>3, <1>6, <1>7 DEF Given
<1>10. Told(<<>>, {})
  BY EmptySeq DEF Told
<1> HIDE DEF es
<1>11. Told(<<>> \o es, B)
  BY <1>9, <1>10, ToldMore
<1>12. <<>> \o es = es
  BY <1>8, ConcatEmptySeq
<1> QED
  BY <1>4, <1>8, <1>11, <1>12 DEF es, B

(* The stream has just been opened. *)
LEMMA ReplicationStarts == ReplicationInit => ReplicationInv
<1> SUFFICES ASSUME ReplicationInit PROVE ReplicationInv
  OBVIOUS
<1> USE DEF ReplicationInit
<1>1. stream \in Seq(Event) /\ buffer \in Seq(Event)
  BY GreetingTells, EmptySeq
<1>2. ReplicationTypes
  BY <1>1, WorldOf, ReplicationAssumption DEF ReplicationTypes
<1>3. PhaseInv
  BY DEF PhaseInv
<1>4. StreamTells
  <2>1. greeted => buffer \o stream = Greeting(world)
    BY GreetingTells, ConcatEmptySeq
  <2> QED
    BY <2>1, GreetingTells DEF StreamTells
<1> QED
  BY <1>2, <1>3, <1>4 DEF ReplicationInv, GreetedConnects

(* Events are sent, of which there is a record in the stream. *)
LEMMA SendingKeeps ==
    ASSUME ReplicationInv, NEW es, stream' = stream \o es,
           Tell(es, Ids(world), Ids(world')), Given(es, Ids(world') \ Ids(world)),
           UNCHANGED <<engine, changes, greeted, phase, answers, buffer>>,
           ReplicationTypes'
    PROVE  ReplicationInv'
<1>1. stream \in Seq(Event) /\ buffer \in Seq(Event) /\ es \in Seq(Event)
  BY DEF ReplicationInv, ReplicationTypes, Tell
<1>2. PhaseInv'
  BY DEF ReplicationInv, PhaseInv, EngineInv
<1>3. StreamTells'
  <2>1. SUFFICES ASSUME greeted, phase = "querying"
                 PROVE  Told(buffer \o (stream \o es), Ids(world'))
    BY DEF StreamTells
  <2>2. Told(buffer \o stream, Ids(world))
    BY <2>1 DEF ReplicationInv, StreamTells
  <2>3. Told((buffer \o stream) \o es, Ids(world'))
    BY <2>2, ToldMore
  <2>4. (buffer \o stream) \o es = buffer \o (stream \o es)
    BY <1>1, ConcatAssociative
  <2> QED
    BY <2>3, <2>4
<1>4. GreetedConnects'
  BY DEF ReplicationInv, GreetedConnects
<1> QED
  BY <1>2, <1>3, <1>4 DEF ReplicationInv

(* The compositor changes. *)
LEMMA ChangeKeeps ==
    ASSUME ReplicationInv, Change
    PROVE  ReplicationInv'
<1> DEFINE es == IF workspacesFirst
                 THEN WorkspaceEvents(world, world') \o WindowEvents(world, world')
                 ELSE WindowEvents(world, world') \o WorkspaceEvents(world, world')
<1>1. /\ world \in Worlds /\ DOMAIN world.where \subseteq opened /\ opened \subseteq Windows
      /\ stream \in Seq(Event) /\ buffer \in Seq(Event) /\ budget \in 0..MaxChanges
      /\ phase \in {"querying", "live", "failed"}
  BY DEF ReplicationInv, ReplicationTypes
<1>2. /\ stream' = stream \o es /\ opened' = opened \cup DOMAIN world'.where
      /\ UNCHANGED <<engine, changes, greeted, phase, answers, buffer>>
      /\ budget > 0 /\ budget' = budget - 1
  BY DEF Change, vars, bootstrap
<1>3. world' \in Worlds
  BY <1>1, WorldsLast DEF Change
<1>4. Tell(es, Ids(world), Ids(world')) /\ Given(es, Ids(world') \ Ids(world))
  BY <1>1, <1>3, ChangeTells
<1> HIDE DEF es
<1>5. stream' \in Seq(Event)
  BY <1>1, <1>2, <1>4, ConcatProperties DEF Tell
<1>6. ReplicationTypes'
  BY <1>1, <1>2, <1>3, <1>5, WorldOf, ReplicationAssumption DEF ReplicationTypes
<1> QED
  BY <1>2, <1>4, <1>6, SendingKeeps

(* An attribute of a window changes. *)
LEMMA TouchKeeps ==
    ASSUME ReplicationInv, Touch
    PROVE  ReplicationInv'
<1>1. PICK id \in DOMAIN world.where :
        stream' = Append(stream, [type |-> "WindowAttribute", id |-> id])
  BY DEF Touch
<1> DEFINE ev == [type |-> "WindowAttribute", id |-> id]
<1>2. /\ world \in Worlds /\ DOMAIN world.where \subseteq opened /\ opened \subseteq Windows
      /\ stream \in Seq(Event) /\ buffer \in Seq(Event) /\ budget \in 0..MaxChanges
      /\ phase \in {"querying", "live", "failed"}
  BY DEF ReplicationInv, ReplicationTypes
<1>3. /\ UNCHANGED <<engine, changes, greeted, phase, answers, buffer, world, opened>>
      /\ budget > 0 /\ budget' = budget - 1
  BY DEF Touch, vars, bootstrap
<1>4. ev \in Event
  BY <1>2, WorldOf DEF Event
<1>5. Needs(ev) = Element("window", {id}) /\ Takes(ev) = {}
  BY DEF Needs, Takes
<1>6. Needs(ev) \subseteq Ids(world)
  BY <1>5 DEF Ids, Element
<1> HIDE DEF ev
<1>7. Tell(<<ev>>, Ids(world), Ids(world)) /\ Given(<<ev>>, {})
  BY <1>4, <1>5, <1>6, TellOne DEF Given
<1>8. stream' = stream \o <<ev>> /\ stream' \in Seq(Event)
  BY <1>1, <1>2, <1>4 DEF ev
<1>9. ReplicationTypes'
  BY <1>2, <1>3, <1>8, ReplicationAssumption DEF ReplicationTypes
<1>10. Ids(world') = Ids(world) /\ Ids(world') \ Ids(world) = {}
  BY <1>3
<1> QED
  BY <1>3, <1>7, <1>8, <1>9, <1>10, SendingKeeps

(* What a query may be answered by a compositor. *)
LEMMA AnswerTypes ==
    ASSUME NEW w \in Worlds
    PROVE  /\ WorkspaceList(w) \in Answers["workspaces"]
           /\ WindowList(w) \in Answers["windows"]
           /\ [id |-> None, workspace |-> None] \in Answers["focused_window"]
           /\ Focused(w) # None =>
                [id |-> Focused(w), workspace |-> w.where[Focused(w)]]
                  \in Answers["focused_window"]
<1>1. /\ Answers["workspaces"] = Dict(Workspaces, Workspace)
      /\ Answers["windows"] = Dict(Windows, Window)
      /\ Answers["focused_window"] =
           [id : Windows \cup {None}, workspace : Workspaces \cup {None}]
  BY DEF Answers
<1>2. ASSUME Focused(w) # None
      PROVE  Focused(w) \in Windows /\ w.where[Focused(w)] \in Workspaces
  <2>1. Focused(w) \in On(w, w.focused)
    BY <1>2, WorldOf DEF Focused
  <2>2. Focused(w) \in DOMAIN w.where
    BY <2>1 DEF On
  <2> QED
    BY <2>2, WorldOf
<1> QED
  BY <1>1, <1>2, ListTypes

(* A query is answered. *)
LEMMA AnswerKeeps ==
    ASSUME ReplicationInv, Answer
    PROVE  ReplicationInv'
<1> DEFINE value(q) ==
             CASE q = "workspaces" -> WorkspaceList(world)
               [] q = "windows" -> WindowList(world)
               [] q = "focused_window" ->
                    IF Focused(world) = None THEN [id |-> None, workspace |-> None]
                    ELSE [id |-> Focused(world), workspace |-> world.where[Focused(world)]]
<1>1. PICK q \in Queries \ DOMAIN answers : answers' = Put(answers, q, value(q))
  BY DEF Answer
<1>2. /\ phase = "querying"
      /\ UNCHANGED <<engine, changes, greeted, world, opened, budget, stream, phase, buffer>>
  BY DEF Answer, vars, compositor
<1>3. value(q) \in Answers[q]
  <2>1. world \in Worlds
    BY DEF ReplicationInv, ReplicationTypes
  <2> QED
    BY <2>1, AnswerTypes DEF Queries
<1> HIDE DEF value
<1>4. \A x \in DOMAIN answers : answers[x] \in Answers[x]
  BY <1>2 DEF ReplicationInv, PhaseInv
<1>5. \A x \in DOMAIN answers' : answers'[x] \in Answers[x]
  BY <1>1, <1>3, <1>4 DEF Put
<1>6. PhaseInv'
  BY <1>2, <1>5 DEF ReplicationInv, PhaseInv, EmptyEngine
<1>7. ReplicationTypes'
  BY <1>2 DEF ReplicationInv, ReplicationTypes
<1>8. StreamTells' /\ GreetedConnects'
  BY <1>2 DEF ReplicationInv, StreamTells, GreetedConnects
<1> QED
  BY <1>6, <1>7, <1>8 DEF ReplicationInv

(* An event is buffered. *)
LEMMA BufferKeeps ==
    ASSUME ReplicationInv, BufferEvent
    PROVE  ReplicationInv'
<1>1. /\ phase = "querying" /\ stream # <<>>
      /\ buffer' = Append(buffer, Head(stream)) /\ stream' = Tail(stream)
      /\ UNCHANGED <<engine, changes, greeted, world, opened, budget, phase, answers>>
  BY DEF BufferEvent, vars, compositor
<1>2. stream \in Seq(Event) /\ buffer \in Seq(Event)
  BY DEF ReplicationInv, ReplicationTypes
<1>3. stream' \in Seq(Event) /\ buffer' \in Seq(Event)
  BY <1>1, <1>2, HeadTailProperties
<1>4. buffer' \o stream' = buffer \o stream
  BY <1>1, <1>2, BufferNext
<1>5. ReplicationTypes'
  BY <1>1, <1>3 DEF ReplicationInv, ReplicationTypes
<1>6. PhaseInv'
  BY <1>1 DEF ReplicationInv, PhaseInv, EmptyEngine
<1>7. StreamTells' /\ GreetedConnects'
  BY <1>1, <1>4 DEF ReplicationInv, StreamTells, GreetedConnects
<1> QED
  BY <1>5, <1>6, <1>7 DEF ReplicationInv

(* The replica is built and catches up with what was buffered. *)
LEMMA FinishKeeps ==
    ASSUME ReplicationInv, FinishBootstrap
    PROVE  ReplicationInv'
<1> DEFINE focused == answers["focused_window"]
           built == BuildInitial(answers["windows"], answers["workspaces"],
                                 focused.id, focused.workspace,
                                 engine.keyboard, engine.overview)
           base == Applied(built, {})
           replayed == FoldLeft(Replay, base, buffer)
<1>1. /\ phase = "querying" /\ DOMAIN answers = Queries
      /\ IF replayed.desync
         THEN phase' = "failed" /\ UNCHANGED vars
         ELSE /\ phase' = "live"
              /\ engine' = Bootstrapped(replayed.engine)
              /\ changes' = [cause |-> "bootstrap", domains |-> Domains]
      /\ answers' = <<>> /\ buffer' = <<>>
      /\ UNCHANGED <<greeted, world, opened, budget, stream>>
  BY DEF FinishBootstrap, compositor
<1>2. /\ engine = EmptyEngine
      /\ \A q \in Queries : answers[q] \in Answers[q]
      /\ stream \in Seq(Event) /\ buffer \in Seq(Event)
  BY <1>1 DEF ReplicationInv, PhaseInv, ReplicationTypes
<1>3. base \in Replays
  <2>1. /\ answers["workspaces"] \in Dict(Workspaces, Workspace)
        /\ answers["windows"] \in Dict(Windows, Window)
        /\ focused \in [id : Windows \cup {None}, workspace : Workspaces \cup {None}]
    <3>1. /\ "workspaces" \in Queries /\ "windows" \in Queries
          /\ "focused_window" \in Queries
      BY DEF Queries
    <3> QED
      BY <1>2, <3>1 DEF Answers
  <2>2. focused.id \in Windows \cup {None} /\ focused.workspace \in Workspaces \cup {None}
    BY <2>1
  <2> HIDE DEF focused
  <2> QED
    BY <1>2, <2>1, <2>2, BuiltReplays
<1>4. ~base.desync
  BY DEF Applied
<1> HIDE DEF base
<1>5. replayed \in Replays
  BY <1>2, <1>3, ReplayLeaves
<1>6. ASSUME greeted PROVE ~replayed.desync
  <2>1. Told(buffer \o stream, Ids(world))
    BY <1>1, <1>6 DEF ReplicationInv, StreamTells
  <2>2. \A n \in 1..Len(buffer) : \A x \in Needs(buffer[n]) : Known(buffer, n - 1, x)
    BY <1>2, <2>1, ToldStart
  <2> QED
    BY <1>2, <1>3, <1>4, <2>2, ReplayAccepts
<1> HIDE DEF replayed
<1>7. phase' = "live" => EngineInv'
  <2>1. SUFFICES ASSUME phase' = "live" PROVE EngineInv'
    OBVIOUS
  <2>2. /\ engine' = Bootstrapped(replayed.engine)
        /\ changes' = [cause |-> "bootstrap", domains |-> Domains]
    BY <1>1, <2>1
  <2>3. Publishable(engine')
    BY <1>5, <2>2, ReplayPublishes
  <2> QED
    BY <2>2, <2>3 DEF EngineInv
<1>8. ReplicationTypes'
  BY <1>1, EmptySeq DEF ReplicationInv, ReplicationTypes
<1>9. PhaseInv'
  BY <1>1, <1>7 DEF PhaseInv
<1>10. StreamTells' /\ GreetedConnects'
  BY <1>1, <1>6 DEF StreamTells, GreetedConnects
<1> QED
  BY <1>8, <1>9, <1>10 DEF ReplicationInv

(* The mutation loop handles an event. *)
LEMMA HandleKeeps ==
    ASSUME ReplicationInv, HandleEvent
    PROVE  ReplicationInv'
<1>1. /\ phase = "live" /\ stream # <<>>
      /\ Handle(Reduce(engine, Head(stream))) /\ stream' = Tail(stream)
      /\ UNCHANGED <<greeted, world, opened, budget, phase, answers, buffer>>
  BY DEF HandleEvent, compositor, bootstrap
<1>2. stream \in Seq(Event)
  BY DEF ReplicationInv, ReplicationTypes
<1>3. Head(stream) \in Event /\ stream' \in Seq(Event)
  BY <1>1, <1>2, HeadTailProperties
<1>4. EngineInv'
  <2>1. EngineInv
    BY <1>1 DEF ReplicationInv, PhaseInv
  <2> QED
    BY <1>1, <1>3, <2>1, HandlePublishes
<1>5. ReplicationTypes'
  BY <1>1, <1>3 DEF ReplicationInv, ReplicationTypes
<1>6. PhaseInv'
  BY <1>1, <1>4 DEF ReplicationInv, PhaseInv
<1>7. StreamTells' /\ GreetedConnects'
  BY <1>1 DEF StreamTells, GreetedConnects
<1> QED
  BY <1>5, <1>6, <1>7 DEF ReplicationInv

(* The invariant holds however queries, changes and events interleave. *)
LEMMA ReplicationInvariance == ReplicationSpec => []ReplicationInv
<1>1. ReplicationInv /\ [ReplicationNext]_allVars => ReplicationInv'
  <2>1. ASSUME ReplicationInv, ReplicationNext PROVE ReplicationInv'
    BY <2>1, ChangeKeeps, TouchKeeps, AnswerKeeps, BufferKeeps, FinishKeeps, HandleKeeps
    DEF ReplicationNext
  <2>2. ASSUME ReplicationInv, UNCHANGED allVars PROVE ReplicationInv'
    BY <2>2 DEF ReplicationInv, ReplicationTypes, PhaseInv, StreamTells, GreetedConnects,
       EngineInv, EmptyEngine, allVars, vars, compositor, bootstrap
  <2> QED
    BY <2>1, <2>2
<1> QED
  BY <1>1, ReplicationStarts, PTL DEF ReplicationSpec

-------------------------------------------------------------------------------
(* What it gives *)

\* The connection's variables hold what they should in each phase: while querying
\* the engine is untouched, afterwards no answer or event is left behind, and what
\* is published at the end of run_bootstrap and by the loop is well formed.
THEOREM ReplicationIsOK == ReplicationSpec => []ReplicationOK
<1>1. ReplicationInv => ReplicationOK
  BY WellFormed DEF ReplicationInv, ReplicationTypes, PhaseInv, ReplicationOK
<1> QED
  BY <1>1, ReplicationInvariance, PTL

\* A stream that starts with the full lists is replayed without a DesyncError over
\* any answers, however old or new each of them is: run_bootstrap never fails for
\* one (bootstrap.py, the replay of buffered_events).
THEOREM GreetedAlwaysConnects == ReplicationSpec => []GreetedConnects
<1>1. ReplicationInv => GreetedConnects
  BY DEF ReplicationInv
<1> QED
  BY <1>1, ReplicationInvariance, PTL

\* What a replica publishes over a compositor that keeps changing is as sound as
\* what it publishes over any events: references resolve, a repaired engine stays
\* as it is, an invalid one does not claim to be LIVE, the two focus fields agree.
THEOREM LiveIsSound ==
    ReplicationSpec =>
      [](phase = "live" =>
           ReferencesResolve /\ ReconcileIsStable /\ InvalidIsStale /\ FocusFollowsWindow)
<1>1. ReplicationInv =>
        (phase = "live" =>
           ReferencesResolve /\ ReconcileIsStable /\ InvalidIsStale /\ FocusFollowsWindow)
  BY Resolving, Stable, StaleIfInvalid, FocusAgreeing DEF ReplicationInv, PhaseInv
<1> QED
  BY <1>1, ReplicationInvariance, PTL

===============================================================================
