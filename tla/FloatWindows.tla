---------------------------- MODULE FloatWindows ----------------------------
(* The windows a reader floats over the console, and the chart thrown open over  *)
(* it: where each stands against the viewport, how its bar and its corner move   *)
(* and size it, and what a change of the viewport does to all of them            *)
(* (features/monitor/floating.ts, useWindows.ts, useZoom.ts, Windows.tsx).       *)
(*                                                                               *)
(* The array of windows is the z-order. A drag reads the box at the grab and     *)
(* offers a place once per frame: what the pointer asks for and what the store   *)
(* holds are two things until the frame comes, and the viewport can change       *)
(* between. The reader has a pointer and a keyboard, so a press on a control may *)
(* come while the bar is held.                                                   *)
(*                                                                               *)
(* The rule pane is left out: nothing opens one any more (Windows.tsx:317).      *)
EXTENDS Integers, Sequences, SequencesExt

CONSTANTS
    Messages,          \* the arrivals that can be opened
    MinW, MinH,        \* the least a window can be sized to
    HeldPx,            \* how much of one stays on screen
    Snap,              \* how near an edge it takes that edge
    Step,              \* an arrow key
    Viewports,         \* the sizes the browser's window can have
    Pulls,             \* the distances a pointer can be from its grab
    None,
    MaxWindows,        \* bound: windows opened
    MaxMoves           \* bound: drags, keys and viewport changes

VARIABLES
    view,      \* the viewport
    windows,   \* back to front
    zoom,      \* the chart thrown open
    grabbed,   \* what a pointer went down on, and the box it had, or None
    frame,     \* the newest place offered and not yet applied, or None
    count,     \* the last window's number
    moves

vars == <<view, windows, zoom, grabbed, frame, count, moves>>

ASSUME FloatAssumption ==
    /\ {MinW, MinH, HeldPx, Snap, Step} \subseteq Nat
    /\ HeldPx + Snap <= MinW
    /\ \A v \in Viewports : v.w \in Nat /\ v.h \in Nat /\ v.w >= HeldPx /\ v.h >= HeldPx
    /\ \A p \in Pulls : p[1] \in Int /\ p[2] \in Int

-----------------------------------------------------------------------------
(* Boxes, against a viewport v (floating.ts).                                  *)

Larger(a, b)  == IF a >= b THEN a ELSE b
Smaller(a, b) == IF a <= b THEN a ELSE b

\* Half of n to the nearest whole one, halves upward.
Half(n) == (n + 1) \div 2

\* Three fifths of the viewport, never under the floor, centred.
OpeningBox(v) ==
    LET w == Larger((6 * v.w + 5) \div 10, MinW)
        h == Larger((6 * v.h + 5) \div 10, MinH)
    IN  [x |-> Half(v.w - w), y |-> Half(v.h - h), w |-> w, h |-> h]

FullBox(v) == [x |-> 0, y |-> 0, w |-> v.w, h |-> v.h]

Clamp(value, low, high) == Smaller(Larger(value, low), Larger(low, high))

Near(value, edge) == value - edge <= Snap /\ edge - value <= Snap

\* Brought near an edge, a window takes it exactly: each axis on its own.
Docked(at, size, room) ==
    IF Near(at, 0) THEN 0 ELSE IF Near(at, room - size) THEN room - size ELSE at

\* A window may hang off an edge, but never so far that its bar is out of reach.
OnScreen(b, v) == [x |-> Clamp(b.x, HeldPx - b.w, v.w - HeldPx),
                   y |-> Clamp(b.y, 0, v.h - HeldPx), w |-> b.w, h |-> b.h]

Moved(b, d, v) == OnScreen([x |-> Docked(b.x + d[1], b.w, v.w),
                            y |-> Docked(b.y + d[2], b.h, v.h), w |-> b.w, h |-> b.h], v)

\* Sized by the grip: the near corner stays and the far edges settle onto the viewport's.
Grown(at, size, least, room) ==
    LET to == Clamp(size, least, room - at)
    IN  IF Near(at + to, room) THEN room - at ELSE to

Sized(b, d, v) == [x |-> b.x, w |-> Grown(b.x, b.w + d[1], MinW, v.w),
                   y |-> b.y, h |-> Grown(b.y, b.h + d[2], MinH, v.h)]

\* The two ways a handle applies a distance.
Apply(handle, b, d, v) == IF handle = "bar" THEN Moved(b, d, v) ELSE Sized(b, d, v)

\* Mutant: a window is sized for the new viewport and left where it was.
SettledInPlace(b, v) == Sized(b, <<0, 0>>, v)

Settled(b, v) == Moved(Sized(b, <<0, 0>>, v), <<0, 0>>, v)

-----------------------------------------------------------------------------
(* The stack.                                                                  *)

Init == /\ view \in Viewports
        /\ windows = <<>> /\ count = 0
        /\ zoom = [id |-> 0, zoomed |-> FALSE, box |-> None, full |-> FALSE, wasAt |-> None]
        /\ grabbed = None /\ frame = None /\ moves = 0

Ids == {windows[i].id : i \in DOMAIN windows}
Standing == Ids \cup (IF zoom.zoomed THEN {0} ELSE {})
At(id) == CHOOSE i \in DOMAIN windows : windows[i].id = id
Of(id) == IF id = 0 THEN zoom ELSE windows[At(id)]

\* The window at i, as w, to the end of the run, which is the top of the stack.
Raised(i, w) == Append(RemoveAt(windows, i), w)

Opens(pane, box) ==
    /\ count < MaxWindows
    /\ count' = count + 1
    /\ windows' = Append(windows, [id |-> count + 1, pane |-> pane, box |-> box,
                                   fixed |-> TRUE, full |-> FALSE, wasAt |-> None])

\* An arrival pressed: its window comes forward, or a new one opens in the middle.
OpenMessage(m) ==
    /\ \/ \E i \in DOMAIN windows : /\ windows[i].pane = m
                                    /\ windows' = Raised(i, windows[i])
          /\ UNCHANGED count
       \/ /\ \A i \in DOMAIN windows : windows[i].pane # m
          /\ Opens(m, OpeningBox(view))
    /\ UNCHANGED <<view, zoom, grabbed, frame, moves>>

Shut == [zoom EXCEPT !.zoomed = FALSE, !.full = FALSE, !.wasAt = None]

\* A handle that is taken away takes its drag and its frame with it.
Unmounts(id) ==
    /\ grabbed' = IF grabbed # None /\ grabbed.id = id THEN None ELSE grabbed
    /\ frame' = IF frame # None /\ frame.id = id THEN None ELSE frame

\* The chart thrown open, always in the standard place; and the way back.
Toggle == /\ ~zoom.zoomed
          /\ zoom' = [zoom EXCEPT !.zoomed = TRUE, !.box = OpeningBox(view)]
          /\ UNCHANGED <<view, windows, grabbed, frame, count, moves>>

\* Its pin: a window opens where it stands, and it goes back to its column.
Keep == /\ zoom.zoomed
        /\ Opens("chart", Moved(zoom.box, <<0, 0>>, view))
        /\ zoom' = Shut /\ Unmounts(0)
        /\ UNCHANGED <<view, moves>>

Close(id) ==
    /\ IF id = 0 THEN zoom' = Shut /\ UNCHANGED windows
       ELSE windows' = RemoveAt(windows, At(id)) /\ UNCHANGED zoom
    /\ Unmounts(id)
    /\ UNCHANGED <<view, count, moves>>

\* Escape shuts the chart thrown open, or else the window on top.
EscapeFromZoom == zoom.zoomed /\ Close(0)
EscapeTop      == ~zoom.zoomed /\ windows # <<>> /\ Close(Last(windows).id)

\* A window as w, which comes forward: a press or the focus anywhere in it does that.
Touch(id, w) == IF id = 0 THEN zoom' = w /\ UNCHANGED windows
                ELSE windows' = Raised(At(id), w) /\ UNCHANGED zoom

\* Out to the whole viewport, and back to where it stood.
Filling(w) == [w EXCEPT !.full = TRUE, !.wasAt = w.box, !.box = FullBox(view)]
PutBack(w) == [w EXCEPT !.full = FALSE, !.wasAt = None,
                        !.box = IF w.wasAt # None THEN w.wasAt ELSE w.box]

Swell(id) ==
    /\ Touch(id, IF Of(id).full THEN PutBack(Of(id)) ELSE Filling(Of(id)))
    /\ UNCHANGED <<view, grabbed, frame, count, moves>>

\* The pin of a window, which is gone while it fills the screen.
Fix(id) == /\ id # 0 /\ ~Of(id).full
           /\ Touch(id, [Of(id) EXCEPT !.fixed = ~@])
           /\ UNCHANGED <<view, grabbed, frame, count, moves>>

-----------------------------------------------------------------------------
(* The handles (useFloating).                                                  *)

\* Pinned, or filling the screen, a window has no handles.
HeldStill(id) == Of(id).full \/ (id # 0 /\ Of(id).fixed)

\* A pointer goes down on the bar or the grip: one at a time for each window.
Take(id, handle) ==
    /\ ~HeldStill(id) /\ grabbed = None
    /\ grabbed' = [id |-> id, handle |-> handle, from |-> Of(id).box]
    /\ Touch(id, Of(id))
    /\ UNCHANGED <<view, frame, count, moves>>

\* It moves: the place it asks for is offered to the next frame, over any older one.
Drag(d) ==
    /\ moves < MaxMoves /\ moves' = moves + 1
    /\ grabbed # None /\ ~HeldStill(grabbed.id)
    /\ frame' = [id |-> grabbed.id, box |-> Apply(grabbed.handle, grabbed.from, d, view)]
    /\ UNCHANGED <<view, windows, zoom, grabbed, count>>

\* It comes up over the handle. Over a handle that was taken away meanwhile nobody hears it.
Drop == /\ grabbed # None /\ ~HeldStill(grabbed.id)
        /\ grabbed' = None
        /\ UNCHANGED <<view, windows, zoom, frame, count, moves>>

\* A window is put somewhere, wherever it is in the stack.
Place(id, b) ==
    IF id = 0 THEN zoom' = [zoom EXCEPT !.box = b] /\ UNCHANGED windows
    ELSE /\ windows' = [i \in DOMAIN windows |->
                           IF windows[i].id = id THEN [windows[i] EXCEPT !.box = b] ELSE windows[i]]
         /\ UNCHANGED zoom

\* The frame comes: the newest place offered is where the window stands.
Frame == /\ frame # None
         /\ Place(frame.id, frame.box)
         /\ frame' = None
         /\ UNCHANGED <<view, grabbed, count, moves>>

\* An arrow key on a handle that has the focus.
Nudge(id, handle, d) ==
    /\ moves < MaxMoves /\ moves' = moves + 1
    /\ ~HeldStill(id)
    /\ Touch(id, [Of(id) EXCEPT !.box = Apply(handle, @, d, view)])
    /\ UNCHANGED <<view, grabbed, frame, count>>

\* The viewport changes: what fills the screen follows it, and everything else settles.
Follow(w, v) == [w EXCEPT !.box = IF w.full THEN FullBox(v) ELSE Settled(@, v)]
Resize(v) ==
    /\ moves < MaxMoves /\ moves' = moves + 1
    /\ v # view /\ view' = v
    /\ windows' = [i \in DOMAIN windows |-> Follow(windows[i], v)]
    /\ zoom' = IF zoom.zoomed THEN Follow(zoom, v) ELSE zoom
    /\ UNCHANGED <<grabbed, frame, count>>

-----------------------------------------------------------------------------

Nudges == {<<Step, 0>>, <<-Step, 0>>, <<0, Step>>, <<0, -Step>>}

Stack == \/ \E m \in Messages : OpenMessage(m)
         \/ Toggle \/ Keep \/ EscapeFromZoom \/ EscapeTop
         \/ \E id \in Standing : Close(id) \/ Swell(id) \/ Fix(id)
Handles == \/ \E id \in Standing, h \in {"bar", "grip"} :
                 Take(id, h) \/ \E d \in Nudges : Nudge(id, h, d)
           \/ \E d \in Pulls : Drag(d)
           \/ Drop \/ Frame

Next == Stack \/ Handles \/ \E v \in Viewports : Resize(v)

Spec == Init /\ [][Next]_vars

-----------------------------------------------------------------------------
(* Properties.                                                                 *)

\* There is enough of the window on screen to get hold of its bar.
InReach(b, v) == /\ b.x <= v.w - HeldPx /\ b.x + b.w >= HeldPx
                 /\ 0 <= b.y /\ b.y <= v.h - HeldPx

\* Every window of the stack ws, and the chart z if it is thrown open, is in reach.
AllInReach(ws, z, v) == /\ \A i \in DOMAIN ws : InReach(ws[i].box, v)
                        /\ z.zoomed => InReach(z.box, v)

\* Every change of the viewport leaves every window with a bar the reader can take hold
\* of, wherever drags, keys, swells and earlier viewports had put it.
ResizeBringsBack == [][view' # view => AllInReach(windows', zoom', view')]_vars

\* Opening, touching and closing windows never changes which of two others is in front.
StackKeepsOrder ==
    [][\A i, j \in DOMAIN windows, k, l \in DOMAIN windows' :
          (/\ i < j /\ windows[i].id = windows'[k].id /\ windows[j].id = windows'[l].id)
             => (k < l \/ k = Len(windows'))]_vars

\* A window on screen always has its bar within reach.
BarInReach == AllInReach(windows, zoom, view)
=============================================================================
