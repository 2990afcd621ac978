----------------------------- MODULE FlowDrafts -----------------------------
(***************************************************************************)
(* The flows a console edits: what each browser tab has drawn and not yet  *)
(* saved, the list of saved flows it last read, the storage the tabs of    *)
(* one browser share, and the server that every console saves to.          *)
(*                                                                         *)
(* A drawing is a value: two flows that say the same are the same drawing, *)
(* and a fingerprint is the drawing it was made of.  Whether a flow is     *)
(* switched on is no part of its drawing.                                  *)
(***************************************************************************)
EXTENDS Naturals, Sequences

CONSTANTS
  Flows, Tabs, Drawings,
  None,        \* nothing: no copy, no draft, no request
  Fresh,       \* the base of a flow started here, which the server never had
  Unread,      \* the list before its first answer
  OfDraft,     \* a refusal of a draft, as against one of the server's copy
  Whole,       \* the storage event that says all of it was cleared
  MaxHeard,    \* bound: storage events of a flow on their way to a tab
  MaxOthers    \* bound: changes made on other consoles

FlowDraftsAssumption ==
  /\ {None, Fresh, Unread, OfDraft, Whole} \cap Drawings = {}
  /\ None \notin {Fresh, Unread, OfDraft, Whole} /\ Fresh \notin {Unread, OfDraft, Whole}
  /\ Unread \notin {OfDraft, Whole} /\ OfDraft # Whole
  /\ None \notin Flows /\ MaxHeard \in Nat /\ MaxOthers \in Nat
  /\ None \notin [says : Drawings, on : BOOLEAN]
  /\ None \notin [says : Drawings, base : Drawings \union {Fresh}]

VARIABLES
  server,   \* the copy the server keeps of each flow
  kept,     \* localStorage: the draft under each flow's key
  full,     \* localStorage takes nothing more
  heard,    \* storage events of each flow on their way to each tab
  page,     \* each tab: its drafts, refusals, list, flow on screen and pick
  read,     \* each tab's read of the list that is out
  save,     \* each tab's save
  test,     \* each tab's press of Test
  del,      \* each tab's delete
  others,   \* how many changes other consoles made
  crossed   \* ghost: flows a tab wrote with another tab's write on its way to it

vars == <<server, kept, full, heard, page, read, save, test, del, others, crossed>>

Copy  == [says : Drawings, on : BOOLEAN] \union {None}
Draft == [says : Drawings, base : Drawings \union {Fresh}] \union {None}
Kinds == {"activate", "update", "deactivate"}
Lists == [Flows -> Copy]

Idle == [stage |-> "idle"]
-----------------------------------------------------------------------------
(* What a page makes of its drafts and its list.                           *)

\* How a draft stands against the server's copy.
StandingOf(draft, copy) ==
  LET now == IF copy = None THEN Fresh ELSE copy.says
  IN  IF draft.says = now THEN "nothing"
      ELSE IF draft.base = now THEN "changed"
      ELSE IF draft.base = draft.says THEN "nothing" ELSE "overtaken"

CopyOf(p, f) == IF p.list = Unread THEN None ELSE p.list[f]

Standing(p, f) == IF p.drafts[f] = None THEN "none" ELSE StandingOf(p.drafts[f], CopyOf(p, f))

\* The flows that have a tab, and the drawing each shows.
OnPage(p) == {f \in Flows : CopyOf(p, f) # None \/ p.drafts[f] # None}

Drawn(p, f) == IF p.drafts[f] # None THEN p.drafts[f].says
               ELSE IF CopyOf(p, f) # None THEN CopyOf(p, f).says ELSE None

Switched(p, f) == CopyOf(p, f) # None /\ CopyOf(p, f).on

\* The drawing that is on its way to the server keeps its draft.
Sending(t) == IF save[t].stage # "idle" /\ save[t].kind # "deactivate" THEN save[t].flow ELSE None

Busy(t) == save[t].stage # "idle" \/ test[t].stage # "idle"

\* Before anything is read, no flow is shown, and nothing can be done.
Shown(t, f) == page[t].list # Unread /\ page[t].current = f /\ f \in OnPage(page[t])
-----------------------------------------------------------------------------
(* The store, and the effects of the page that follow every change of it.  *)

Let(p, fs) == [p EXCEPT !.drafts = [f \in Flows |-> IF f \in fs THEN None ELSE @[f]],
                        !.refused = [f \in Flows |-> IF f \in fs THEN None ELSE @[f]]]

Discarded(p, f) == [Let(p, {f}) EXCEPT !.pick = IF p.current = f THEN None ELSE @]

Showing(p, f) == [p EXCEPT !.current = f, !.pick = None]

\* Files what the server refused of a drawing sent: nothing, when the draft has gone.
Refuse(p, f, says, drafted) ==
  IF drafted /\ p.drafts[f] = None THEN p
  ELSE [p EXCEPT !.refused[f] = IF drafted THEN OfDraft ELSE says]

Lapse(p, fs) == [p EXCEPT !.refused = [f \in Flows |-> IF f \in fs THEN None ELSE @[f]]]

\* Drafts that hold nothing of the reader's go; so do refusals of a copy that has gone.
Spent(p, sending) ==
  IF p.list = Unread THEN p
  ELSE LET q == Let(p, {f \in Flows \ {sending} : Standing(p, f) = "nothing"})
       IN  Lapse(q, {f \in Flows : /\ q.refused[f] \notin {None, OfDraft}
                                   /\ \/ q.list[f] = None
                                      \/ q.list[f].says # q.refused[f]})

\* With the flow on screen gone, the page shows another, and tells the store.
Screens(p) ==
  IF p.list = Unread \/ OnPage(p) = {} \/ p.current \in OnPage(p) THEN {p}
  ELSE {Showing(p, f) : f \in OnPage(p)}

\* Each draft that changed is written under its own key, if storage takes it, and every
\* other tab is told of a key that changed.
Write(t, was, p) ==
  LET now == [f \in Flows |-> IF p.drafts[f] # was[f] /\ (p.drafts[f] = None \/ ~full)
                              THEN p.drafts[f] ELSE kept[f]]
      wrote == {f \in Flows : now[f] # kept[f]}
      unkept == full /\ \E f \in Flows : p.drafts[f] # was[f] /\ p.drafts[f] # None
  IN  /\ kept' = now
      /\ \A u \in Tabs \ {t}, f \in wrote : Len(heard[u][f]) < MaxHeard
      /\ heard' = [u \in Tabs |-> [f \in Flows |->
                     IF u # t /\ f \in wrote THEN Append(heard[u][f], now[f])
                     ELSE heard[u][f]]]
      /\ crossed' = crossed \union {f \in wrote : heard[t][f] # <<>>}
      /\ page' = [page EXCEPT ![t] = [p EXCEPT !.unkept = @ \/ unkept]]

\* A tab's turn: what a handler made of the page, and the effects that follow the render.
Turn(t, p, sending) ==
  \E q \in Screens(Spent(p, sending)) : Write(t, page[t].drafts, q)

elsewhere == <<server, full, others>>
requests == <<read, save, test, del>>
-----------------------------------------------------------------------------
(* The reader.                                                             *)

Edit(t, d) ==
  \E f \in Flows :
    /\ Shown(t, f)
    /\ d # Drawn(page[t], f)
    /\ LET p == page[t]
           base == IF p.drafts[f] = None THEN p.list[f].says ELSE p.drafts[f].base
       IN  Turn(t, [p EXCEPT !.drafts[f] = [says |-> d, base |-> base]], Sending(t))
  /\ UNCHANGED <<elsewhere, requests>>

\* A new flow has an id nobody has.
NewFlow(t, d) ==
  /\ page[t].list # Unread
  /\ \E f \in Flows :
       /\ server[f] = None /\ kept[f] = None
       /\ \A u \in Tabs : /\ f \notin OnPage(page[u]) /\ heard[u][f] = <<>>
                          /\ save[u] = Idle /\ del[u] = Idle /\ test[u] = Idle
       /\ Turn(t, Showing([page[t] EXCEPT !.drafts[f] = [says |-> d, base |-> Fresh]], f),
               Sending(t))
  /\ UNCHANGED <<elsewhere, requests>>

Discard(t) ==
  /\ \E f \in Flows :
       /\ Shown(t, f)
       /\ \/ Standing(page[t], f) = "changed" /\ page[t].list[f] # None /\ ~Busy(t)
          \/ Standing(page[t], f) = "overtaken"
       /\ Turn(t, Discarded(page[t], f), Sending(t))
  /\ UNCHANGED <<elsewhere, requests>>

\* Keep mine: the draft counts as made on the copy the server has now.
Keep(t) ==
  /\ \E f \in Flows :
       /\ Shown(t, f) /\ Standing(page[t], f) = "overtaken"
       /\ LET copy == page[t].list[f]
          IN  Turn(t, [page[t] EXCEPT !.drafts[f].base = IF copy = None THEN Fresh ELSE copy.says],
                   Sending(t))
  /\ UNCHANGED <<elsewhere, requests>>

ShowFlow(t) ==
  /\ \E f \in OnPage(page[t]) \ {page[t].current} :
       /\ page[t].list # Unread
       /\ Turn(t, Showing(page[t], f), Sending(t))
  /\ UNCHANGED <<elsewhere, requests>>

\* A node or a wire of the flow on screen is picked, or nothing is.
Pick(t) ==
  /\ \E f \in Flows : /\ Shown(t, f)
                      /\ page' = [page EXCEPT ![t].pick = IF @ = f THEN None ELSE f]
  /\ UNCHANGED <<elsewhere, requests, kept, heard, crossed>>

\* The page is loaded again: what storage has, and nothing of what was out.
Reload(t) ==
  /\ page' = [page EXCEPT ![t] = [@ EXCEPT !.drafts = kept, !.refused = [f \in Flows |-> None],
                                          !.list = Unread, !.pick = None, !.unkept = FALSE]]
  /\ heard' = [heard EXCEPT ![t] = [f \in Flows |-> <<>>]]
  /\ read' = [read EXCEPT ![t] = Idle] /\ save' = [save EXCEPT ![t] = Idle]
  /\ test' = [test EXCEPT ![t] = Idle] /\ del' = [del EXCEPT ![t] = Idle]
  /\ UNCHANGED <<elsewhere, kept, crossed>>
-----------------------------------------------------------------------------
(* The other tab's writes, and storage.                                    *)

\* Mutant: a refusal outlives the draft another tab let go of.
HeardKeepingRefusal(p, f, e) == [p EXCEPT !.drafts[f] = IF e = Whole THEN kept[f] ELSE e]

\* What another tab wrote of a flow is taken in, and not written again; a refusal goes
\* with a draft that went.
Heard(p, f, e) ==
  LET d == IF e = Whole THEN kept[f] ELSE e
  IN  IF p.drafts[f] # None /\ d = None THEN Let(p, {f}) ELSE [p EXCEPT !.drafts[f] = d]

Hear(t, f) ==
  /\ heard[t][f] # <<>>
  /\ LET p == Heard(page[t], f, Head(heard[t][f]))
         rest == [heard EXCEPT ![t][f] = Tail(@)]
     IN  \E q \in Screens(Spent(p, Sending(t))) :
           LET spent == {g \in Flows : q.drafts[g] # p.drafts[g]}
               wrote == {g \in spent : kept[g] # None}
           IN  /\ page' = [page EXCEPT ![t] = q]
               /\ kept' = [g \in Flows |-> IF g \in spent THEN None ELSE kept[g]]
               /\ \A u \in Tabs \ {t}, g \in wrote : Len(heard[u][g]) < MaxHeard
               /\ heard' = [u \in Tabs |-> [g \in Flows |->
                              IF u # t /\ g \in wrote THEN Append(rest[u][g], None) ELSE rest[u][g]]]
               /\ crossed' = crossed \union {g \in wrote : rest[t][g] # <<>>}
  /\ UNCHANGED <<elsewhere, requests>>

StorageFills ==
  /\ ~full /\ full' = TRUE
  /\ UNCHANGED <<server, others, kept, heard, page, requests, crossed>>

\* The site's data is cleared.
StorageCleared ==
  /\ \E f \in Flows : kept[f] # None
  /\ \A t \in Tabs, f \in Flows : heard[t][f] = <<>>
  /\ kept' = [f \in Flows |-> None]
  /\ full' = FALSE
  /\ heard' = [t \in Tabs |-> [f \in Flows |-> <<Whole>>]]
  /\ UNCHANGED <<server, others, page, requests, crossed>>
-----------------------------------------------------------------------------
(* Reads of the list: the page's own, at any time.                         *)

StartRead(t) ==
  /\ read[t] = Idle
  /\ read' = [read EXCEPT ![t] = [stage |-> "out"]]
  /\ UNCHANGED <<elsewhere, kept, heard, page, save, test, del, crossed>>

ReadServed(t) ==
  /\ read[t].stage = "out"
  /\ read' = [read EXCEPT ![t] = [stage |-> "back", list |-> server]]
  /\ UNCHANGED <<elsewhere, kept, heard, page, save, test, del, crossed>>

ReadLands(t) ==
  /\ read[t].stage = "back"
  /\ Turn(t, [page[t] EXCEPT !.list = read[t].list], Sending(t))
  /\ read' = [read EXCEPT ![t] = Idle]
  /\ UNCHANGED <<elsewhere, save, test, del>>

ReadFails(t) ==
  /\ read[t].stage = "out"
  /\ read' = [read EXCEPT ![t] = Idle]
  /\ UNCHANGED <<elsewhere, kept, heard, page, save, test, del, crossed>>
-----------------------------------------------------------------------------
(* A save: the list is read, the press is weighed against it, and what is  *)
(* not held back is put.                                                   *)

Offered(t, kind, f) ==
  LET standing == Standing(page[t], f)
  IN  CASE kind = "activate"   -> ~Switched(page[t], f) /\ standing # "overtaken"
        [] kind = "update"     -> Switched(page[t], f) /\ standing = "changed"
        [] kind = "deactivate" -> Switched(page[t], f)

Press(t, kind) ==
  /\ ~Busy(t)
  /\ \E f \in Flows :
       /\ Shown(t, f) /\ Offered(t, kind, f)
       /\ save' = [save EXCEPT ![t] =
            [stage |-> "reading", flow |-> f, kind |-> kind, says |-> Drawn(page[t], f),
             drafted |-> page[t].drafts[f] # None,
             base |-> IF page[t].drafts[f] = None THEN Fresh ELSE page[t].drafts[f].base]]
  /\ UNCHANGED <<elsewhere, kept, heard, page, read, test, del, crossed>>

SaveReadServed(t) ==
  /\ save[t].stage = "reading"
  /\ save' = [save EXCEPT ![t] = [stage |-> "listed", flow |-> @.flow, kind |-> @.kind,
                                  says |-> @.says, drafted |-> @.drafted, base |-> @.base,
                                  list |-> server, raced |-> FALSE]]
  /\ UNCHANGED <<elsewhere, kept, heard, page, read, test, del, crossed>>

\* Without the server's copy there is no telling who was overtaken: nothing is sent.
SaveReadFails(t) ==
  /\ save[t].stage = "reading"
  /\ save' = [save EXCEPT ![t] = Idle]
  /\ Turn(t, page[t], None)
  /\ UNCHANGED <<elsewhere, read, test, del>>

\* Mutant: the copy just read is not weighed against the one drawn on.
WeighSwitchOnly(s, copy) ==
  IF s.kind = "deactivate"
  THEN IF copy # None /\ copy.on THEN [says |-> copy.says, on |-> FALSE] ELSE None
  ELSE IF s.kind = "update" /\ (copy = None \/ ~copy.on) THEN None ELSE [says |-> s.says, on |-> TRUE]

\* What is put of a press, or None for one held back.  A drawing goes only onto the copy
\* it was drawn on, and onto one switched as the press expects; Deactivate sends the copy
\* just read.
Weigh(s, copy) ==
  IF s.kind = "deactivate"
  THEN IF copy # None /\ copy.on THEN [says |-> copy.says, on |-> FALSE] ELSE None
  ELSE IF \/ s.drafted /\ StandingOf([says |-> s.says, base |-> s.base], copy) = "overtaken"
          \/ ~s.drafted /\ (copy = None \/ copy.says # s.says \/ (s.kind = "activate" /\ copy.on))
          \/ s.kind = "update" /\ (copy = None \/ ~copy.on)
       THEN None ELSE [says |-> s.says, on |-> TRUE]

\* The list just read goes on screen, and a read that set off before it is called off.
SaveReadLands(t) ==
  /\ save[t].stage = "listed"
  /\ LET s == save[t]
         sent == Weigh(s, s.list[s.flow])
         p == [page[t] EXCEPT !.list = s.list]
     IN  IF sent = None
         THEN save' = [save EXCEPT ![t] = Idle] /\ Turn(t, p, None)
         ELSE /\ save' = [save EXCEPT ![t] = [stage |-> "putting", flow |-> s.flow, kind |-> s.kind,
                            says |-> s.says, drafted |-> s.drafted, base |-> s.base,
                            sent |-> sent, raced |-> s.raced]]
              /\ Turn(t, p, Sending(t))
  /\ read' = [read EXCEPT ![t] = Idle]
  /\ UNCHANGED <<elsewhere, test, del>>

\* Saves that are out have been overtaken by a change of their flow.
Raced(f) ==
  [t \in Tabs |-> IF save[t].stage \in {"listed", "putting"} /\ save[t].flow = f
                  THEN [save[t] EXCEPT !.raced = TRUE] ELSE save[t]]

Answered(s, outcome) ==
  [stage |-> "answered", flow |-> s.flow, kind |-> s.kind, says |-> s.says,
   drafted |-> s.drafted, sent |-> s.sent, outcome |-> outcome]

\* The server keeps what was put, and its answer may be lost; it refuses it, or fails.
PutKept(t) ==
  /\ save[t].stage = "putting"
  /\ server' = [server EXCEPT ![save[t].flow] = save[t].sent]
  /\ \E outcome \in {"kept", "failed"} :
       save' = [Raced(save[t].flow) EXCEPT ![t] = Answered(save[t], outcome)]
  /\ UNCHANGED <<full, others, kept, heard, page, read, test, del, crossed>>

PutNotKept(t) ==
  /\ save[t].stage = "putting"
  /\ \E outcome \in {"refused", "failed"} :
       save' = [save EXCEPT ![t] = Answered(save[t], outcome)]
  /\ UNCHANGED <<elsewhere, kept, heard, page, read, test, del, crossed>>

PutInList(p, f, copy) == IF p.list = Unread THEN p ELSE [p EXCEPT !.list[f] = copy]

\* Mutant: what was typed while the request was out goes with the draft it was typed in.
SavedForgetting(p, s) ==
  LET q == PutInList(p, s.flow, s.sent) IN IF s.kind = "deactivate" THEN q ELSE Let(q, {s.flow})

\* What was typed while the request was out is an edit of the copy just kept.
Saved(p, s) ==
  LET q == PutInList(p, s.flow, s.sent)
      since == q.drafts[s.flow]
  IN  IF s.kind = "deactivate" THEN q
      ELSE IF since # None /\ since.says # s.says
           THEN [Let(q, {s.flow}) EXCEPT !.drafts[s.flow] =
                   [says |-> since.says, base |-> s.sent.says]]
           ELSE Let(q, {s.flow})

SaveLands(t) ==
  /\ save[t].stage = "answered"
  /\ LET s == save[t]
         p == CASE s.outcome = "kept" -> Saved(page[t], s)
                [] s.outcome = "refused" /\ s.kind # "deactivate" ->
                     Refuse(page[t], s.flow, s.says, s.drafted)
                [] OTHER -> page[t]
     IN  /\ Turn(t, p, None)
         /\ read' = IF s.outcome = "kept" THEN [read EXCEPT ![t] = Idle] ELSE read
  /\ save' = [save EXCEPT ![t] = Idle]
  /\ UNCHANGED <<elsewhere, test, del>>
-----------------------------------------------------------------------------
(* A test of the drawing on screen, which the server may refuse.           *)

PressTest(t) ==
  /\ ~Busy(t)
  /\ \E f \in Flows :
       /\ Shown(t, f)
       /\ test' = [test EXCEPT ![t] = [stage |-> "out", flow |-> f, says |-> Drawn(page[t], f),
                                       drafted |-> page[t].drafts[f] # None]]
  /\ UNCHANGED <<elsewhere, kept, heard, page, read, save, del, crossed>>

TestLands(t) ==
  /\ test[t].stage = "out"
  /\ LET s == test[t]
     IN  \E p \in {Lapse(page[t], {s.flow}), Refuse(page[t], s.flow, s.says, s.drafted), page[t]} :
           Turn(t, p, Sending(t))
  /\ test' = [test EXCEPT ![t] = Idle]
  /\ UNCHANGED <<elsewhere, read, save, del>>
-----------------------------------------------------------------------------
(* Delete.                                                                 *)

PressDelete(t) ==
  /\ del[t] = Idle
  /\ \E f \in Flows :
       /\ Shown(t, f)
       /\ del' = [del EXCEPT ![t] = [stage |-> "out", flow |-> f,
                                     deployed |-> page[t].list[f] # None]]
  /\ UNCHANGED <<elsewhere, kept, heard, page, read, save, test, crossed>>

\* The server forgets the flow, or has none, or fails: a flow it never had goes all the same.
DeleteServed(t) ==
  /\ del[t].stage = "out"
  /\ \/ /\ server' = [server EXCEPT ![del[t].flow] = None]
        /\ save' = IF server[del[t].flow] = None THEN save ELSE Raced(del[t].flow)
        /\ del' = [del EXCEPT ![t] = [stage |-> "gone", flow |-> @.flow]]
     \/ /\ del' = [del EXCEPT ![t] = IF @.deployed THEN Idle ELSE [stage |-> "gone", flow |-> @.flow]]
        /\ UNCHANGED <<server, save>>
  /\ UNCHANGED <<full, others, kept, heard, page, read, test, crossed>>

DeleteLands(t) ==
  /\ del[t].stage = "gone"
  /\ LET f == del[t].flow
     IN  Turn(t, Discarded(PutInList(page[t], f, None), f), Sending(t))
  /\ read' = [read EXCEPT ![t] = Idle]
  /\ del' = [del EXCEPT ![t] = Idle]
  /\ UNCHANGED <<elsewhere, save, test>>
-----------------------------------------------------------------------------
(* Other consoles, which save, switch and delete flows.                    *)

OtherChanges(f, copy) ==
  /\ others < MaxOthers
  /\ server[f] # copy
  /\ server[f] # None \/ \E t \in Tabs : page[t].list # Unread /\ page[t].list[f] # None
  /\ server' = [server EXCEPT ![f] = copy]
  /\ save' = Raced(f)
  /\ others' = others + 1
  /\ UNCHANGED <<full, kept, heard, page, read, test, del, crossed>>
-----------------------------------------------------------------------------
Init ==
  /\ server \in [Flows -> {c \in Copy : c = None \/ c.on}]
  /\ kept = [f \in Flows |-> None] /\ full = FALSE
  /\ heard = [t \in Tabs |-> [f \in Flows |-> <<>>]]
  /\ page = [t \in Tabs |-> [drafts |-> [f \in Flows |-> None], refused |-> [f \in Flows |-> None],
                            list |-> Unread, current |-> None, pick |-> None, unkept |-> FALSE]]
  /\ read = [t \in Tabs |-> Idle] /\ save = [t \in Tabs |-> Idle]
  /\ test = [t \in Tabs |-> Idle] /\ del = [t \in Tabs |-> Idle]
  /\ others = 0 /\ crossed = {}

Reader(t) ==
  \/ \E d \in Drawings : Edit(t, d) \/ NewFlow(t, d)
  \/ Discard(t) \/ Keep(t) \/ ShowFlow(t) \/ Pick(t) \/ Reload(t)

Presses(t) == PressTest(t) \/ PressDelete(t) \/ \E kind \in Kinds : Press(t, kind)

Reads(t) == StartRead(t) \/ ReadServed(t) \/ ReadLands(t) \/ ReadFails(t)

Saves(t) ==
  SaveReadServed(t) \/ SaveReadFails(t) \/ SaveReadLands(t) \/ PutKept(t) \/ PutNotKept(t) \/ SaveLands(t)

Rest(t) == TestLands(t) \/ DeleteServed(t) \/ DeleteLands(t) \/ \E f \in Flows : Hear(t, f)

Environment ==
  StorageFills \/ StorageCleared \/ \E f \in Flows, copy \in Copy : OtherChanges(f, copy)

Next == Environment \/ \E t \in Tabs : Reader(t) \/ Presses(t) \/ Reads(t) \/ Saves(t) \/ Rest(t)

Spec == Init /\ [][Next]_vars
-----------------------------------------------------------------------------
Page == [drafts : [Flows -> Draft], refused : [Flows -> Drawings \union {None, OfDraft}],
         list : Lists \union {Unread}, current : Flows \union {None},
         pick : Flows \union {None}, unkept : BOOLEAN]

\* Every field holds a value of its kind.
TypeOK ==
  /\ server \in [Flows -> Copy] /\ kept \in [Flows -> Draft] /\ full \in BOOLEAN
  /\ heard \in [Tabs -> [Flows -> Seq(Draft \union {Whole})]]
  /\ page \in [Tabs -> Page]
  /\ others \in 0..MaxOthers /\ crossed \in SUBSET Flows

\* What the server refused is marked on something that is there: on the draft it was about,
\* or on the very copy of the server's it was of (flowDraftStore refuse, settle and hear;
\* FlowsPage's lapse).
RefusalsHaveTheirSubject ==
  \A t \in Tabs, f \in Flows :
    LET r == page[t].refused[f]
    IN  CASE r = None -> TRUE
          [] r = OfDraft -> page[t].drafts[f] # None
          [] OTHER -> page[t].list # Unread => page[t].list[f] # None /\ page[t].list[f].says = r

\* Flows share node ids, so a pick must never outlive the flow it was made in: what is
\* picked is in the flow on screen.
PickIsOnScreen ==
  \A t \in Tabs : LET p == page[t]
                  IN  p.pick # None /\ p.list # Unread /\ OnPage(p) # {} => p.pick = p.current

\* Tabs of one browser come to the same drafts once each has heard what the other wrote:
\* unless two writes of one flow passed each other, or storage would not take one.
TabsAgree ==
  \A t \in Tabs, f \in Flows :
    \/ f \in crossed \/ page[t].drafts[f] = kept[f]
    \/ heard[t][f] # <<>> \/ \E u \in Tabs : page[u].unkept

\* Whoever takes a draft with changes off the screen: its reader, or another tab's write.
Dismissed(t) ==
  \/ Discard(t) \/ DeleteLands(t) \/ Reload(t) \/ (\E d \in Drawings : Edit(t, d))
  \/ \E f \in Flows : Hear(t, f)

KeptOf(t, f) == save[t].stage = "answered" /\ save[t].outcome = "kept" /\ Sending(t) = f

\* What a reader has changed stays on screen through every save, read and refusal, theirs
\* or another console's, until they discard it or delete the flow: a draft goes only
\* when what is shown in its place says the same (FlowsPage's settle, useSave).
ChangesStayOnScreen ==
  [][\A t \in Tabs, f \in Flows :
       /\ page[t].drafts[f] # None
       /\ Standing(page[t], f) # "nothing" \/ KeptOf(t, f)
       => \/ Drawn(page'[t], f) = Drawn(page[t], f)
          \/ page'[t].list = Unread
          \/ Dismissed(t)]_vars

\* A save replaces only the copy its drawing was made on, and only a flow switched as its
\* button said - unless somebody else saved it between the save's read and its put.
NoBlindOverwrite ==
  [][\A t \in Tabs :
       PutKept(t) /\ ~save[t].raced =>
         LET s == save[t]
             was == server[s.flow]
         IN  CASE s.kind = "deactivate" -> was # None /\ was.says = server'[s.flow].says
               [] s.kind = "update" -> was # None /\ was.on /\ was.says \in {s.base, s.says}
               [] OTHER -> IF s.drafted THEN was = None \/ was.says \in {s.base, s.says}
                           ELSE was # None /\ ~was.on /\ was.says = s.says]_vars
=============================================================================
