----------------------------- MODULE FlowsProofs ----------------------------
(***************************************************************************)
(* Proofs about the flow page, for every value of the constants: the       *)
(* drafts of flows and their saves (FlowDrafts), that a save is put only   *)
(* on the copy its drawing was made on and that nothing changed is lost;   *)
(* and what a flow's Test and Stop reach (FlowTests).  The properties are  *)
(* the ones MCFlows states, and each specification is the component's own, *)
(* with none of the parts TLC runs it in.                                  *)
(***************************************************************************)
EXTENDS MCFlows, TLAPS

\* What is out for a tab: its read of the list, its save, its test and its delete.
Reads == {D!Idle} \cup [stage : {"out"}] \cup [stage : {"back"}, list : D!Lists]
Tests == {D!Idle} \cup [stage : {"out"}, flow : Flows, says : Drawings, drafted : BOOLEAN]
Deletes == {D!Idle} \cup [stage : {"out"}, flow : Flows, deployed : BOOLEAN]
           \cup [stage : {"gone"}, flow : Flows]

Kept == [says : Drawings, on : BOOLEAN]
Pressed == [stage : {"reading"}, flow : Flows, kind : D!Kinds, says : Drawings, drafted : BOOLEAN,
            base : Drawings \cup {Fresh}]
Listed == [stage : {"listed"}, flow : Flows, kind : D!Kinds, says : Drawings, drafted : BOOLEAN,
           base : Drawings \cup {Fresh}, list : D!Lists, raced : BOOLEAN]
Putting == [stage : {"putting"}, flow : Flows, kind : D!Kinds, says : Drawings, drafted : BOOLEAN,
            base : Drawings \cup {Fresh}, sent : Kept, raced : BOOLEAN]
Ended == [stage : {"answered"}, flow : Flows, kind : D!Kinds, says : Drawings, drafted : BOOLEAN,
          sent : Kept, outcome : {"kept", "refused", "failed"}]
Saves == {D!Idle} \cup Pressed \cup Listed \cup Putting \cup Ended

RequestTypes ==
  /\ read \in [Tabs -> Reads] /\ save \in [Tabs -> Saves]
  /\ test \in [Tabs -> Tests] /\ del \in [Tabs -> Deletes]

\* With no save out, a draft on a page that has been read holds something of its reader's: the
\* page lets go of the ones that hold nothing.
NothingIdle(p) == p.list # Unread => \A f \in Flows : p.drafts[f] # None => D!Standing(p, f) # "nothing"

DraftsHold == \A t \in Tabs : save[t].stage = "idle" => NothingIdle(page[t])

\* The copy a drawing may be put onto: the one it was made on, or one that says the same.
Onto(s, was) ==
  CASE s.kind = "deactivate" -> was # None /\ was.says = s.sent.says
    [] s.kind = "update" -> was # None /\ was.on /\ was.says \in {s.base, s.says}
    [] OTHER -> IF s.drafted THEN was = None \/ was.says \in {s.base, s.says}
                ELSE was # None /\ ~was.on /\ was.says = s.says

\* A save nobody has raced still knows the server's copy, from its read to its put; a draft
\* pressed says something else than its base, and what is put of it says what was pressed.
SaveKnows(s, copies) ==
  /\ s.stage \in {"reading", "listed", "putting"} /\ s.drafted => s.base # s.says
  /\ s.stage = "listed" /\ ~s.raced => copies[s.flow] = s.list[s.flow]
  /\ s.stage = "putting" /\ ~s.raced => Onto(s, copies[s.flow])
  /\ s.stage \in {"putting", "answered"} /\ s.kind # "deactivate" => s.sent.says = s.says

SavesKnow == \A t \in Tabs : SaveKnows(save[t], server)

DraftsInv == D!TypeOK /\ RequestTypes /\ DraftsHold /\ SavesKnow

-----------------------------------------------------------------------------
(* What the store and the page's effects make of a page.                     *)

\* A page that lets drafts go is a page, and keeps the others and its list.
LEMMA LetGo ==
  ASSUME NEW p \in D!Page, NEW fs
  PROVE  /\ D!Let(p, fs) \in D!Page /\ D!Let(p, fs).list = p.list
         /\ D!Let(p, fs).current = p.current /\ D!Let(p, fs).pick = p.pick
         /\ D!Let(p, fs).unkept = p.unkept
         /\ \A f \in Flows :
              /\ D!Let(p, fs).drafts[f] = IF f \in fs THEN None ELSE p.drafts[f]
              /\ D!Let(p, fs).refused[f] = IF f \in fs THEN None ELSE p.refused[f]
  <1>. DEFINE d == [f \in Flows |-> IF f \in fs THEN None ELSE p.drafts[f]]
              r == [f \in Flows |-> IF f \in fs THEN None ELSE p.refused[f]]
  <1>1. d \in [Flows -> D!Draft] /\ r \in [Flows -> Drawings \cup {None, OfDraft}]
    BY DEF D!Page, D!Draft
  <1>2. D!Let(p, fs) = [p EXCEPT !.drafts = d, !.refused = r]
    BY DEF D!Let
  <1>3. \A f \in Flows : /\ d[f] = IF f \in fs THEN None ELSE p.drafts[f]
                         /\ r[f] = IF f \in fs THEN None ELSE p.refused[f]
    OBVIOUS
  <1>. HIDE DEF d, r
  <1>4. /\ D!Let(p, fs).drafts = d /\ D!Let(p, fs).refused = r /\ D!Let(p, fs).list = p.list
        /\ D!Let(p, fs).current = p.current /\ D!Let(p, fs) \in D!Page
        /\ D!Let(p, fs).pick = p.pick /\ D!Let(p, fs).unkept = p.unkept
    BY <1>1, <1>2 DEF D!Page
  <1>. QED  BY <1>3, <1>4

LEMMA DiscardedIsAPage ==
  ASSUME NEW p \in D!Page, NEW f \in Flows
  PROVE  D!Discarded(p, f) \in D!Page
  <1>1. D!Let(p, {f}) \in D!Page
    BY LetGo
  <1>2. \A r \in D!Page : [r EXCEPT !.pick = IF p.current = f THEN None ELSE @] \in D!Page
    BY DEF D!Page
  <1>. QED  BY <1>1, <1>2 DEF D!Discarded

\* The same of refusals that lapse.
LEMMA Lapses ==
  ASSUME NEW p \in D!Page, NEW fs
  PROVE  /\ D!Lapse(p, fs) \in D!Page /\ D!Lapse(p, fs).list = p.list
         /\ D!Lapse(p, fs).drafts = p.drafts /\ D!Lapse(p, fs).current = p.current
         /\ D!Lapse(p, fs).pick = p.pick /\ D!Lapse(p, fs).unkept = p.unkept
         /\ \A f \in Flows : D!Lapse(p, fs).refused[f] = IF f \in fs THEN None ELSE p.refused[f]
  <1>. DEFINE r == [f \in Flows |-> IF f \in fs THEN None ELSE p.refused[f]]
  <1>1. r \in [Flows -> Drawings \cup {None, OfDraft}]
    BY DEF D!Page
  <1>2. D!Lapse(p, fs) = [p EXCEPT !.refused = r]
    BY DEF D!Lapse
  <1>3. \A f \in Flows : r[f] = IF f \in fs THEN None ELSE p.refused[f]
    OBVIOUS
  <1>. HIDE DEF r
  <1>. QED  BY <1>1, <1>2, <1>3 DEF D!Page

\* What a page makes of a refusal.
LEMMA Refuses ==
  ASSUME NEW p \in D!Page, NEW f \in Flows, NEW says \in Drawings, NEW drafted \in BOOLEAN
  PROVE  /\ D!Refuse(p, f, says, drafted) \in D!Page
         /\ D!Refuse(p, f, says, drafted).list = p.list
         /\ D!Refuse(p, f, says, drafted).drafts = p.drafts
  BY DEF D!Refuse, D!Page

\* A page that shows a flow, or takes a draft of it.
LEMMA Shows ==
  ASSUME NEW p \in D!Page, NEW f \in Flows
  PROVE  /\ D!Showing(p, f) \in D!Page /\ D!Showing(p, f).list = p.list
         /\ D!Showing(p, f).drafts = p.drafts
         /\ \A d \in D!Draft : [p EXCEPT !.drafts[f] = d] \in D!Page
  BY DEF D!Showing, D!Page

\* How a draft stands is its own and the list's alone.
LEMMA StandsAlike ==
  ASSUME NEW p, NEW q, NEW f \in Flows, p.list = q.list, p.drafts[f] = q.drafts[f]
  PROVE  D!Standing(p, f) = D!Standing(q, f)
  BY DEF D!Standing, D!CopyOf

\* Once the effects have run, no draft stands for nothing but the one on its way.
LEMMA Spends ==
  ASSUME NEW p \in D!Page, NEW sending
  PROVE  /\ D!Spent(p, sending) \in D!Page /\ D!Spent(p, sending).list = p.list
         /\ p.list # Unread =>
              \A f \in Flows \ {sending} :
                D!Spent(p, sending).drafts[f] # None => D!Standing(D!Spent(p, sending), f) # "nothing"
  <1>1. CASE p.list = Unread
    BY <1>1 DEF D!Spent
  <1>2. CASE p.list # Unread
    <2>. DEFINE fs == {f \in Flows \ {sending} : D!Standing(p, f) = "nothing"}
                q == D!Let(p, fs)
                gs == {f \in Flows : /\ q.refused[f] \notin {None, OfDraft}
                                     /\ \/ q.list[f] = None
                                        \/ q.list[f].says # q.refused[f]}
    <2>1. D!Spent(p, sending) = D!Lapse(q, gs)
      BY <1>2 DEF D!Spent
    <2>2. /\ q \in D!Page /\ q.list = p.list
          /\ \A f \in Flows : q.drafts[f] = IF f \in fs THEN None ELSE p.drafts[f]
      BY LetGo
    <2>3. \A f \in Flows \ {sending} : f \notin fs => D!Standing(p, f) # "nothing"
      OBVIOUS
    <2>. HIDE DEF fs, q, gs
    <2>4. /\ D!Lapse(q, gs) \in D!Page /\ D!Lapse(q, gs).list = q.list
          /\ D!Lapse(q, gs).drafts = q.drafts
      BY <2>2, Lapses
    <2>5. \A f \in Flows \ {sending} :
            D!Lapse(q, gs).drafts[f] # None => D!Standing(D!Lapse(q, gs), f) # "nothing"
      <3>. SUFFICES ASSUME NEW f \in Flows \ {sending}, D!Lapse(q, gs).drafts[f] # None
                    PROVE  D!Standing(D!Lapse(q, gs), f) # "nothing"
        OBVIOUS
      <3>1. f \notin fs /\ q.drafts[f] = p.drafts[f]
        BY <2>2, <2>4
      <3>2. D!Standing(D!Lapse(q, gs), f) = D!Standing(p, f)
        BY <2>2, <2>4, <3>1, StandsAlike
      <3>. QED  BY <2>3, <3>1, <3>2
    <2>. QED  BY <2>1, <2>2, <2>4, <2>5
  <1>. QED  BY <1>1, <1>2

\* So does whatever the page then shows.
LEMMA Screened ==
  ASSUME NEW p \in D!Page, NEW sending, NEW q \in D!Screens(D!Spent(p, sending))
  PROVE  /\ q \in D!Page /\ q.list = p.list
         /\ p.list # Unread =>
              \A f \in Flows \ {sending} : q.drafts[f] # None => D!Standing(q, f) # "nothing"
  <1>. DEFINE r == D!Spent(p, sending)
  <1>1. /\ r \in D!Page /\ r.list = p.list
        /\ p.list # Unread =>
             \A f \in Flows \ {sending} : r.drafts[f] # None => D!Standing(r, f) # "nothing"
    BY Spends
  <1>. HIDE DEF r
  <1>2. q = r \/ \E f \in Flows : q = D!Showing(r, f)
    BY DEF D!Screens, D!OnPage, r
  <1>3. q \in D!Page /\ q.list = r.list /\ q.drafts = r.drafts
    BY <1>1, <1>2, Shows
  <1>4. \A f \in Flows : D!Standing(q, f) = D!Standing(r, f)
    BY <1>3, StandsAlike
  <1>. QED  BY <1>1, <1>3, <1>4

-----------------------------------------------------------------------------
(* A tab's turn.                                                             *)

StoreTypes ==
  /\ kept \in [Flows -> D!Draft]
  /\ heard \in [Tabs -> [Flows -> Seq(D!Draft \cup {Whole})]]
  /\ page \in [Tabs -> D!Page] /\ crossed \in SUBSET Flows

ServerTypes == server \in [Flows -> D!Copy] /\ full \in BOOLEAN /\ others \in 0..MaxOthers

\* What a tab writes leaves every other tab's page as it was, and its own as its effects left it.
LEMMA Writes ==
  ASSUME StoreTypes, full \in BOOLEAN, NEW t \in Tabs, NEW was, NEW q \in D!Page, D!Write(t, was, q)
  PROVE  /\ StoreTypes' /\ page'[t].list = q.list /\ page'[t].drafts = q.drafts
         /\ \A u \in Tabs \ {t} : page'[u] = page[u]
  <1>. DEFINE now == [f \in Flows |-> IF q.drafts[f] # was[f] /\ (q.drafts[f] = None \/ ~full)
                                      THEN q.drafts[f] ELSE kept[f]]
              wrote == {f \in Flows : now[f] # kept[f]}
              unkept == full /\ \E f \in Flows : q.drafts[f] # was[f] /\ q.drafts[f] # None
              r == [q EXCEPT !.unkept = @ \/ unkept]
  <1>1. now \in [Flows -> D!Draft] /\ wrote \subseteq Flows /\ unkept \in BOOLEAN
    BY DEF StoreTypes, D!Page
  <1>2. /\ kept' = now
        /\ heard' = [u \in Tabs |-> [f \in Flows |->
                       IF u # t /\ f \in wrote THEN Append(heard[u][f], now[f]) ELSE heard[u][f]]]
        /\ crossed' = crossed \cup {f \in wrote : heard[t][f] # <<>>}
        /\ page' = [page EXCEPT ![t] = r]
    BY DEF D!Write
  <1>. HIDE DEF now, wrote, unkept
  <1>3. r \in D!Page /\ r.list = q.list /\ r.drafts = q.drafts
    BY <1>1 DEF D!Page
  <1>. HIDE DEF r
  <1>4. heard' \in [Tabs -> [Flows -> Seq(D!Draft \cup {Whole})]]
    <2>1. \A u \in Tabs, f \in Flows : heard[u][f] \in Seq(D!Draft \cup {Whole})
      BY DEF StoreTypes
    <2>2. \A u \in Tabs, f \in Flows : Append(heard[u][f], now[f]) \in Seq(D!Draft \cup {Whole})
      BY <1>1, <2>1
    <2>. QED  BY <1>2, <2>1, <2>2
  <1>5. page' \in [Tabs -> D!Page] /\ page'[t] = r /\ \A u \in Tabs \ {t} : page'[u] = page[u]
    BY <1>2, <1>3 DEF StoreTypes
  <1>6. crossed' \in SUBSET Flows /\ kept' \in [Flows -> D!Draft]
    BY <1>1, <1>2 DEF StoreTypes
  <1>. QED  BY <1>3, <1>4, <1>5, <1>6 DEF StoreTypes

\* A turn keeps the types and leaves no draft that stands for nothing but the one on its way.
LEMMA Turns ==
  ASSUME StoreTypes, full \in BOOLEAN, NEW t \in Tabs, NEW p \in D!Page, NEW sending,
         D!Turn(t, p, sending)
  PROVE  /\ StoreTypes' /\ \A u \in Tabs \ {t} : page'[u] = page[u]
         /\ sending \notin Flows => NothingIdle(page'[t])
  <1>1. PICK q \in D!Screens(D!Spent(p, sending)) : D!Write(t, page[t].drafts, q)
    BY DEF D!Turn
  <1>2. /\ q \in D!Page /\ q.list = p.list
        /\ p.list # Unread =>
             \A f \in Flows \ {sending} : q.drafts[f] # None => D!Standing(q, f) # "nothing"
    BY Screened
  <1>3. /\ StoreTypes' /\ page'[t].list = q.list /\ page'[t].drafts = q.drafts
        /\ \A u \in Tabs \ {t} : page'[u] = page[u]
    BY <1>1, <1>2, Writes
  <1>4. ASSUME sending \notin Flows
        PROVE  NothingIdle(page'[t])
    <2>1. \A f \in Flows : D!Standing(page'[t], f) = D!Standing(q, f)
      BY <1>3, StandsAlike
    <2>. QED  BY <1>2, <1>3, <1>4, <2>1 DEF NothingIdle
  <1>. QED  BY <1>3, <1>4

\* A tab with no save out has nothing on its way.
LEMMA NothingSent ==
  ASSUME NEW t \in Tabs, save[t].stage = "idle"
  PROVE  D!Sending(t) \notin Flows
  BY FlowsAssumption DEF D!Sending, D!FlowDraftsAssumption

\* What each request holds, by its stage.
LEMMA SaveAt ==
  ASSUME RequestTypes, NEW t \in Tabs
  PROVE  /\ save[t] \in Saves
         /\ save[t].stage = "reading" => save[t] \in Pressed
         /\ save[t].stage = "listed" => save[t] \in Listed
         /\ save[t].stage = "putting" => save[t] \in Putting
         /\ save[t].stage = "answered" => save[t] \in Ended
         /\ save[t].stage \in {"idle", "reading", "listed", "putting", "answered"}
  <1>1. save[t] \in Saves
    BY DEF RequestTypes
  <1>. QED  BY <1>1 DEF Saves, Pressed, Listed, Putting, Ended, D!Idle

LEMMA RequestAt ==
  ASSUME RequestTypes, NEW t \in Tabs
  PROVE  /\ test[t].stage = "out" => test[t].flow \in Flows /\ test[t].says \in Drawings
                                    /\ test[t].drafted \in BOOLEAN
         /\ read[t].stage = "back" => read[t].list \in D!Lists
         /\ del[t].stage \in {"out", "gone"} => del[t].flow \in Flows
  <1>1. test[t] \in Tests /\ read[t] \in Reads /\ del[t] \in Deletes
    BY DEF RequestTypes
  <1>2. test[t].stage = "out" => test[t].flow \in Flows /\ test[t].says \in Drawings
                               /\ test[t].drafted \in BOOLEAN
    BY <1>1 DEF Tests, D!Idle
  <1>3. read[t].stage = "back" => read[t].list \in D!Lists
    BY <1>1 DEF Reads, D!Idle
  <1>4. del[t].stage \in {"out", "gone"} => del[t].flow \in Flows
    BY <1>1 DEF Deletes, D!Idle
  <1>. QED  BY <1>2, <1>3, <1>4

-----------------------------------------------------------------------------
(* The steps.                                                                *)

\* The types in the parts the steps move.
LEMMA TypesInParts ==
  /\ D!TypeOK <=> ServerTypes /\ StoreTypes
  /\ D!TypeOK' <=> ServerTypes' /\ StoreTypes'
  BY DEF D!TypeOK, ServerTypes, StoreTypes

\* A turn of one tab keeps the invariant, with what it makes of that tab's save.
LEMMA TurnKeeps ==
  ASSUME DraftsInv, NEW t \in Tabs, NEW p \in D!Page, NEW sending, D!Turn(t, p, sending),
         UNCHANGED D!elsewhere, RequestTypes', NEW s, save' = [save EXCEPT ![t] = s],
         s.stage = "idle" => sending \notin Flows,
         SaveKnows(s, server)
  PROVE  DraftsInv'
  <1>1. ServerTypes' /\ server' = server /\ full \in BOOLEAN /\ StoreTypes
    BY TypesInParts DEF DraftsInv, ServerTypes, D!elsewhere
  <1>2. /\ StoreTypes' /\ \A u \in Tabs \ {t} : page'[u] = page[u]
        /\ sending \notin Flows => NothingIdle(page'[t])
    BY <1>1, Turns
  <1>3. save'[t] = s /\ \A u \in Tabs \ {t} : save'[u] = save[u]
    BY DEF DraftsInv, RequestTypes
  <1>4. DraftsHold'
    <2>. SUFFICES ASSUME NEW u \in Tabs, save'[u].stage = "idle"
                  PROVE  NothingIdle(page'[u])
      BY DEF DraftsHold, NothingIdle, D!Standing, D!StandingOf, D!CopyOf
    <2>1. CASE u = t
      BY <1>2, <1>3, <2>1
    <2>2. CASE u # t
      BY <1>2, <1>3, <2>2 DEF DraftsInv, DraftsHold
    <2>. QED  BY <2>1, <2>2
  <1>5. SavesKnow'
    <2>. SUFFICES ASSUME NEW u \in Tabs  PROVE SaveKnows(save'[u], server')
      BY DEF SavesKnow
    <2>1. CASE u = t
      BY <1>1, <1>3, <2>1 DEF SaveKnows
    <2>2. CASE u # t
      BY <1>1, <1>3, <2>2 DEF DraftsInv, SavesKnow, SaveKnows
    <2>. QED  BY <2>1, <2>2
  <1>. QED  BY <1>1, <1>2, <1>4, <1>5, TypesInParts DEF DraftsInv

\* One that leaves every save alone.
LEMMA TurnAlone ==
  ASSUME DraftsInv, NEW t \in Tabs, NEW p \in D!Page, D!Turn(t, p, D!Sending(t)),
         UNCHANGED <<D!elsewhere, save>>, RequestTypes'
  PROVE  DraftsInv'
  <1>1. save' = [save EXCEPT ![t] = save[t]]
    BY DEF DraftsInv, RequestTypes
  <1>2. SaveKnows(save[t], server)
    BY DEF DraftsInv, SavesKnow
  <1>3. save[t].stage = "idle" => D!Sending(t) \notin Flows
    BY NothingSent
  <1>4. UNCHANGED D!elsewhere
    OBVIOUS
  <1>. QED  BY <1>1, <1>2, <1>3, <1>4, TurnKeeps

\* A step of no server and no save, that moves no draft and no list of a page.
LEMMA StayKeeps ==
  ASSUME DraftsInv, UNCHANGED <<server, save>>, full' \in BOOLEAN, others' \in 0..MaxOthers,
         StoreTypes', RequestTypes',
         \A u \in Tabs : page'[u].list = page[u].list /\ page'[u].drafts = page[u].drafts
  PROVE  DraftsInv'
  <1>1. \A u \in Tabs, g \in Flows : D!Standing(page'[u], g) = D!Standing(page[u], g)
    BY StandsAlike
  <1>2. DraftsHold'
    <2>. SUFFICES ASSUME NEW u \in Tabs, save'[u].stage = "idle"
                  PROVE  NothingIdle(page'[u])
      BY DEF DraftsHold, NothingIdle, D!Standing, D!StandingOf, D!CopyOf
    <2>1. NothingIdle(page[u])
      BY DEF DraftsInv, DraftsHold
    <2>. QED  BY <1>1, <2>1 DEF NothingIdle
  <1>3. SavesKnow'
    BY DEF DraftsInv, SavesKnow, SaveKnows
  <1>4. ServerTypes'
    BY TypesInParts DEF DraftsInv, ServerTypes
  <1>. QED  BY <1>2, <1>3, <1>4, TypesInParts DEF DraftsInv

\* The reader's hand on a page.
LEMMA ReaderKeeps ==
  ASSUME DraftsInv, NEW t \in Tabs, D!Reader(t)
  PROVE  DraftsInv'
  <1>1. page[t] \in D!Page
    BY TypesInParts DEF DraftsInv, StoreTypes
  <1>2. ASSUME NEW p \in D!Page, D!Turn(t, p, D!Sending(t)), UNCHANGED <<D!elsewhere, D!requests>>
        PROVE  DraftsInv'
    <2>1. RequestTypes' /\ UNCHANGED <<D!elsewhere, save>>
      BY <1>2 DEF DraftsInv, RequestTypes, D!requests
    <2>. QED  BY <1>2, <2>1, TurnAlone
  <1>3. ASSUME NEW d \in Drawings, D!Edit(t, d)
        PROVE  DraftsInv'
    <2>. DEFINE b(f) == IF page[t].drafts[f] = None THEN page[t].list[f].says
                        ELSE page[t].drafts[f].base
                p(f) == [page[t] EXCEPT !.drafts[f] = [says |-> d, base |-> b(f)]]
    <2>1. PICK f \in Flows : D!Shown(t, f) /\ D!Turn(t, p(f), D!Sending(t))
      BY <1>3 DEF D!Edit
    <2>2. b(f) \in Drawings \cup {Fresh}
      <3>1. page[t].drafts[f] \in D!Draft /\ page[t].list \in D!Lists
        BY <1>1, <2>1 DEF D!Page, D!Shown
      <3>2. page[t].list[f] \in D!Copy
        BY <3>1 DEF D!Lists
      <3>3. page[t].drafts[f] = None => page[t].list[f] # None
        BY <2>1 DEF D!Shown, D!OnPage, D!CopyOf
      <3>. QED  BY <3>1, <3>2, <3>3 DEF D!Draft, D!Copy
    <2>3. [says |-> d, base |-> b(f)] \in D!Draft
      BY <2>2 DEF D!Draft
    <2>4. p(f) \in D!Page
      BY <1>1, <2>3, Shows
    <2>5. UNCHANGED <<D!elsewhere, D!requests>>
      BY <1>3 DEF D!Edit
    <2>. HIDE DEF p
    <2>. QED  BY <1>2, <2>1, <2>4, <2>5
  <1>4. ASSUME NEW d \in Drawings, D!NewFlow(t, d)
        PROVE  DraftsInv'
    <2>. DEFINE q(f) == [page[t] EXCEPT !.drafts[f] = [says |-> d, base |-> Fresh]]
    <2>1. PICK f \in Flows : D!Turn(t, D!Showing(q(f), f), D!Sending(t))
      BY <1>4 DEF D!NewFlow
    <2>2. [says |-> d, base |-> Fresh] \in D!Draft
      BY DEF D!Draft
    <2>3. q(f) \in D!Page
      BY <1>1, <2>2, Shows
    <2>. HIDE DEF q
    <2>4. D!Showing(q(f), f) \in D!Page
      BY <2>3, Shows
    <2>5. UNCHANGED <<D!elsewhere, D!requests>>
      BY <1>4 DEF D!NewFlow
    <2>. QED  BY <1>2, <2>1, <2>4, <2>5
  <1>5. CASE D!Discard(t)
    <2>1. PICK f \in Flows : D!Turn(t, D!Discarded(page[t], f), D!Sending(t))
      BY <1>5 DEF D!Discard
    <2>. QED  BY <1>1, <1>2, <1>5, <2>1, DiscardedIsAPage DEF D!Discard
  <1>6. CASE D!Keep(t)
    <2>. DEFINE b(f) == IF page[t].list[f] = None THEN Fresh ELSE page[t].list[f].says
                p(f) == [page[t] EXCEPT !.drafts[f].base = b(f)]
    <2>1. PICK f \in Flows : /\ D!Shown(t, f) /\ D!Standing(page[t], f) = "overtaken"
                             /\ D!Turn(t, p(f), D!Sending(t))
      BY <1>6 DEF D!Keep
    <2>2. page[t].drafts[f] # None /\ page[t].list \in D!Lists
      BY <1>1, <2>1 DEF D!Standing, D!Shown, D!Page
    <2>3. b(f) \in Drawings \cup {Fresh}
      BY <2>2 DEF D!Lists, D!Copy
    <2>4. page[t].drafts[f] \in [says : Drawings, base : Drawings \cup {Fresh}]
      BY <1>1, <2>2 DEF D!Page, D!Draft
    <2>. HIDE DEF b
    <2>5. [page[t].drafts[f] EXCEPT !.base = b(f)] \in D!Draft
      BY <2>3, <2>4 DEF D!Draft
    <2>6. p(f) \in D!Page
      <3>1. p(f) = [page[t] EXCEPT !.drafts[f] = [page[t].drafts[f] EXCEPT !.base = b(f)]]
        BY <1>1 DEF D!Page
      <3>. QED  BY <1>1, <2>5, <3>1, Shows
    <2>7. UNCHANGED <<D!elsewhere, D!requests>>
      BY <1>6 DEF D!Keep
    <2>. HIDE DEF p
    <2>. QED  BY <1>2, <2>1, <2>6, <2>7
  <1>7. CASE D!ShowFlow(t)
    <2>1. PICK f \in Flows : D!Turn(t, D!Showing(page[t], f), D!Sending(t))
      BY <1>7 DEF D!ShowFlow, D!OnPage
    <2>2. D!Showing(page[t], f) \in D!Page
      BY <1>1, Shows
    <2>3. UNCHANGED <<D!elsewhere, D!requests>>
      BY <1>7 DEF D!ShowFlow
    <2>. QED  BY <1>2, <2>1, <2>2, <2>3
  <1>8. CASE D!Pick(t)
    <2>1. PICK f \in Flows : page' = [page EXCEPT ![t].pick = IF @ = f THEN None ELSE f]
      BY <1>8 DEF D!Pick
    <2>2. UNCHANGED <<server, full, others, read, save, test, del, kept, heard, crossed>>
      BY <1>8 DEF D!Pick, D!elsewhere, D!requests
    <2>. DEFINE q == [page[t] EXCEPT !.pick = IF page[t].pick = f THEN None ELSE f]
    <2>3. q \in D!Page /\ q.list = page[t].list /\ q.drafts = page[t].drafts
      BY <1>1 DEF D!Page
    <2>4. page \in [Tabs -> D!Page]
      BY TypesInParts DEF DraftsInv, StoreTypes
    <2>5. page' = [page EXCEPT ![t] = q]
      BY <2>1, <2>4
    <2>. HIDE DEF q
    <2>6. /\ page' \in [Tabs -> D!Page]
          /\ \A u \in Tabs : page'[u].list = page[u].list /\ page'[u].drafts = page[u].drafts
      BY <2>3, <2>4, <2>5
    <2>7. StoreTypes' /\ RequestTypes' /\ full' \in BOOLEAN /\ others' \in 0..MaxOthers
      BY <2>2, <2>6, TypesInParts DEF DraftsInv, StoreTypes, ServerTypes, RequestTypes
    <2>. QED  BY <2>2, <2>6, <2>7, StayKeeps
  <1>9. CASE D!Reload(t)
    <2>1. /\ page' = [page EXCEPT ![t] = [@ EXCEPT !.drafts = kept, !.refused = [f \in Flows |-> None],
                                          !.list = Unread, !.pick = None, !.unkept = FALSE]]
          /\ heard' = [heard EXCEPT ![t] = [f \in Flows |-> <<>>]]
          /\ read' = [read EXCEPT ![t] = D!Idle] /\ save' = [save EXCEPT ![t] = D!Idle]
          /\ test' = [test EXCEPT ![t] = D!Idle] /\ del' = [del EXCEPT ![t] = D!Idle]
          /\ UNCHANGED <<server, full, others, kept, crossed>>
      BY <1>9 DEF D!Reload, D!elsewhere
    <2>. DEFINE q == [page[t] EXCEPT !.drafts = kept, !.refused = [f \in Flows |-> None],
                                     !.list = Unread, !.pick = None, !.unkept = FALSE]
    <2>2. StoreTypes
      BY TypesInParts DEF DraftsInv
    <2>3. q \in D!Page /\ q.list = Unread
      BY <1>1, <2>2 DEF D!Page, StoreTypes
    <2>4. page' = [page EXCEPT ![t] = q]
      BY <2>1, <2>2 DEF StoreTypes
    <2>. HIDE DEF q
    <2>5. [f \in Flows |-> <<>>] \in [Flows -> Seq(D!Draft \cup {Whole})]
      OBVIOUS
    <2>6. StoreTypes'
      BY <2>1, <2>2, <2>3, <2>4, <2>5 DEF StoreTypes
    <2>7. ServerTypes'
      BY <2>1, TypesInParts DEF DraftsInv, ServerTypes
    <2>8. RequestTypes'
      BY <2>1 DEF DraftsInv, RequestTypes, Reads, Saves, Tests, Deletes
    <2>9. page'[t].list = Unread /\ \A u \in Tabs \ {t} : page'[u] = page[u] /\ save'[u] = save[u]
      BY <2>1, <2>2, <2>3, <2>4 DEF StoreTypes, DraftsInv, RequestTypes
    <2>10. DraftsHold'
      <3>. SUFFICES ASSUME NEW u \in Tabs, save'[u].stage = "idle"
                    PROVE  NothingIdle(page'[u])
        BY DEF DraftsHold, NothingIdle, D!Standing, D!StandingOf, D!CopyOf
      <3>1. CASE u = t
        BY <2>9, <3>1 DEF NothingIdle
      <3>2. CASE u # t
        BY <2>9, <3>2 DEF DraftsInv, DraftsHold
      <3>. QED  BY <3>1, <3>2
    <2>11. save'[t] = D!Idle
      BY <2>1 DEF DraftsInv, RequestTypes
    <2>12. SavesKnow'
      <3>. SUFFICES ASSUME NEW u \in Tabs  PROVE SaveKnows(save'[u], server')
        BY DEF SavesKnow
      <3>1. CASE u = t
        BY <2>11, <3>1 DEF SaveKnows, D!Idle
      <3>2. CASE u # t
        BY <2>1, <2>9, <3>2 DEF DraftsInv, SavesKnow, SaveKnows
      <3>. QED  BY <3>1, <3>2
    <2>. QED  BY <2>6, <2>7, <2>8, <2>10, <2>12, TypesInParts DEF DraftsInv
  <1>. QED
    BY <1>3, <1>4, <1>5, <1>6, <1>7, <1>8, <1>9 DEF D!Reader

-----------------------------------------------------------------------------
(* The steps that move a save, or the server, and no page.                   *)

LEMMA SavesMove ==
  ASSUME DraftsInv, UNCHANGED page, StoreTypes', ServerTypes', RequestTypes',
         \A u \in Tabs : /\ save'[u].stage = "idle" => save[u].stage = "idle"
                         /\ SaveKnows(save'[u], server')
  PROVE  DraftsInv'
  <1>1. DraftsHold'
    <2>. SUFFICES ASSUME NEW u \in Tabs, save'[u].stage = "idle"
                  PROVE  NothingIdle(page'[u])
      BY DEF DraftsHold, NothingIdle, D!Standing, D!StandingOf, D!CopyOf
    <2>. QED  BY DEF DraftsInv, DraftsHold
  <1>. QED  BY <1>1, TypesInParts DEF DraftsInv, SavesKnow

\* One tab's save moves on, and nothing else.
LEMMA SaveMoves ==
  ASSUME DraftsInv, NEW t \in Tabs, NEW s \in Saves, s.stage # "idle", SaveKnows(s, server),
         save' = [save EXCEPT ![t] = s],
         UNCHANGED <<D!elsewhere, kept, heard, page, read, test, del, crossed>>
  PROVE  DraftsInv'
  <1>1. UNCHANGED <<server, full, others, kept, heard, page, read, test, del, crossed>>
    BY DEF D!elsewhere
  <1>2. StoreTypes' /\ ServerTypes'
    BY <1>1, TypesInParts DEF DraftsInv, StoreTypes, ServerTypes
  <1>3. RequestTypes'
    BY <1>1 DEF DraftsInv, RequestTypes
  <1>4. save'[t] = s /\ \A u \in Tabs \ {t} : save'[u] = save[u]
    BY DEF DraftsInv, RequestTypes
  <1>5. \A u \in Tabs : /\ save'[u].stage = "idle" => save[u].stage = "idle"
                        /\ SaveKnows(save'[u], server')
    BY <1>1, <1>4 DEF DraftsInv, SavesKnow
  <1>. QED  BY <1>1, <1>2, <1>3, <1>5, SavesMove

\* Once a flow's copy changes, every save of it that knew the old one is marked.
LEMMA RacedSaves ==
  ASSUME DraftsInv, NEW f \in Flows, NEW c
  PROVE  /\ D!Raced(f) \in [Tabs -> Saves]
         /\ \A u \in Tabs : /\ D!Raced(f)[u].stage = save[u].stage
                            /\ SaveKnows(D!Raced(f)[u], [server EXCEPT ![f] = c])
  <1>. SUFFICES ASSUME NEW u \in Tabs
                PROVE  /\ D!Raced(f)[u] \in Saves /\ D!Raced(f)[u].stage = save[u].stage
                       /\ SaveKnows(D!Raced(f)[u], [server EXCEPT ![f] = c])
    BY DEF D!Raced
  <1>. DEFINE s == save[u]
              r == [s EXCEPT !.raced = TRUE]
  <1>1. /\ s \in Saves /\ SaveKnows(s, server)
        /\ s.stage = "listed" => s \in Listed
        /\ s.stage = "putting" => s \in Putting
    BY SaveAt DEF DraftsInv, SavesKnow
  <1>2. D!Raced(f)[u] = IF s.stage \in {"listed", "putting"} /\ s.flow = f THEN r ELSE s
    BY DEF D!Raced
  <1>3. CASE s.stage \in {"listed", "putting"} /\ s.flow = f
    <2>1. r \in Saves /\ r.stage = s.stage /\ r.raced /\ r.drafted = s.drafted
          /\ r.base = s.base /\ r.says = s.says /\ r.kind = s.kind
          /\ (s.stage = "putting" => r.sent = s.sent)
      BY <1>1, <1>3 DEF Saves, Listed, Putting
    <2>. HIDE DEF r
    <2>2. s.stage = "putting" /\ s.kind # "deactivate" => s.sent.says = s.says
      BY <1>1 DEF SaveKnows
    <2>3. s.drafted => s.base # s.says
      BY <1>1, <1>3 DEF SaveKnows
    <2>4. /\ r.drafted => r.base # r.says
          /\ r.stage = "putting" /\ r.kind # "deactivate" => r.sent.says = r.says
          /\ r.raced /\ r.stage # "answered"
      BY <1>3, <2>1, <2>2, <2>3
    <2>5. SaveKnows(r, [server EXCEPT ![f] = c])
      BY <2>4 DEF SaveKnows
    <2>. QED  BY <1>2, <1>3, <2>1, <2>5
  <1>4. CASE ~(s.stage \in {"listed", "putting"} /\ s.flow = f)
    <2>1. server \in [Flows -> D!Copy]
      BY TypesInParts DEF DraftsInv, ServerTypes
    <2>2. s.stage \in {"listed", "putting"} => s.flow \in Flows
      BY <1>1 DEF Listed, Putting
    <2>3. s.stage \in {"listed", "putting"} => [server EXCEPT ![f] = c][s.flow] = server[s.flow]
      BY <1>4, <2>1, <2>2
    <2>. QED  BY <1>1, <1>2, <1>4, <2>3 DEF SaveKnows
  <1>. QED  BY <1>3, <1>4

\* Test, Delete and the buttons of a save.
LEMMA PressesKeep ==
  ASSUME DraftsInv, NEW t \in Tabs, D!Presses(t)
  PROVE  DraftsInv'
  <1>1. page[t] \in D!Page
    BY TypesInParts DEF DraftsInv, StoreTypes
  <1>2. \A f \in Flows :
          D!Shown(t, f) => D!Drawn(page[t], f) \in Drawings
    <2>. SUFFICES ASSUME NEW f \in Flows, D!Shown(t, f)  PROVE D!Drawn(page[t], f) \in Drawings
      OBVIOUS
    <2>1. page[t].drafts[f] \in D!Draft /\ page[t].list \in D!Lists
      BY <1>1 DEF D!Page, D!Shown
    <2>2. page[t].list[f] \in D!Copy /\ D!CopyOf(page[t], f) = page[t].list[f]
      BY <2>1 DEF D!Lists, D!Shown, D!CopyOf
    <2>3. page[t].drafts[f] # None \/ page[t].list[f] # None
      BY <2>2 DEF D!Shown, D!OnPage
    <2>. QED  BY <2>1, <2>2, <2>3 DEF D!Drawn, D!Draft, D!Copy
  <1>3. CASE D!PressTest(t)
    <2>1. PICK f \in Flows :
            /\ D!Shown(t, f)
            /\ test' = [test EXCEPT ![t] = [stage |-> "out", flow |-> f, says |-> D!Drawn(page[t], f),
                                            drafted |-> page[t].drafts[f] # None]]
      BY <1>3 DEF D!PressTest
    <2>2. UNCHANGED <<server, full, others, kept, heard, page, read, save, del, crossed>>
      BY <1>3 DEF D!PressTest, D!elsewhere
    <2>3. RequestTypes'
      <3>1. D!Drawn(page[t], f) \in Drawings
        BY <1>2, <2>1
      <3>2. [stage |-> "out", flow |-> f, says |-> D!Drawn(page[t], f),
             drafted |-> page[t].drafts[f] # None] \in Tests
        BY <3>1 DEF Tests
      <3>. QED  BY <2>1, <2>2, <3>2 DEF DraftsInv, RequestTypes
    <2>. QED  BY <2>2, <2>3, StayKeeps, TypesInParts DEF DraftsInv, StoreTypes, ServerTypes
  <1>4. CASE D!PressDelete(t)
    <2>1. PICK f \in Flows :
            del' = [del EXCEPT ![t] = [stage |-> "out", flow |-> f,
                                       deployed |-> page[t].list[f] # None]]
      BY <1>4 DEF D!PressDelete
    <2>2. UNCHANGED <<server, full, others, kept, heard, page, read, save, test, crossed>>
      BY <1>4 DEF D!PressDelete, D!elsewhere
    <2>3. RequestTypes'
      BY <2>1, <2>2 DEF DraftsInv, RequestTypes, Deletes
    <2>. QED  BY <2>2, <2>3, StayKeeps, TypesInParts DEF DraftsInv, StoreTypes, ServerTypes
  <1>5. ASSUME NEW kind \in D!Kinds, D!Press(t, kind)
        PROVE  DraftsInv'
    <2>. DEFINE b(f) == IF page[t].drafts[f] = None THEN Fresh ELSE page[t].drafts[f].base
                s(f) == [stage |-> "reading", flow |-> f, kind |-> kind, says |-> D!Drawn(page[t], f),
                         drafted |-> page[t].drafts[f] # None, base |-> b(f)]
    <2>1. PICK f \in Flows : D!Shown(t, f) /\ save' = [save EXCEPT ![t] = s(f)]
      BY <1>5 DEF D!Press
    <2>2. UNCHANGED <<D!elsewhere, kept, heard, page, read, test, del, crossed>>
      BY <1>5 DEF D!Press
    <2>3. page[t].drafts[f] \in D!Draft /\ page[t].list # Unread
      BY <1>1, <2>1 DEF D!Page, D!Shown
    <2>4. b(f) \in Drawings \cup {Fresh}
      BY <2>3 DEF D!Draft
    <2>5. s(f) \in Saves
      BY <1>2, <2>1, <2>4 DEF Saves, Pressed
    <2>6. page[t].drafts[f] # None => b(f) # D!Drawn(page[t], f)
      <3>1. NothingIdle(page[t])
        BY <1>5 DEF DraftsInv, DraftsHold, D!Press, D!Busy
      <3>2. page[t].drafts[f] # None => D!Standing(page[t], f) # "nothing"
        BY <2>3, <3>1 DEF NothingIdle
      <3>. QED  BY <3>2 DEF D!Standing, D!StandingOf, D!Drawn
    <2>7. SaveKnows(s(f), server) /\ s(f).stage # "idle"
      BY <2>6 DEF SaveKnows
    <2>. HIDE DEF s
    <2>. QED  BY <2>1, <2>2, <2>5, <2>7, SaveMoves
  <1>. QED  BY <1>3, <1>4, <1>5 DEF D!Presses

-----------------------------------------------------------------------------
(* Reads of the list, and saves.                                             *)

\* A page with another list, or with one flow of it changed, is a page.
LEMMA Relists ==
  ASSUME NEW p \in D!Page
  PROVE  /\ \A list \in D!Lists : [p EXCEPT !.list = list] \in D!Page
         /\ \A f \in Flows, copy \in D!Copy :
              /\ D!PutInList(p, f, copy) \in D!Page
              /\ D!PutInList(p, f, copy).drafts = p.drafts
  <1>1. \A list \in D!Lists : [p EXCEPT !.list = list] \in D!Page
    BY DEF D!Page
  <1>2. ASSUME NEW f \in Flows, NEW copy \in D!Copy
        PROVE  /\ D!PutInList(p, f, copy) \in D!Page
               /\ D!PutInList(p, f, copy).drafts = p.drafts
    <2>1. CASE p.list = Unread
      BY <2>1 DEF D!PutInList
    <2>2. CASE p.list # Unread
      <3>1. p.list \in D!Lists
        BY <2>2 DEF D!Page
      <3>2. [p.list EXCEPT ![f] = copy] \in D!Lists
        BY <3>1 DEF D!Lists
      <3>3. D!PutInList(p, f, copy) = [p EXCEPT !.list = [p.list EXCEPT ![f] = copy]]
        BY <2>2 DEF D!PutInList, D!Page
      <3>. QED  BY <1>1, <3>2, <3>3 DEF D!Page
    <2>. QED  BY <2>1, <2>2
  <1>. QED  BY <1>1, <1>2

\* What the page makes of a save's answer is a page.
LEMMA SavedIsAPage ==
  ASSUME NEW p \in D!Page, NEW s \in Ended
  PROVE  D!Saved(p, s) \in D!Page
  <1>. DEFINE q == D!PutInList(p, s.flow, s.sent)
              r == D!Let(q, {s.flow})
              d == [says |-> q.drafts[s.flow].says, base |-> s.sent.says]
  <1>1. s.flow \in Flows /\ s.sent \in D!Copy /\ s.sent.says \in Drawings
    BY DEF Ended, Kept, D!Copy
  <1>2. q \in D!Page
    BY <1>1, Relists
  <1>3. r \in D!Page
    BY <1>2, LetGo
  <1>. HIDE DEF q
  <1>. HIDE DEF r
  <1>4. q.drafts[s.flow] # None => d \in D!Draft
    <2>1. q.drafts[s.flow] \in D!Draft
      BY <1>1, <1>2 DEF D!Page
    <2>. QED  BY <1>1, <2>1 DEF D!Draft
  <1>. HIDE DEF d
  <1>5. q.drafts[s.flow] # None => [r EXCEPT !.drafts[s.flow] = d] \in D!Page
    BY <1>1, <1>3, <1>4, Shows
  <1>6. D!Saved(p, s) = IF s.kind = "deactivate" THEN q
                        ELSE IF q.drafts[s.flow] # None /\ q.drafts[s.flow].says # s.says
                             THEN [r EXCEPT !.drafts[s.flow] = d] ELSE r
    BY Zenon DEF D!Saved, q, r, d
  <1>. QED  BY <1>2, <1>3, <1>5, <1>6

\* What is put of a press goes onto the copy it was weighed against.
LEMMA WeighedOnto ==
  ASSUME NEW s \in Listed, NEW copy \in D!Copy, D!Weigh(s, copy) # None,
         s.drafted => s.base # s.says, NEW r, r.kind = s.kind, r.says = s.says,
         r.drafted = s.drafted, r.base = s.base, r.sent = D!Weigh(s, copy)
  PROVE  /\ D!Weigh(s, copy) \in Kept /\ Onto(r, copy)
         /\ s.kind # "deactivate" => D!Weigh(s, copy).says = s.says
  <1>1. /\ s.kind \in {"activate", "update", "deactivate"} /\ s.says \in Drawings
        /\ s.drafted \in BOOLEAN /\ s.base \in Drawings \cup {Fresh}
    BY DEF Listed, D!Kinds
  <1>2. CASE s.kind = "deactivate"
    <2>1. copy # None /\ copy.on /\ D!Weigh(s, copy) = [says |-> copy.says, on |-> FALSE]
      BY <1>2 DEF D!Weigh
    <2>. QED  BY <1>2, <2>1 DEF Kept, Onto, D!Copy
  <1>3. CASE s.kind # "deactivate"
    <2>1. /\ D!Weigh(s, copy) = [says |-> s.says, on |-> TRUE]
          /\ s.drafted => D!StandingOf([says |-> s.says, base |-> s.base], copy) # "overtaken"
          /\ ~s.drafted => copy # None /\ copy.says = s.says /\ ~(s.kind = "activate" /\ copy.on)
          /\ s.kind = "update" => copy # None /\ copy.on
      BY <1>3 DEF D!Weigh
    <2>2. s.drafted => copy = None \/ copy.says \in {s.base, s.says}
      BY <2>1 DEF D!StandingOf
    <2>. QED  BY <1>1, <1>3, <2>1, <2>2 DEF Kept, Onto
  <1>. QED  BY <1>2, <1>3

LEMMA ReadsKeep ==
  ASSUME DraftsInv, NEW t \in Tabs, D!Reads(t)
  PROVE  DraftsInv'
  <1>1. CASE D!StartRead(t) \/ D!ReadServed(t) \/ D!ReadFails(t)
    <2>1. UNCHANGED <<server, full, others, kept, heard, page, save, test, del, crossed>>
      BY <1>1 DEF D!StartRead, D!ReadServed, D!ReadFails, D!elsewhere
    <2>2. server \in D!Lists
      BY TypesInParts DEF DraftsInv, ServerTypes, D!Lists
    <2>3. \E r \in Reads : read' = [read EXCEPT ![t] = r]
      BY <1>1, <2>2 DEF D!StartRead, D!ReadServed, D!ReadFails, Reads
    <2>4. RequestTypes'
      BY <2>1, <2>3 DEF DraftsInv, RequestTypes
    <2>. QED  BY <2>1, <2>4, StayKeeps, TypesInParts DEF DraftsInv, StoreTypes, ServerTypes
  <1>2. CASE D!ReadLands(t)
    <2>. DEFINE p == [page[t] EXCEPT !.list = read[t].list]
    <2>1. read[t].stage = "back" /\ D!Turn(t, p, D!Sending(t)) /\ read' = [read EXCEPT ![t] = D!Idle]
      BY <1>2 DEF D!ReadLands
    <2>2. UNCHANGED <<D!elsewhere, save, test, del>>
      BY <1>2 DEF D!ReadLands
    <2>3. p \in D!Page
      <3>1. page[t] \in D!Page /\ read[t].list \in D!Lists
        BY <2>1, RequestAt, TypesInParts DEF DraftsInv, StoreTypes
      <3>. QED  BY <3>1, Relists
    <2>4. RequestTypes'
      BY <2>1, <2>2 DEF DraftsInv, RequestTypes, Reads
    <2>. HIDE DEF p
    <2>. QED  BY <2>1, <2>2, <2>3, <2>4, TurnAlone
  <1>. QED  BY <1>1, <1>2 DEF D!Reads

LEMMA SaveReadLandsKeeps ==
  ASSUME DraftsInv, NEW t \in Tabs, D!SaveReadLands(t)
  PROVE  DraftsInv'
  <1>. DEFINE s == save[t]
              sent == D!Weigh(s, s.list[s.flow])
              p == [page[t] EXCEPT !.list = s.list]
              r == [stage |-> "putting", flow |-> s.flow, kind |-> s.kind, says |-> s.says,
                    drafted |-> s.drafted, base |-> s.base, sent |-> sent, raced |-> s.raced]
  <1>1. s.stage = "listed" /\ s \in Listed /\ SaveKnows(s, server)
    BY SaveAt DEF DraftsInv, SavesKnow, D!SaveReadLands
  <1>2. read' = [read EXCEPT ![t] = D!Idle] /\ UNCHANGED <<D!elsewhere, test, del>>
    BY DEF D!SaveReadLands
  <1>3. /\ sent = None => save' = [save EXCEPT ![t] = D!Idle] /\ D!Turn(t, p, None)
        /\ sent # None => save' = [save EXCEPT ![t] = r] /\ D!Turn(t, p, D!Sending(t))
    BY DEF D!SaveReadLands
  <1>4. s.list \in D!Lists /\ s.flow \in Flows /\ s.list[s.flow] \in D!Copy
    BY <1>1 DEF Listed, D!Lists
  <1>5. p \in D!Page
    <2>1. page[t] \in D!Page
      BY TypesInParts DEF DraftsInv, StoreTypes
    <2>. QED  BY <1>4, <2>1, Relists
  <1>6. UNCHANGED D!elsewhere
    BY <1>2
  <1>7. CASE sent = None
    <2>1. RequestTypes'
      BY <1>2, <1>3, <1>7 DEF DraftsInv, RequestTypes, Reads, Saves
    <2>2. SaveKnows(D!Idle, server) /\ None \notin Flows
      BY FlowsAssumption DEF SaveKnows, D!Idle, D!FlowDraftsAssumption
    <2>. HIDE DEF p, sent
    <2>. QED  BY <1>3, <1>5, <1>6, <1>7, <2>1, <2>2, TurnKeeps
  <1>8. CASE sent # None
    <2>1. /\ r.kind = s.kind /\ r.says = s.says /\ r.drafted = s.drafted /\ r.base = s.base
          /\ r.sent = sent /\ r.stage = "putting" /\ r.flow = s.flow /\ r.raced = s.raced
      OBVIOUS
    <2>2. s.drafted => s.base # s.says
      BY <1>1 DEF SaveKnows
    <2>3. /\ sent \in Kept /\ Onto(r, s.list[s.flow])
          /\ s.kind # "deactivate" => sent.says = s.says
      BY <1>1, <1>4, <1>8, <2>2, WeighedOnto
    <2>4. r \in Saves
      BY <1>1, <2>3 DEF Listed, Putting, Saves
    <2>5. RequestTypes'
      <3>. HIDE DEF r
      <3>. QED  BY <1>2, <1>3, <1>8, <2>4 DEF DraftsInv, RequestTypes, Reads
    <2>. HIDE DEF r
    <2>6. SaveKnows(r, server)
      BY <1>1, <2>1, <2>3 DEF SaveKnows
    <2>. HIDE DEF p, sent
    <2>. QED  BY <1>3, <1>5, <1>6, <1>8, <2>1, <2>5, <2>6, TurnKeeps
  <1>. QED  BY <1>7, <1>8

LEMMA SavesKeep ==
  ASSUME DraftsInv, NEW t \in Tabs, D!Saves(t)
  PROVE  DraftsInv'
  <1>1. save \in [Tabs -> Saves] /\ save[t] \in Saves /\ page[t] \in D!Page
    BY TypesInParts DEF DraftsInv, RequestTypes, StoreTypes
  <1>2. CASE D!SaveReadServed(t)
    <2>. DEFINE s == [stage |-> "listed", flow |-> save[t].flow, kind |-> save[t].kind,
                      says |-> save[t].says, drafted |-> save[t].drafted, base |-> save[t].base,
                      list |-> server, raced |-> FALSE]
    <2>1. save[t].stage = "reading" /\ save' = [save EXCEPT ![t] = s]
      BY <1>2 DEF D!SaveReadServed
    <2>2. UNCHANGED <<D!elsewhere, kept, heard, page, read, test, del, crossed>>
      BY <1>2 DEF D!SaveReadServed
    <2>3. save[t] \in Pressed /\ SaveKnows(save[t], server) /\ server \in D!Lists
      BY <2>1, SaveAt, TypesInParts DEF DraftsInv, SavesKnow, ServerTypes, D!Lists
    <2>4. s \in Saves
      BY <2>3 DEF Pressed, Listed, Saves
    <2>5. SaveKnows(s, server) /\ s.stage # "idle"
      BY <2>1, <2>3 DEF SaveKnows
    <2>. HIDE DEF s
    <2>. QED  BY <2>1, <2>2, <2>4, <2>5, SaveMoves
  <1>3. CASE D!SaveReadFails(t)
    <2>1. save' = [save EXCEPT ![t] = D!Idle] /\ D!Turn(t, page[t], None)
      BY <1>3 DEF D!SaveReadFails
    <2>2. UNCHANGED <<read, test, del>> /\ UNCHANGED D!elsewhere
      BY <1>3 DEF D!SaveReadFails
    <2>3. RequestTypes'
      BY <2>1, <2>2 DEF DraftsInv, RequestTypes, Saves
    <2>4. SaveKnows(D!Idle, server) /\ None \notin Flows
      BY FlowsAssumption DEF SaveKnows, D!Idle, D!FlowDraftsAssumption
    <2>. QED  BY <1>1, <2>1, <2>2, <2>3, <2>4, TurnKeeps
  <1>4. CASE D!SaveReadLands(t)
    BY <1>4, SaveReadLandsKeeps
  <1>5. CASE D!PutKept(t)
    <2>. DEFINE s == save[t]
    <2>1. PICK outcome \in {"kept", "failed"} :
            save' = [D!Raced(s.flow) EXCEPT ![t] = D!Answered(s, outcome)]
      BY <1>5 DEF D!PutKept
    <2>2. /\ s.stage = "putting" /\ server' = [server EXCEPT ![s.flow] = s.sent]
          /\ UNCHANGED <<full, others, kept, heard, page, read, test, del, crossed>>
      BY <1>5 DEF D!PutKept
    <2>3. s \in Putting
      BY <2>2, SaveAt DEF DraftsInv
    <2>4. s.flow \in Flows /\ s.sent \in D!Copy
      BY <2>3 DEF Putting, Kept, D!Copy
    <2>. DEFINE a == D!Answered(s, outcome)
    <2>5. a \in Saves /\ a.stage = "answered"
      BY <2>1, <2>3 DEF D!Answered, Putting, Ended, Saves
    <2>12. a.kind # "deactivate" => a.sent.says = a.says
      BY <2>2 DEF DraftsInv, SavesKnow, SaveKnows, D!Answered
    <2>. HIDE DEF a
    <2>6. /\ D!Raced(s.flow) \in [Tabs -> Saves]
          /\ \A u \in Tabs : /\ D!Raced(s.flow)[u].stage = save[u].stage
                             /\ SaveKnows(D!Raced(s.flow)[u], server')
      BY <2>2, <2>4, RacedSaves
    <2>7. save' = [D!Raced(s.flow) EXCEPT ![t] = a]
      BY <2>1 DEF a
    <2>8. save' \in [Tabs -> Saves]
      BY <2>5, <2>6, <2>7
    <2>9. RequestTypes'
      BY <2>2, <2>8 DEF DraftsInv, RequestTypes
    <2>10. StoreTypes' /\ ServerTypes'
      BY <2>2, <2>4, TypesInParts DEF DraftsInv, StoreTypes, ServerTypes
    <2>11. \A u \in Tabs : /\ save'[u].stage = "idle" => save[u].stage = "idle"
                           /\ SaveKnows(save'[u], server')
      <3>. SUFFICES ASSUME NEW u \in Tabs
                    PROVE  /\ save'[u].stage = "idle" => save[u].stage = "idle"
                           /\ SaveKnows(save'[u], server')
        OBVIOUS
      <3>1. CASE u = t
        <4>1. save'[u] = a
          BY <2>6, <2>7, <3>1
        <4>. QED  BY <2>5, <2>12, <4>1 DEF SaveKnows
      <3>2. CASE u # t
        <4>1. save'[u] = D!Raced(s.flow)[u]
          BY <2>6, <2>7, <3>2
        <4>. QED  BY <2>6, <4>1
      <3>. QED  BY <3>1, <3>2
    <2>. QED  BY <2>2, <2>9, <2>10, <2>11, SavesMove
  <1>6. CASE D!PutNotKept(t)
    <2>1. PICK outcome \in {"refused", "failed"} :
            save' = [save EXCEPT ![t] = D!Answered(save[t], outcome)]
      BY <1>6 DEF D!PutNotKept
    <2>2. UNCHANGED <<D!elsewhere, kept, heard, page, read, test, del, crossed>>
      BY <1>6 DEF D!PutNotKept
    <2>3. save[t] \in Putting
      BY <1>6, SaveAt DEF DraftsInv, D!PutNotKept
    <2>4. D!Answered(save[t], outcome) \in Saves /\ D!Answered(save[t], outcome).stage = "answered"
      BY <2>1, <2>3 DEF D!Answered, Putting, Ended, Saves
    <2>5. SaveKnows(D!Answered(save[t], outcome), server)
      <3>1. SaveKnows(save[t], server) /\ save[t].stage = "putting"
        BY <2>3 DEF DraftsInv, SavesKnow, Putting
      <3>. QED  BY <2>4, <3>1 DEF SaveKnows, D!Answered
    <2>. QED  BY <2>1, <2>2, <2>4, <2>5, SaveMoves
  <1>7. CASE D!SaveLands(t)
    <2>. DEFINE s == save[t]
                p == CASE s.outcome = "kept" -> D!Saved(page[t], s)
                       [] s.outcome = "refused" /\ s.kind # "deactivate" ->
                            D!Refuse(page[t], s.flow, s.says, s.drafted)
                       [] OTHER -> page[t]
    <2>1. s.stage = "answered" /\ D!Turn(t, p, None) /\ save' = [save EXCEPT ![t] = D!Idle]
      BY <1>7 DEF D!SaveLands
    <2>2. UNCHANGED <<test, del>> /\ UNCHANGED D!elsewhere
      BY <1>7 DEF D!SaveLands
    <2>3. read' = [read EXCEPT ![t] = D!Idle] \/ read' = read
      BY <1>7 DEF D!SaveLands
    <2>4. s \in Ended
      BY <2>1, SaveAt DEF DraftsInv
    <2>5. p \in D!Page
      <3>1. D!Saved(page[t], s) \in D!Page
        BY <1>1, <2>4, SavedIsAPage
      <3>2. D!Refuse(page[t], s.flow, s.says, s.drafted) \in D!Page
        <4>1. s.flow \in Flows /\ s.says \in Drawings /\ s.drafted \in BOOLEAN
          BY <2>4 DEF Ended
        <4>. QED  BY <1>1, <4>1, Refuses
      <3>. QED  BY <1>1, <3>1, <3>2
    <2>6. RequestTypes'
      BY <2>1, <2>2, <2>3 DEF DraftsInv, RequestTypes, Reads, Saves
    <2>7. SaveKnows(D!Idle, server) /\ None \notin Flows
      BY FlowsAssumption DEF SaveKnows, D!Idle, D!FlowDraftsAssumption
    <2>. HIDE DEF p
    <2>. QED  BY <2>1, <2>2, <2>5, <2>6, <2>7, TurnKeeps
  <1>. QED  BY <1>2, <1>3, <1>4, <1>5, <1>6, <1>7 DEF D!Saves

-----------------------------------------------------------------------------
(* Tests, deletes, the other tabs, and what else happens.                    *)

\* What another tab wrote, or cleared, makes a page of a page.
LEMMA HeardIsAPage ==
  ASSUME NEW p \in D!Page, NEW f \in Flows, NEW e \in D!Draft \cup {Whole}, kept[f] \in D!Draft
  PROVE  D!Heard(p, f, e) \in D!Page
  <1>. DEFINE d == IF e = Whole THEN kept[f] ELSE e
  <1>1. d \in D!Draft
    OBVIOUS
  <1>2. D!Heard(p, f, e) = IF p.drafts[f] # None /\ d = None
                           THEN D!Let(p, {f}) ELSE [p EXCEPT !.drafts[f] = d]
    BY DEF D!Heard
  <1>. HIDE DEF d
  <1>3. D!Let(p, {f}) \in D!Page /\ [p EXCEPT !.drafts[f] = d] \in D!Page
    BY <1>1, LetGo, Shows
  <1>. QED  BY <1>2, <1>3

LEMMA HearKeeps ==
  ASSUME DraftsInv, NEW t \in Tabs, NEW f \in Flows, D!Hear(t, f)
  PROVE  DraftsInv'
  <1>. DEFINE p == D!Heard(page[t], f, Head(heard[t][f]))
              rest == [heard EXCEPT ![t][f] = Tail(@)]
              spent(q) == {g \in Flows : q.drafts[g] # p.drafts[g]}
              wrote(q) == {g \in spent(q) : kept[g] # None}
              now(q) == [g \in Flows |-> IF g \in spent(q) THEN None ELSE kept[g]]
  <1>1. PICK q \in D!Screens(D!Spent(p, D!Sending(t))) :
          /\ page' = [page EXCEPT ![t] = q] /\ kept' = now(q)
          /\ heard' = [u \in Tabs |-> [g \in Flows |->
                         IF u # t /\ g \in wrote(q) THEN Append(rest[u][g], None) ELSE rest[u][g]]]
          /\ crossed' = crossed \cup {g \in wrote(q) : rest[t][g] # <<>>}
    BY DEF D!Hear
  <1>2. UNCHANGED <<server, full, others, read, save, test, del>> /\ heard[t][f] # <<>>
    BY DEF D!Hear, D!elsewhere, D!requests
  <1>3. StoreTypes
    BY TypesInParts DEF DraftsInv
  <1>4. heard[t][f] \in Seq(D!Draft \cup {Whole})
    BY <1>3 DEF StoreTypes
  <1>5. Head(heard[t][f]) \in D!Draft \cup {Whole} /\ Tail(heard[t][f]) \in Seq(D!Draft \cup {Whole})
    BY <1>2, <1>4
  <1>6. p \in D!Page
    BY <1>3, <1>5, HeardIsAPage DEF StoreTypes
  <1>. HIDE DEF p
  <1>7. /\ q \in D!Page /\ q.list = p.list
        /\ p.list # Unread =>
             \A g \in Flows \ {D!Sending(t)} : q.drafts[g] # None => D!Standing(q, g) # "nothing"
    BY <1>1, <1>6, Screened
  <1>8. /\ \A u \in Tabs, g \in Flows : rest[u][g] \in Seq(D!Draft \cup {Whole})
    <2>1. heard \in [Tabs -> [Flows -> Seq(D!Draft \cup {Whole})]]
      BY <1>3 DEF StoreTypes
    <2>2. rest \in [Tabs -> [Flows -> Seq(D!Draft \cup {Whole})]]
      BY <1>5, <2>1
    <2>. QED  BY <2>2
  <1>9. /\ wrote(q) \subseteq Flows /\ now(q) \in [Flows -> D!Draft]
        /\ {g \in wrote(q) : rest[t][g] # <<>>} \subseteq Flows
    BY <1>3 DEF StoreTypes, D!Draft
  <1>. HIDE DEF rest, now, wrote
  <1>10. heard' \in [Tabs -> [Flows -> Seq(D!Draft \cup {Whole})]]
    <2>1. \A u \in Tabs, g \in Flows : Append(rest[u][g], None) \in Seq(D!Draft \cup {Whole})
      BY <1>8 DEF D!Draft
    <2>. QED  BY <1>1, <1>8, <2>1
  <1>11. page' \in [Tabs -> D!Page] /\ page'[t] = q /\ \A u \in Tabs \ {t} : page'[u] = page[u]
    BY <1>1, <1>3, <1>7 DEF StoreTypes
  <1>12. StoreTypes'
    BY <1>1, <1>3, <1>9, <1>10, <1>11 DEF StoreTypes
  <1>13. ServerTypes' /\ RequestTypes'
    BY <1>2, TypesInParts DEF DraftsInv, ServerTypes, RequestTypes
  <1>14. DraftsHold'
    <2>. SUFFICES ASSUME NEW u \in Tabs, save'[u].stage = "idle"
                  PROVE  NothingIdle(page'[u])
      BY DEF DraftsHold, NothingIdle, D!Standing, D!StandingOf, D!CopyOf
    <2>1. CASE u = t
      <3>1. D!Sending(t) \notin Flows
        BY <1>2, <2>1, NothingSent
      <3>. QED  BY <1>7, <1>11, <2>1, <3>1 DEF NothingIdle
    <2>2. CASE u # t
      BY <1>2, <1>11, <2>2 DEF DraftsInv, DraftsHold
    <2>. QED  BY <2>1, <2>2
  <1>15. SavesKnow'
    BY <1>2 DEF DraftsInv, SavesKnow, SaveKnows
  <1>. QED  BY <1>12, <1>13, <1>14, <1>15, TypesInParts DEF DraftsInv

\* A flow's copy changes, on the server, and every save of it that is out is marked.
LEMMA CopyChanges ==
  ASSUME DraftsInv, NEW f \in Flows, NEW c \in D!Copy, server' = [server EXCEPT ![f] = c],
         save' = D!Raced(f), others' \in 0..MaxOthers, read' = read, test' = test,
         del' \in [Tabs -> Deletes], UNCHANGED <<full, kept, heard, page, crossed>>
  PROVE  DraftsInv'
  <1>1. /\ D!Raced(f) \in [Tabs -> Saves]
        /\ \A u \in Tabs : /\ D!Raced(f)[u].stage = save[u].stage
                           /\ SaveKnows(D!Raced(f)[u], server')
    BY RacedSaves
  <1>2. StoreTypes' /\ ServerTypes'
    BY TypesInParts DEF DraftsInv, StoreTypes, ServerTypes
  <1>3. RequestTypes'
    BY <1>1 DEF DraftsInv, RequestTypes
  <1>. QED  BY <1>1, <1>2, <1>3, SavesMove

LEMMA RestKeeps ==
  ASSUME DraftsInv, NEW t \in Tabs, D!Rest(t)
  PROVE  DraftsInv'
  <1>1. page[t] \in D!Page
    BY TypesInParts DEF DraftsInv, StoreTypes
  <1>2. CASE D!TestLands(t)
    <2>1. /\ test[t].stage = "out" /\ test' = [test EXCEPT ![t] = D!Idle]
          /\ UNCHANGED <<D!elsewhere, read, save, del>>
      BY <1>2 DEF D!TestLands
    <2>2. PICK p \in {D!Lapse(page[t], {test[t].flow}), page[t],
                      D!Refuse(page[t], test[t].flow, test[t].says, test[t].drafted)} :
            D!Turn(t, p, D!Sending(t))
      BY <1>2 DEF D!TestLands
    <2>3. p \in D!Page
      <3>1. test[t].flow \in Flows /\ test[t].says \in Drawings /\ test[t].drafted \in BOOLEAN
        BY <2>1, RequestAt DEF DraftsInv
      <3>2. D!Lapse(page[t], {test[t].flow}) \in D!Page
        BY <1>1, Lapses
      <3>3. D!Refuse(page[t], test[t].flow, test[t].says, test[t].drafted) \in D!Page
        BY <1>1, <3>1, Refuses
      <3>. QED  BY <1>1, <2>2, <3>2, <3>3
    <2>4. RequestTypes'
      BY <2>1 DEF DraftsInv, RequestTypes, Tests
    <2>. QED  BY <2>1, <2>2, <2>3, <2>4, TurnAlone
  <1>3. CASE D!DeleteServed(t)
    <2>1. del[t].stage = "out" /\ UNCHANGED <<full, others, kept, heard, page, read, test, crossed>>
      BY <1>3 DEF D!DeleteServed
    <2>2. del[t].flow \in Flows
      BY <2>1, RequestAt DEF DraftsInv
    <2>3. del' \in [Tabs -> Deletes]
      <3>1. [stage |-> "gone", flow |-> del[t].flow] \in Deletes /\ D!Idle \in Deletes
        BY <2>2 DEF Deletes
      <3>2. del \in [Tabs -> Deletes]
        BY DEF DraftsInv, RequestTypes
      <3>. QED  BY <1>3, <3>1, <3>2 DEF D!DeleteServed
    <2>4. CASE UNCHANGED <<server, save>>
      <3>1. RequestTypes'
        BY <2>1, <2>3, <2>4 DEF DraftsInv, RequestTypes
      <3>. QED  BY <2>1, <2>4, <3>1, StayKeeps, TypesInParts DEF DraftsInv, StoreTypes, ServerTypes
    <2>5. CASE /\ server' = [server EXCEPT ![del[t].flow] = None]
               /\ server[del[t].flow] # None /\ save' = D!Raced(del[t].flow)
      <3>1. others' \in 0..MaxOthers /\ None \in D!Copy
        BY <2>1, TypesInParts DEF DraftsInv, ServerTypes, D!Copy
      <3>. QED  BY <2>1, <2>2, <2>3, <2>5, <3>1, CopyChanges
    <2>6. CASE /\ server' = [server EXCEPT ![del[t].flow] = None]
               /\ server[del[t].flow] = None /\ save' = save
      <3>1. server' = server
        BY <2>2, <2>6, TypesInParts DEF DraftsInv, ServerTypes
      <3>. QED  BY <2>4, <2>6, <3>1
    <2>. QED  BY <1>3, <2>4, <2>5, <2>6 DEF D!DeleteServed
  <1>4. CASE D!DeleteLands(t)
    <2>. DEFINE f == del[t].flow
                p == D!Discarded(D!PutInList(page[t], f, None), f)
    <2>1. /\ del[t].stage = "gone" /\ D!Turn(t, p, D!Sending(t))
          /\ read' = [read EXCEPT ![t] = D!Idle] /\ del' = [del EXCEPT ![t] = D!Idle]
          /\ UNCHANGED <<D!elsewhere, save, test>>
      BY <1>4 DEF D!DeleteLands
    <2>2. f \in Flows
      BY <2>1, RequestAt DEF DraftsInv
    <2>3. p \in D!Page
      <3>1. D!PutInList(page[t], f, None) \in D!Page
        BY <1>1, <2>2, Relists DEF D!Copy
      <3>. QED  BY <2>2, <3>1, DiscardedIsAPage
    <2>4. RequestTypes'
      BY <2>1 DEF DraftsInv, RequestTypes, Reads, Deletes
    <2>. HIDE DEF p
    <2>. QED  BY <2>1, <2>3, <2>4, TurnAlone
  <1>5. CASE \E f \in Flows : D!Hear(t, f)
    BY <1>5, HearKeeps
  <1>. QED  BY <1>2, <1>3, <1>4, <1>5 DEF D!Rest

LEMMA EnvironmentKeeps ==
  ASSUME DraftsInv, D!Environment
  PROVE  DraftsInv'
  <1>1. CASE D!StorageFills \/ D!StorageCleared
    <2>1. /\ UNCHANGED <<server, others, page, read, save, test, del, crossed>>
          /\ full' \in BOOLEAN
      BY <1>1 DEF D!StorageFills, D!StorageCleared, D!requests
    <2>2. StoreTypes'
      <3>1. kept' \in [Flows -> D!Draft]
        BY <1>1, TypesInParts
           DEF DraftsInv, StoreTypes, D!StorageFills, D!StorageCleared, D!Draft
      <3>2. <<Whole>> \in Seq(D!Draft \cup {Whole})
        OBVIOUS
      <3>3. heard' \in [Tabs -> [Flows -> Seq(D!Draft \cup {Whole})]]
        <4>1. CASE D!StorageFills
          BY <4>1, TypesInParts DEF DraftsInv, StoreTypes, D!StorageFills
        <4>2. CASE D!StorageCleared
          BY <3>2, <4>2 DEF D!StorageCleared
        <4>. QED  BY <1>1, <4>1, <4>2
      <3>. QED  BY <2>1, <3>1, <3>3, TypesInParts DEF DraftsInv, StoreTypes
    <2>3. RequestTypes' /\ others' \in 0..MaxOthers
      BY <2>1, TypesInParts DEF DraftsInv, RequestTypes, ServerTypes
    <2>. QED  BY <2>1, <2>2, <2>3, StayKeeps
  <1>2. ASSUME NEW f \in Flows, NEW copy \in D!Copy, D!OtherChanges(f, copy)
        PROVE  DraftsInv'
    <2>1. /\ others < MaxOthers /\ others' = others + 1
          /\ server' = [server EXCEPT ![f] = copy] /\ save' = D!Raced(f)
          /\ UNCHANGED <<full, kept, heard, page, read, test, del, crossed>>
      BY <1>2 DEF D!OtherChanges
    <2>2. others' \in 0..MaxOthers
      BY <2>1, FlowsAssumption, TypesInParts DEF DraftsInv, ServerTypes, D!FlowDraftsAssumption
    <2>3. del' \in [Tabs -> Deletes]
      BY <2>1 DEF DraftsInv, RequestTypes
    <2>. QED  BY <2>1, <2>2, <2>3, CopyChanges
  <1>. QED  BY <1>1, <1>2 DEF D!Environment

LEMMA DraftsStart == D!Init => DraftsInv
  <1>. SUFFICES ASSUME D!Init  PROVE DraftsInv
    OBVIOUS
  <1>1. ServerTypes
    <2>1. server \in [Flows -> {c \in D!Copy : c = None \/ c.on}] /\ full = FALSE /\ others = 0
      BY DEF D!Init
    <2>2. MaxOthers \in Nat
      BY FlowsAssumption DEF D!FlowDraftsAssumption
    <2>3. server \in [Flows -> D!Copy]
      BY <2>1
    <2>4. others \in 0..MaxOthers
      BY <2>1, <2>2
    <2>5. full \in BOOLEAN
      BY <2>1
    <2>. QED  BY <2>3, <2>4, <2>5 DEF ServerTypes
  <1>2. StoreTypes
    BY DEF D!Init, StoreTypes, D!Draft, D!Page
  <1>3. RequestTypes
    BY DEF D!Init, RequestTypes, Reads, Saves, Tests, Deletes
  <1>4. DraftsHold
    BY DEF D!Init, DraftsHold, NothingIdle
  <1>5. SavesKnow
    BY DEF D!Init, SavesKnow, SaveKnows, D!Idle
  <1>. QED  BY <1>1, <1>2, <1>3, <1>4, <1>5, TypesInParts DEF DraftsInv

LEMMA DraftsStep == DraftsInv /\ [D!Next]_(D!vars) => DraftsInv'
  <1>. SUFFICES ASSUME DraftsInv, [D!Next]_(D!vars)  PROVE DraftsInv'
    OBVIOUS
  <1>1. CASE UNCHANGED D!vars
    BY <1>1, StayKeeps, TypesInParts DEF D!vars, DraftsInv, StoreTypes, ServerTypes, RequestTypes
  <1>2. CASE D!Environment
    BY <1>2, EnvironmentKeeps
  <1>3. ASSUME NEW t \in Tabs, D!Reader(t) \/ D!Presses(t) \/ D!Reads(t) \/ D!Saves(t) \/ D!Rest(t)
        PROVE  DraftsInv'
    BY <1>3, ReaderKeeps, PressesKeep, ReadsKeep, SavesKeep, RestKeeps
  <1>. QED  BY <1>1, <1>2, <1>3 DEF D!Next

-----------------------------------------------------------------------------
(* What a page shows fits together.                                          *)

\* What is picked is in the flow on screen, and a refusal of a draft has its draft.
HalfFits(p, unkept) ==
  /\ p.unkept = unkept
  /\ p.pick \in {None, p.current}
  /\ \A f \in Flows : p.refused[f] = OfDraft => p.drafts[f] # None

\* A refusal of a copy of the server's has that copy in the list, too.
PageFits(p) ==
  /\ HalfFits(p, p.unkept)
  /\ \A f \in Flows : p.list # Unread /\ p.refused[f] \notin {None, OfDraft} =>
                        p.list[f] # None /\ p.list[f].says = p.refused[f]

\* A tab that has heard everything has what storage has, and the last it has still to hear says
\* so: unless two writes passed each other, or storage would not take its own.
InTouch(t) ==
  \A f \in Flows \ crossed :
    IF heard[t][f] = <<>> THEN page[t].drafts[f] = kept[f] \/ page[t].unkept
    ELSE heard[t][f][Len(heard[t][f])] \in {kept[f], Whole}

PagesInv == \A t \in Tabs : PageFits(page[t]) /\ InTouch(t)

\* No value of the store is another's.
LEMMA Apart ==
  /\ None \notin Flows /\ None # OfDraft /\ OfDraft \notin Drawings /\ Fresh \notin Drawings
  /\ None \notin Drawings /\ None # Fresh
  /\ \A d \in [says : Drawings, base : Drawings \cup {Fresh}] : d # None
  /\ \A c \in Kept : c # None
  BY FlowsAssumption DEF D!FlowDraftsAssumption, D!Draft, Kept

\* What the store makes of a page that half fits, half fits.
LEMMA HalfAfter ==
  ASSUME NEW p \in D!Page, NEW unkept, HalfFits(p, unkept)
  PROVE  /\ \A fs : HalfFits(D!Let(p, fs), unkept) /\ HalfFits(D!Lapse(p, fs), unkept)
         /\ \A f \in Flows :
              /\ HalfFits(D!Showing(p, f), unkept) /\ HalfFits(D!Discarded(p, f), unkept)
              /\ \A d \in D!Draft : d # None => HalfFits([p EXCEPT !.drafts[f] = d], unkept)
              /\ \A says \in Drawings, drafted \in BOOLEAN : HalfFits(D!Refuse(p, f, says, drafted), unkept)
              /\ \A copy \in D!Copy : HalfFits(D!PutInList(p, f, copy), unkept)
         /\ \A list : HalfFits([p EXCEPT !.list = list], unkept)
  <1>1. ASSUME NEW fs
        PROVE  HalfFits(D!Let(p, fs), unkept)
    BY Apart, LetGo DEF HalfFits
  <1>2. ASSUME NEW fs
        PROVE  HalfFits(D!Lapse(p, fs), unkept)
    BY Apart, Lapses DEF HalfFits
  <1>3. ASSUME NEW f \in Flows
        PROVE  HalfFits(D!Showing(p, f), unkept)
    BY DEF D!Showing, HalfFits, D!Page
  <1>4. ASSUME NEW f \in Flows
        PROVE  HalfFits(D!Discarded(p, f), unkept)
    <2>. DEFINE q == D!Let(p, {f})
                r == [q EXCEPT !.pick = IF p.current = f THEN None ELSE @]
    <2>1. q \in D!Page /\ HalfFits(q, unkept) /\ q.pick = p.pick
      BY <1>1, LetGo
    <2>2. D!Discarded(p, f) = r
      BY DEF D!Discarded
    <2>. HIDE DEF q
    <2>3. /\ r.current = q.current /\ r.pick \in {None, q.pick}
          /\ r.drafts = q.drafts /\ r.refused = q.refused
      BY <2>1 DEF D!Page
    <2>. QED  BY <2>1, <2>2, <2>3 DEF HalfFits
  <1>5. ASSUME NEW f \in Flows, NEW d \in D!Draft, d # None
        PROVE  HalfFits([p EXCEPT !.drafts[f] = d], unkept)
    BY <1>5 DEF HalfFits, D!Page
  <1>6. ASSUME NEW f \in Flows, NEW says \in Drawings, NEW drafted \in BOOLEAN
        PROVE  HalfFits(D!Refuse(p, f, says, drafted), unkept)
    <2>1. CASE drafted /\ p.drafts[f] = None
      BY <2>1 DEF D!Refuse
    <2>2. CASE ~(drafted /\ p.drafts[f] = None)
      <3>. DEFINE v == IF drafted THEN OfDraft ELSE says
                  r == [p EXCEPT !.refused[f] = v]
      <3>1. D!Refuse(p, f, says, drafted) = r
        BY <2>2 DEF D!Refuse
      <3>2. v = OfDraft => p.drafts[f] # None
        BY <2>2, Apart
      <3>. HIDE DEF v
      <3>3. /\ r.unkept = p.unkept /\ r.pick = p.pick /\ r.current = p.current /\ r.drafts = p.drafts
            /\ \A g \in Flows : r.refused[g] = IF g = f THEN v ELSE p.refused[g]
        BY DEF D!Page
      <3>. HIDE DEF r
      <3>. QED  BY <3>1, <3>2, <3>3 DEF HalfFits
    <2>. QED  BY <2>1, <2>2
  <1>7. ASSUME NEW f \in Flows, NEW copy \in D!Copy
        PROVE  HalfFits(D!PutInList(p, f, copy), unkept)
    BY DEF HalfFits, D!PutInList, D!Page
  <1>8. ASSUME NEW list
        PROVE  HalfFits([p EXCEPT !.list = list], unkept)
    BY DEF HalfFits, D!Page
  <1>. QED  BY <1>1, <1>2, <1>3, <1>4, <1>5, <1>6, <1>7, <1>8

\* What the effects leave of such a page fits: they less a draft go only when it stands for
\* nothing and is not on its way, and every refusal of a copy that has gone.
LEMMA SpentFits ==
  ASSUME NEW p \in D!Page, NEW unkept, HalfFits(p, unkept), NEW sending, NEW q \in D!Screens(D!Spent(p, sending))
  PROVE  /\ PageFits(q) /\ q.unkept = unkept
         /\ \A f \in Flows : q.drafts[f] \in {p.drafts[f], None}
         /\ \A f \in Flows : f = sending \/ D!Standing(p, f) # "nothing" \/ p.list = Unread =>
                               q.drafts[f] = p.drafts[f]
  <1>. DEFINE r == D!Spent(p, sending)
              fs == {f \in Flows \ {sending} : D!Standing(p, f) = "nothing"}
              less == D!Let(p, fs)
              gs == {f \in Flows : /\ less.refused[f] \notin {None, OfDraft}
                                   /\ \/ less.list[f] = None
                                      \/ less.list[f].says # less.refused[f]}
  <1>1. CASE p.list = Unread
    <2>1. r = p
      BY <1>1 DEF D!Spent
    <2>2. q = p
      BY <1>1, <2>1 DEF D!Screens
    <2>. QED  BY <1>1, <2>2 DEF PageFits, HalfFits
  <1>2. CASE p.list # Unread
    <2>1. r = D!Lapse(less, gs)
      BY <1>2 DEF D!Spent
    <2>2. /\ less \in D!Page /\ less.list = p.list /\ HalfFits(less, unkept)
          /\ \A f \in Flows : less.drafts[f] = IF f \in fs THEN None ELSE p.drafts[f]
      BY LetGo, HalfAfter
    <2>3. \A f \in Flows : f = sending \/ D!Standing(p, f) # "nothing" => f \notin fs
      OBVIOUS
    <2>4. \A f \in Flows : f \notin gs /\ less.refused[f] \notin {None, OfDraft} =>
                             less.list[f] # None /\ less.list[f].says = less.refused[f]
      OBVIOUS
    <2>. HIDE DEF fs, gs, less
    <2>5. /\ r \in D!Page /\ HalfFits(r, unkept) /\ r.list = less.list /\ r.drafts = less.drafts
          /\ \A f \in Flows : r.refused[f] = IF f \in gs THEN None ELSE less.refused[f]
      BY <2>1, <2>2, Lapses, HalfAfter
    <2>. HIDE DEF r
    <2>6. \A f \in Flows : r.refused[f] \notin {None, OfDraft} =>
                             r.list[f] # None /\ r.list[f].says = r.refused[f]
      BY <2>4, <2>5
    <2>7. q = r \/ \E f \in Flows : q = D!Showing(r, f)
      BY DEF D!Screens, D!OnPage, r
    <2>8. HalfFits(q, unkept) /\ q.list = r.list /\ q.drafts = r.drafts /\ q.refused = r.refused
      <3>1. \A f \in Flows : /\ D!Showing(r, f).list = r.list /\ D!Showing(r, f).drafts = r.drafts
                             /\ D!Showing(r, f).refused = r.refused
        BY <2>5 DEF D!Showing, D!Page
      <3>. QED  BY <2>5, <2>7, <3>1, HalfAfter
    <2>9. PageFits(q)
      BY <2>6, <2>8 DEF PageFits, HalfFits
    <2>. QED  BY <1>2, <2>2, <2>3, <2>5, <2>8, <2>9 DEF HalfFits
  <1>. QED  BY <1>1, <1>2

\* What a tab writes, storage has, if it takes it, and the other tabs have it still to hear.
LEMMA WritesInTouch ==
  ASSUME StoreTypes, full \in BOOLEAN, NEW t \in Tabs, NEW q \in D!Page, q.unkept = page[t].unkept,
         \A u \in Tabs : InTouch(u), D!Write(t, page[t].drafts, q)
  PROVE  /\ \A u \in Tabs : InTouch(u)'
         /\ \E k \in BOOLEAN : page' = [page EXCEPT ![t] = [q EXCEPT !.unkept = k]]
  <1>. DEFINE was == page[t].drafts
              now == [f \in Flows |-> IF q.drafts[f] # was[f] /\ (q.drafts[f] = None \/ ~full)
                                      THEN q.drafts[f] ELSE kept[f]]
              wrote == {f \in Flows : now[f] # kept[f]}
              unkept == full /\ \E f \in Flows : q.drafts[f] # was[f] /\ q.drafts[f] # None
              k == q.unkept \/ unkept
              r == [q EXCEPT !.unkept = k]
  <1>1. /\ kept' = now
        /\ heard' = [u \in Tabs |-> [f \in Flows |->
                       IF u # t /\ f \in wrote THEN Append(heard[u][f], now[f]) ELSE heard[u][f]]]
        /\ crossed' = crossed \cup {f \in wrote : heard[t][f] # <<>>}
        /\ page' = [page EXCEPT ![t] = r]
    BY DEF D!Write, D!Page
  <1>2. k \in BOOLEAN
    OBVIOUS
  <1>3. \A f \in Flows :
          /\ f \notin wrote => now[f] = kept[f]
          /\ q.drafts[f] = now[f] \/ q.drafts[f] = was[f] \/ k
    OBVIOUS
  <1>4. \A f \in Flows : f \in wrote => q.drafts[f] = now[f]
    OBVIOUS
  <1>5. r.drafts = q.drafts /\ r.unkept = k /\ (q.unkept => k)
    BY DEF D!Page
  <1>. HIDE DEF k, r, wrote, now
  <1>6. /\ page'[t] = r /\ \A u \in Tabs \ {t} : page'[u] = page[u]
        /\ \A f \in Flows : f \notin crossed' => f \notin crossed /\ (f \in wrote => heard[t][f] = <<>>)
    BY <1>1 DEF StoreTypes
  <1>7. ASSUME NEW u \in Tabs, NEW f \in Flows \ crossed'
        PROVE  IF heard'[u][f] = <<>> THEN page'[u].drafts[f] = kept'[f] \/ page'[u].unkept
               ELSE heard'[u][f][Len(heard'[u][f])] \in {kept'[f], Whole}
    <2>1. /\ f \notin crossed
          /\ IF heard[u][f] = <<>> THEN page[u].drafts[f] = kept[f] \/ page[u].unkept
             ELSE heard[u][f][Len(heard[u][f])] \in {kept[f], Whole}
      BY <1>6 DEF InTouch
    <2>2. CASE u = t /\ f \in wrote
      BY <1>1, <1>4, <1>5, <1>6, <2>2
    <2>3. CASE u = t /\ f \notin wrote
      <3>1. heard'[u][f] = heard[u][f] /\ kept'[f] = kept[f]
        BY <1>1, <1>3, <2>3
      <3>2. page[u].drafts[f] = kept[f] \/ page[u].unkept => r.drafts[f] = kept[f] \/ r.unkept
        BY <1>3, <1>5, <2>3
      <3>. QED  BY <1>6, <2>1, <2>3, <3>1, <3>2
    <2>4. CASE u # t /\ f \in wrote
      <3>1. heard'[u][f] = Append(heard[u][f], now[f]) /\ kept'[f] = now[f]
        BY <1>1, <2>4
      <3>2. heard[u][f] \in Seq(D!Draft \cup {Whole})
        BY DEF StoreTypes
      <3>3. Append(heard[u][f], now[f]) # <<>>
            /\ Append(heard[u][f], now[f])[Len(Append(heard[u][f], now[f]))] = now[f]
        BY <3>2
      <3>. QED  BY <3>1, <3>3
    <2>5. CASE u # t /\ f \notin wrote
      <3>1. heard'[u][f] = heard[u][f] /\ kept'[f] = kept[f] /\ page'[u] = page[u]
        BY <1>1, <1>3, <1>6, <2>5
      <3>. QED  BY <2>1, <3>1
    <2>. QED  BY <2>2, <2>3, <2>4, <2>5
  <1>8. page' = [page EXCEPT ![t] = [q EXCEPT !.unkept = k]]
    BY <1>1 DEF r
  <1>. QED  BY <1>2, <1>7, <1>8 DEF InTouch

\* So a turn on a page that half fits keeps what every page shows together.
LEMMA TurnFits ==
  ASSUME StoreTypes, full \in BOOLEAN, PagesInv, NEW t \in Tabs, NEW p \in D!Page,
         HalfFits(p, page[t].unkept), NEW sending, D!Turn(t, p, sending)
  PROVE  PagesInv'
  <1>1. PICK q \in D!Screens(D!Spent(p, sending)) : D!Write(t, page[t].drafts, q)
    BY DEF D!Turn
  <1>2. q \in D!Page /\ PageFits(q) /\ q.unkept = page[t].unkept
    BY SpentFits, Screened
  <1>3. \A u \in Tabs : InTouch(u)'
    BY <1>1, <1>2, WritesInTouch DEF PagesInv
  <1>4. PICK k \in BOOLEAN : page' = [page EXCEPT ![t] = [q EXCEPT !.unkept = k]]
    BY <1>1, <1>2, WritesInTouch DEF PagesInv
  <1>5. PageFits([q EXCEPT !.unkept = k])
    BY <1>2 DEF PageFits, HalfFits, D!Page
  <1>6. \A u \in Tabs : PageFits(page'[u])
    BY <1>4, <1>5 DEF PagesInv, StoreTypes
  <1>. QED  BY <1>3, <1>6 DEF PagesInv, PageFits, HalfFits

-----------------------------------------------------------------------------
(* What the steps make of a page, and what stays on its screen.              *)

\* A draft its reader has changed, or whose save the server has just kept.
Owed(t, f) ==
  page[t].drafts[f] # None /\ (D!Standing(page[t], f) # "nothing" \/ D!KeptOf(t, f))

\* What it says, the page still says once the effects have run: in the draft, which then stands
\* for something, or in the list.
Stays(t, p, f, sending) ==
  \/ p.list = Unread
  \/ /\ p.drafts[f] # None /\ p.drafts[f].says = page[t].drafts[f].says
     /\ f = sending \/ p.drafts[f].base # p.drafts[f].says
  \/ p.drafts[f] = None /\ p.list[f] # None /\ p.list[f].says = page[t].drafts[f].says

\* A turn on a page that half fits, and that shows what it owes or was asked to let it go.
GoodTurn(t) ==
  \E p \in D!Page, sending \in Flows \cup {None} :
    /\ D!Turn(t, p, sending) /\ HalfFits(p, page[t].unkept)
    /\ D!Dismissed(t) \/ \A f \in Flows : Owed(t, f) => Stays(t, p, f, sending)

LEMMA Owes ==
  ASSUME DraftsInv, NEW t \in Tabs, NEW f \in Flows, Owed(t, f)
  PROVE  /\ page[t].drafts[f] \in [says : Drawings, base : Drawings \cup {Fresh}]
         /\ \/ D!KeptOf(t, f) /\ D!Sending(t) = f
            \/ page[t].drafts[f].base # page[t].drafts[f].says
  <1>1. page[t].drafts[f] \in D!Draft
    BY TypesInParts DEF DraftsInv, StoreTypes, D!Page
  <1>2. page[t].drafts[f] \in [says : Drawings, base : Drawings \cup {Fresh}]
    BY <1>1 DEF Owed, D!Draft
  <1>3. D!KeptOf(t, f) => D!Sending(t) = f
    BY DEF D!KeptOf
  <1>4. D!Standing(page[t], f) # "nothing" => page[t].drafts[f].base # page[t].drafts[f].says
    BY DEF D!Standing, D!StandingOf, Owed
  <1>. QED  BY <1>2, <1>3, <1>4 DEF Owed

LEMMA StaysAlike ==
  ASSUME DraftsInv, NEW t \in Tabs, NEW f \in Flows, Owed(t, f), NEW p, NEW sending,
         p.drafts[f] = page[t].drafts[f], sending = D!Sending(t) \/ ~D!KeptOf(t, f)
  PROVE  Stays(t, p, f, sending)
  BY Owes DEF Owed, Stays

LEMMA SendsAFlow ==
  ASSUME DraftsInv, NEW t \in Tabs
  PROVE  D!Sending(t) \in Flows \cup {None}
  BY SaveAt DEF DraftsInv, D!Sending, Pressed, Listed, Putting, Ended

\* The reader's own turns.
LEMMA ReaderTurns ==
  ASSUME DraftsInv, PagesInv, NEW t \in Tabs,
         \/ \E d \in Drawings : D!Edit(t, d) \/ D!NewFlow(t, d)
         \/ D!Discard(t) \/ D!Keep(t) \/ D!ShowFlow(t)
  PROVE  GoodTurn(t)
  <1>. DEFINE k == page[t].unkept
  <1>1. page[t] \in D!Page /\ HalfFits(page[t], k) /\ D!Sending(t) \in Flows \cup {None}
    BY SendsAFlow, TypesInParts DEF DraftsInv, StoreTypes, PagesInv, PageFits
  <1>2. ASSUME NEW d \in Drawings, D!Edit(t, d)
        PROVE  GoodTurn(t)
    <2>. DEFINE b(f) == IF page[t].drafts[f] = None THEN page[t].list[f].says
                        ELSE page[t].drafts[f].base
                n(f) == [says |-> d, base |-> b(f)]
                p(f) == [page[t] EXCEPT !.drafts[f] = n(f)]
    <2>1. PICK f \in Flows : D!Shown(t, f) /\ D!Turn(t, p(f), D!Sending(t))
      BY <1>2 DEF D!Edit
    <2>2. b(f) \in Drawings \cup {Fresh}
      <3>1. page[t].drafts[f] \in D!Draft /\ page[t].list \in D!Lists
        BY <1>1, <2>1 DEF D!Page, D!Shown
      <3>2. page[t].list[f] \in D!Copy
        BY <3>1 DEF D!Lists
      <3>3. page[t].drafts[f] = None => page[t].list[f] # None
        BY <2>1 DEF D!Shown, D!OnPage, D!CopyOf
      <3>. QED  BY <3>1, <3>2, <3>3 DEF D!Draft, D!Copy
    <2>3. n(f) \in D!Draft /\ n(f) # None
      BY <2>2, Apart DEF D!Draft
    <2>. HIDE DEF n
    <2>4. p(f) \in D!Page /\ HalfFits(p(f), k)
      BY <1>1, <2>3, Shows, HalfAfter
    <2>5. D!Dismissed(t)
      BY <1>2 DEF D!Dismissed
    <2>. HIDE DEF p, k
    <2>. QED  BY <1>1, <2>1, <2>4, <2>5 DEF GoodTurn, k
  <1>3. ASSUME NEW d \in Drawings, D!NewFlow(t, d)
        PROVE  GoodTurn(t)
    <2>. DEFINE n == [says |-> d, base |-> Fresh]
                q(f) == [page[t] EXCEPT !.drafts[f] = n]
                p(f) == D!Showing(q(f), f)
    <2>1. PICK f \in Flows : f \notin D!OnPage(page[t]) /\ D!Turn(t, p(f), D!Sending(t))
      BY <1>3 DEF D!NewFlow
    <2>2. n \in D!Draft /\ n # None
      BY Apart DEF D!Draft
    <2>. HIDE DEF n
    <2>3. q(f) \in D!Page /\ HalfFits(q(f), k)
      BY <1>1, <2>2, Shows, HalfAfter
    <2>4. \A g \in Flows \ {f} : q(f).drafts[g] = page[t].drafts[g]
      BY <1>1 DEF D!Page
    <2>5. ~Owed(t, f)
      BY <2>1 DEF D!OnPage, Owed
    <2>. HIDE DEF q
    <2>6. p(f) \in D!Page /\ HalfFits(p(f), k) /\ p(f).drafts = q(f).drafts
      BY <2>3, Shows, HalfAfter
    <2>. HIDE DEF p
    <2>7. \A g \in Flows : Owed(t, g) => Stays(t, p(f), g, D!Sending(t))
      BY <2>4, <2>5, <2>6, StaysAlike
    <2>. QED  BY <1>1, <2>1, <2>6, <2>7 DEF GoodTurn
  <1>4. CASE D!Discard(t)
    <2>1. PICK f \in Flows : D!Turn(t, D!Discarded(page[t], f), D!Sending(t))
      BY <1>4 DEF D!Discard
    <2>2. D!Discarded(page[t], f) \in D!Page /\ HalfFits(D!Discarded(page[t], f), k)
      BY <1>1, HalfAfter, DiscardedIsAPage
    <2>3. D!Dismissed(t)
      BY <1>4 DEF D!Dismissed
    <2>. QED  BY <1>1, <2>1, <2>2, <2>3 DEF GoodTurn
  <1>5. CASE D!Keep(t)
    <2>. DEFINE b(f) == IF page[t].list[f] = None THEN Fresh ELSE page[t].list[f].says
                n(f) == [page[t].drafts[f] EXCEPT !.base = b(f)]
                p(f) == [page[t] EXCEPT !.drafts[f].base = b(f)]
    <2>1. PICK f \in Flows : /\ D!Shown(t, f) /\ D!Standing(page[t], f) = "overtaken"
                             /\ D!Turn(t, p(f), D!Sending(t))
      BY <1>5 DEF D!Keep
    <2>2. page[t].drafts[f] # None /\ page[t].list \in D!Lists
      BY <1>1, <2>1 DEF D!Standing, D!Shown, D!Page
    <2>3. b(f) \in Drawings \cup {Fresh}
      BY <2>2 DEF D!Lists, D!Copy
    <2>4. page[t].drafts[f] \in [says : Drawings, base : Drawings \cup {Fresh}]
      BY <1>1, <2>2 DEF D!Page, D!Draft
    <2>5. page[t].drafts[f].says # b(f)
      BY <2>1, <2>2 DEF D!Standing, D!StandingOf, D!CopyOf, D!Shown
    <2>. HIDE DEF b
    <2>6. n(f) \in [says : Drawings, base : Drawings \cup {Fresh}]
      BY <2>3, <2>4
    <2>7. n(f) \in D!Draft /\ n(f) # None /\ n(f).says = page[t].drafts[f].says /\ n(f).base # n(f).says
      BY <2>4, <2>5, <2>6, Apart DEF D!Draft
    <2>8. p(f) = [page[t] EXCEPT !.drafts[f] = n(f)]
      BY <1>1 DEF D!Page
    <2>. HIDE DEF n
    <2>. HIDE DEF p
    <2>9. p(f) \in D!Page /\ HalfFits(p(f), k)
      BY <1>1, <2>7, <2>8, Shows, HalfAfter
    <2>10. p(f).drafts = [page[t].drafts EXCEPT ![f] = n(f)]
      BY <1>1, <2>8 DEF D!Page
    <2>11. \A g \in Flows : Owed(t, g) => Stays(t, p(f), g, D!Sending(t))
      <3>. SUFFICES ASSUME NEW g \in Flows, Owed(t, g)
                    PROVE  Stays(t, p(f), g, D!Sending(t))
        OBVIOUS
      <3>1. CASE g = f
        <4>1. p(f).drafts[g] = n(f)
          BY <1>1, <2>10, <3>1 DEF D!Page
        <4>. QED  BY <2>7, <3>1, <4>1 DEF Stays
      <3>2. CASE g # f
        <4>1. p(f).drafts[g] = page[t].drafts[g]
          BY <1>1, <2>10, <3>2 DEF D!Page
        <4>. QED  BY <4>1, StaysAlike
      <3>. QED  BY <3>1, <3>2
    <2>. QED  BY <1>1, <2>1, <2>9, <2>11 DEF GoodTurn
  <1>6. CASE D!ShowFlow(t)
    <2>1. PICK f \in Flows : D!Turn(t, D!Showing(page[t], f), D!Sending(t))
      BY <1>6 DEF D!ShowFlow, D!OnPage
    <2>2. /\ D!Showing(page[t], f) \in D!Page /\ HalfFits(D!Showing(page[t], f), k)
          /\ D!Showing(page[t], f).drafts = page[t].drafts
      BY <1>1, Shows, HalfAfter
    <2>3. \A g \in Flows : Owed(t, g) => Stays(t, D!Showing(page[t], f), g, D!Sending(t))
      BY <2>2, StaysAlike
    <2>. QED  BY <1>1, <2>1, <2>2, <2>3 DEF GoodTurn
  <1>. QED  BY <1>2, <1>3, <1>4, <1>5, <1>6

\* The turns that answers make of reads, tests, deletes and the read of a save.
LEMMA AnswersTurn ==
  ASSUME DraftsInv, PagesInv, NEW t \in Tabs,
         D!ReadLands(t) \/ D!SaveReadFails(t) \/ D!SaveReadLands(t) \/ D!TestLands(t) \/ D!DeleteLands(t)
  PROVE  GoodTurn(t)
  <1>. DEFINE k == page[t].unkept
  <1>1. page[t] \in D!Page /\ HalfFits(page[t], k) /\ D!Sending(t) \in Flows \cup {None}
    BY SendsAFlow, TypesInParts DEF DraftsInv, StoreTypes, PagesInv, PageFits
  <1>2. ASSUME NEW p \in D!Page, HalfFits(p, k), p.drafts = page[t].drafts,
               NEW sending \in Flows \cup {None}, D!Turn(t, p, sending),
               sending = D!Sending(t) \/ save[t].stage # "answered"
        PROVE  GoodTurn(t)
    <2>1. \A f \in Flows : Owed(t, f) => Stays(t, p, f, sending)
      BY <1>2, StaysAlike DEF D!KeptOf
    <2>. QED  BY <1>2, <2>1 DEF GoodTurn
  <1>3. ASSUME NEW list \in D!Lists
        PROVE  /\ [page[t] EXCEPT !.list = list] \in D!Page
               /\ HalfFits([page[t] EXCEPT !.list = list], k)
               /\ [page[t] EXCEPT !.list = list].drafts = page[t].drafts
    <2>1. [page[t] EXCEPT !.list = list].drafts = page[t].drafts
      BY <1>1 DEF D!Page
    <2>. QED  BY <1>1, <2>1, Relists, HalfAfter
  <1>4. CASE D!ReadLands(t)
    <2>1. read[t].list \in D!Lists /\ D!Turn(t, [page[t] EXCEPT !.list = read[t].list], D!Sending(t))
      BY <1>4, RequestAt DEF DraftsInv, D!ReadLands
    <2>. QED  BY <1>1, <1>2, <1>3, <2>1
  <1>5. CASE D!SaveReadFails(t)
    BY <1>1, <1>2, <1>5 DEF D!SaveReadFails
  <1>6. CASE D!SaveReadLands(t)
    <2>1. save[t].list \in D!Lists /\ save[t].stage = "listed"
      BY <1>6, SaveAt DEF DraftsInv, D!SaveReadLands, Listed
    <2>2. PICK sending \in {None, D!Sending(t)} :
            D!Turn(t, [page[t] EXCEPT !.list = save[t].list], sending)
      BY <1>6 DEF D!SaveReadLands
    <2>. QED  BY <1>1, <1>2, <1>3, <2>1, <2>2
  <1>7. CASE D!TestLands(t)
    <2>1. test[t].stage = "out"
      BY <1>7 DEF D!TestLands
    <2>2. PICK p \in {D!Lapse(page[t], {test[t].flow}), page[t],
                      D!Refuse(page[t], test[t].flow, test[t].says, test[t].drafted)} :
            D!Turn(t, p, D!Sending(t))
      BY <1>7 DEF D!TestLands
    <2>3. test[t].flow \in Flows /\ test[t].says \in Drawings /\ test[t].drafted \in BOOLEAN
      BY <2>1, RequestAt DEF DraftsInv
    <2>4. /\ D!Lapse(page[t], {test[t].flow}) \in D!Page
          /\ D!Lapse(page[t], {test[t].flow}).drafts = page[t].drafts
          /\ HalfFits(D!Lapse(page[t], {test[t].flow}), k)
      BY <1>1, Lapses, HalfAfter
    <2>5. /\ D!Refuse(page[t], test[t].flow, test[t].says, test[t].drafted) \in D!Page
          /\ D!Refuse(page[t], test[t].flow, test[t].says, test[t].drafted).drafts = page[t].drafts
          /\ HalfFits(D!Refuse(page[t], test[t].flow, test[t].says, test[t].drafted), k)
      BY <1>1, <2>3, Refuses, HalfAfter
    <2>6. p \in D!Page /\ p.drafts = page[t].drafts /\ HalfFits(p, k)
      BY <1>1, <2>2, <2>4, <2>5
    <2>. QED  BY <1>1, <1>2, <2>2, <2>6
  <1>8. CASE D!DeleteLands(t)
    <2>. DEFINE f == del[t].flow
                q == D!PutInList(page[t], f, None)
    <2>1. del[t].stage = "gone" /\ D!Turn(t, D!Discarded(q, f), D!Sending(t))
      BY <1>8 DEF D!DeleteLands
    <2>2. f \in Flows
      BY <2>1, RequestAt DEF DraftsInv
    <2>3. q \in D!Page /\ HalfFits(q, k)
      BY <1>1, <2>2, Relists, HalfAfter DEF D!Copy
    <2>. HIDE DEF q
    <2>4. D!Discarded(q, f) \in D!Page /\ HalfFits(D!Discarded(q, f), k)
      BY <2>2, <2>3, DiscardedIsAPage, HalfAfter
    <2>5. D!Dismissed(t)
      BY <1>8 DEF D!Dismissed
    <2>. QED  BY <1>1, <2>1, <2>4, <2>5 DEF GoodTurn
  <1>. QED  BY <1>4, <1>5, <1>6, <1>7, <1>8

\* What the answer of a save makes of the page: what was typed while it was out, on the copy
\* just kept, or that copy in the list.
LEMMA SavedStays ==
  ASSUME DraftsInv, NEW t \in Tabs, save[t].stage = "answered", NEW f \in Flows, Owed(t, f)
  PROVE  Stays(t, D!Saved(page[t], save[t]), f, None)
  <1>. DEFINE s == save[t]
              q == D!PutInList(page[t], s.flow, s.sent)
              r == D!Let(q, {s.flow})
              since == q.drafts[s.flow]
              d == [says |-> since.says, base |-> s.sent.says]
              p == D!Saved(page[t], s)
  <1>1. s \in Ended /\ SaveKnows(s, server) /\ page[t] \in D!Page
    BY SaveAt, TypesInParts DEF DraftsInv, SavesKnow, StoreTypes
  <1>2. s.flow \in Flows /\ s.sent \in Kept /\ s.sent \in D!Copy /\ s.sent # None /\ s.says \in Drawings
    BY <1>1, Apart DEF Ended, Kept, D!Copy
  <1>3. /\ q \in D!Page /\ q.drafts = page[t].drafts
        /\ q.list = Unread \/ q.list[s.flow] = s.sent
    <2>1. q \in D!Page /\ q.drafts = page[t].drafts
      BY <1>1, <1>2, Relists
    <2>2. q.list = Unread \/ q.list[s.flow] = s.sent
      BY <1>1, <1>2 DEF D!PutInList, D!Page, D!Lists
    <2>. QED  BY <2>1, <2>2
  <1>4. p = IF s.kind = "deactivate" THEN q
            ELSE IF since # None /\ since.says # s.says
                 THEN [r EXCEPT !.drafts[s.flow] = d] ELSE r
    BY Zenon DEF D!Saved
  <1>5. /\ page[t].drafts[f] \in [says : Drawings, base : Drawings \cup {Fresh}]
        /\ page[t].drafts[f] # None
    BY Owes DEF Owed
  <1>. HIDE DEF q, p
  <1>6. CASE s.kind = "deactivate"
    <2>1. D!Sending(t) = None
      BY <1>6 DEF D!Sending
    <2>2. ~D!KeptOf(t, f)
      BY <2>1, Apart DEF D!KeptOf
    <2>. QED  BY <1>3, <1>4, <1>6, <2>2, StaysAlike DEF p
  <1>7. CASE s.kind # "deactivate"
    <2>1. /\ r \in D!Page /\ r.list = q.list
          /\ \A g \in Flows : r.drafts[g] = IF g = s.flow THEN None ELSE q.drafts[g]
      BY <1>3, LetGo
    <2>. HIDE DEF r
    <2>2. s.sent.says = s.says
      BY <1>1, <1>7 DEF SaveKnows
    <2>3. CASE f # s.flow
      <3>1. p.drafts[f] = page[t].drafts[f]
        BY <1>2, <1>3, <1>4, <1>7, <2>1, <2>3 DEF D!Page
      <3>2. ~D!KeptOf(t, f)
        BY <1>7, <2>3 DEF D!KeptOf, D!Sending
      <3>. QED  BY <3>1, <3>2, StaysAlike DEF p
    <2>4. CASE f = s.flow /\ since.says # s.says
      <3>1. since = page[t].drafts[f]
        BY <1>3, <2>4
      <3>2. d \in [says : Drawings, base : Drawings \cup {Fresh}] /\ d.says = since.says /\ d.base = s.says
        BY <1>2, <1>5, <2>2, <3>1
      <3>3. d # None
        BY <3>2, Apart
      <3>4. p = [r EXCEPT !.drafts[s.flow] = d]
        BY <1>4, <1>5, <1>7, <2>4, <3>1
      <3>. HIDE DEF d, since
      <3>5. p.drafts[f] = d
        BY <1>2, <2>1, <2>4, <3>4 DEF D!Page
      <3>. QED  BY <2>4, <3>1, <3>2, <3>3, <3>5 DEF Stays, p
    <2>5. CASE f = s.flow /\ since.says = s.says
      <3>1. since = page[t].drafts[f]
        BY <1>3, <2>5
      <3>2. p = r
        BY <1>4, <1>7, <2>5
      <3>3. p.drafts[f] = None /\ p.list = q.list
        BY <2>1, <2>5, <3>2
      <3>. QED  BY <1>2, <1>3, <2>2, <2>5, <3>1, <3>3 DEF Stays, p
    <2>. QED  BY <2>3, <2>4, <2>5
  <1>. QED  BY <1>6, <1>7

LEMMA SaveLandsTurns ==
  ASSUME DraftsInv, PagesInv, NEW t \in Tabs, D!SaveLands(t)
  PROVE  GoodTurn(t)
  <1>. DEFINE k == page[t].unkept
              s == save[t]
              p == CASE s.outcome = "kept" -> D!Saved(page[t], s)
                     [] s.outcome = "refused" /\ s.kind # "deactivate" ->
                          D!Refuse(page[t], s.flow, s.says, s.drafted)
                     [] OTHER -> page[t]
  <1>1. s.stage = "answered" /\ D!Turn(t, p, None)
    BY DEF D!SaveLands
  <1>2. s \in Ended /\ page[t] \in D!Page /\ HalfFits(page[t], k)
    BY <1>1, SaveAt, TypesInParts DEF DraftsInv, StoreTypes, PagesInv, PageFits
  <1>3. CASE s.outcome = "kept"
    <2>1. p = D!Saved(page[t], s)
      BY <1>3
    <2>2. p \in D!Page
      BY <1>2, <2>1, SavedIsAPage
    <2>3. HalfFits(p, k)
      <3>. DEFINE q == D!PutInList(page[t], s.flow, s.sent)
                  r == D!Let(q, {s.flow})
                  since == q.drafts[s.flow]
                  d == [says |-> since.says, base |-> s.sent.says]
      <3>1. s.flow \in Flows /\ s.sent \in D!Copy /\ s.sent.says \in Drawings
        BY <1>2 DEF Ended, Kept, D!Copy
      <3>2. q \in D!Page /\ HalfFits(q, k)
        BY <1>2, <3>1, Relists, HalfAfter
      <3>3. p = IF s.kind = "deactivate" THEN q
                ELSE IF since # None /\ since.says # s.says
                     THEN [r EXCEPT !.drafts[s.flow] = d] ELSE r
        BY <2>1, Zenon DEF D!Saved
      <3>. HIDE DEF q, p
      <3>4. r \in D!Page /\ HalfFits(r, k)
        BY <3>2, LetGo, HalfAfter
      <3>. HIDE DEF r
      <3>5. since # None => d \in D!Draft /\ d # None
        <4>1. since \in D!Draft
          BY <3>1, <3>2 DEF D!Page
        <4>2. since # None => d \in [says : Drawings, base : Drawings \cup {Fresh}]
          BY <3>1, <4>1 DEF D!Draft
        <4>. QED  BY <4>2, Apart DEF D!Draft
      <3>. HIDE DEF d
      <3>6. since # None => HalfFits([r EXCEPT !.drafts[s.flow] = d], k)
        BY <3>1, <3>4, <3>5, HalfAfter
      <3>. QED  BY <3>2, <3>3, <3>4, <3>6
    <2>4. \A f \in Flows : Owed(t, f) => Stays(t, p, f, None)
      BY <1>1, <2>1, SavedStays
    <2>. HIDE DEF p
    <2>. QED  BY <1>1, <2>2, <2>3, <2>4 DEF GoodTurn
  <1>4. CASE s.outcome # "kept"
    <2>1. p \in {page[t], D!Refuse(page[t], s.flow, s.says, s.drafted)}
      BY <1>4
    <2>2. s.flow \in Flows /\ s.says \in Drawings /\ s.drafted \in BOOLEAN
      BY <1>2 DEF Ended
    <2>3. /\ D!Refuse(page[t], s.flow, s.says, s.drafted) \in D!Page
          /\ D!Refuse(page[t], s.flow, s.says, s.drafted).drafts = page[t].drafts
          /\ HalfFits(D!Refuse(page[t], s.flow, s.says, s.drafted), k)
      BY <1>2, <2>2, Refuses, HalfAfter
    <2>. HIDE DEF p
    <2>4. p \in D!Page /\ p.drafts = page[t].drafts /\ HalfFits(p, k)
      BY <1>2, <2>1, <2>3
    <2>5. \A f \in Flows : Owed(t, f) => Stays(t, p, f, None)
      BY <1>4, <2>4, StaysAlike DEF D!KeptOf
    <2>. QED  BY <1>1, <2>4, <2>5 DEF GoodTurn
  <1>. QED  BY <1>3, <1>4

-----------------------------------------------------------------------------
(* The steps that are no turn.                                               *)

LEMMA Tails ==
  ASSUME NEW S, NEW s \in Seq(S), s # <<>>
  PROVE  IF Tail(s) = <<>> THEN s[Len(s)] = Head(s) ELSE Tail(s)[Len(Tail(s))] = s[Len(s)]
  <1>. DEFINE n == Len(s)
              r == Tail(s)
  <1>1. n \in Nat \ {0} /\ r \in Seq(S) /\ Len(r) = n - 1 /\ Head(s) = s[1]
        /\ \A i \in 1..(n - 1) : r[i] = s[i + 1]
    OBVIOUS
  <1>. HIDE DEF n, r
  <1>2. CASE n = 1
    <2>1. r = <<>>
      BY <1>1, <1>2
    <2>. QED  BY <1>1, <1>2, <2>1 DEF n, r
  <1>3. CASE n # 1
    <2>1. n - 1 \in 1..(n - 1) /\ Len(r) # 0
      BY <1>1, <1>3
    <2>2. r # <<>> /\ r[n - 1] = s[n]
      BY <1>1, <2>1
    <2>. QED  BY <1>1, <2>2 DEF n, r
  <1>. QED  BY <1>2, <1>3

\* A page that takes in what another tab wrote half fits, and has that draft.
LEMMA HeardHalfFits ==
  ASSUME NEW p \in D!Page, NEW unkept, HalfFits(p, unkept), NEW f \in Flows,
         NEW e \in D!Draft \cup {Whole}, kept[f] \in D!Draft
  PROVE  /\ HalfFits(D!Heard(p, f, e), unkept)
         /\ D!Heard(p, f, e).drafts[f] = IF e = Whole THEN kept[f] ELSE e
         /\ \A g \in Flows \ {f} : D!Heard(p, f, e).drafts[g] = p.drafts[g]
  <1>. DEFINE d == IF e = Whole THEN kept[f] ELSE e
  <1>1. d \in D!Draft
    OBVIOUS
  <1>2. D!Heard(p, f, e) = IF p.drafts[f] # None /\ d = None
                           THEN D!Let(p, {f}) ELSE [p EXCEPT !.drafts[f] = d]
    BY DEF D!Heard
  <1>. HIDE DEF d
  <1>3. CASE p.drafts[f] # None /\ d = None
    <2>1. /\ HalfFits(D!Let(p, {f}), unkept)
          /\ \A g \in Flows : D!Let(p, {f}).drafts[g] = IF g \in {f} THEN None ELSE p.drafts[g]
      BY LetGo, HalfAfter
    <2>. QED  BY <1>2, <1>3, <2>1 DEF d
  <1>4. CASE ~(p.drafts[f] # None /\ d = None)
    <2>1. D!Heard(p, f, e) = [p EXCEPT !.drafts[f] = d]
      BY <1>2, <1>4
    <2>2. \A g \in Flows : [p EXCEPT !.drafts[f] = d].drafts[g] = IF g = f THEN d ELSE p.drafts[g]
      BY DEF D!Page
    <2>3. HalfFits([p EXCEPT !.drafts[f] = d], unkept)
      <3>1. CASE d # None
        BY <1>1, <3>1, HalfAfter
      <3>2. CASE d = None
        BY <1>4, <2>2, <3>2 DEF HalfFits, D!Page
      <3>. QED  BY <3>1, <3>2
    <2>. QED  BY <2>1, <2>2, <2>3 DEF d
  <1>. QED  BY <1>3, <1>4

LEMMA HearFits ==
  ASSUME DraftsInv, PagesInv, NEW t \in Tabs, NEW f \in Flows, D!Hear(t, f)
  PROVE  PagesInv'
  <1>. DEFINE e == Head(heard[t][f])
              p == D!Heard(page[t], f, e)
              rest == [heard EXCEPT ![t][f] = Tail(@)]
              spent(q) == {g \in Flows : q.drafts[g] # p.drafts[g]}
              wrote(q) == {g \in spent(q) : kept[g] # None}
  <1>1. PICK q \in D!Screens(D!Spent(p, D!Sending(t))) :
          /\ page' = [page EXCEPT ![t] = q]
          /\ kept' = [g \in Flows |-> IF g \in spent(q) THEN None ELSE kept[g]]
          /\ heard' = [u \in Tabs |-> [g \in Flows |->
                         IF u # t /\ g \in wrote(q) THEN Append(rest[u][g], None) ELSE rest[u][g]]]
          /\ crossed' = crossed \cup {g \in wrote(q) : rest[t][g] # <<>>}
    BY DEF D!Hear
  <1>2. heard[t][f] # <<>>
    BY DEF D!Hear
  <1>3. StoreTypes /\ page[t] \in D!Page
    BY TypesInParts DEF DraftsInv, StoreTypes
  <1>4. /\ \A u \in Tabs, g \in Flows : heard[u][g] \in Seq(D!Draft \cup {Whole})
        /\ \A g \in Flows : kept[g] \in D!Draft
    BY <1>3 DEF StoreTypes
  <1>5. e \in D!Draft \cup {Whole}
    BY <1>2, <1>4
  <1>6. /\ IF Tail(heard[t][f]) = <<>> THEN heard[t][f][Len(heard[t][f])] = e
           ELSE Tail(heard[t][f])[Len(Tail(heard[t][f]))] = heard[t][f][Len(heard[t][f])]
    BY <1>2, <1>4, Tails
  <1>7. HalfFits(page[t], page[t].unkept)
    BY DEF PagesInv, PageFits
  <1>. HIDE DEF e
  <1>8. /\ p \in D!Page /\ HalfFits(p, page[t].unkept)
        /\ p.drafts[f] = IF e = Whole THEN kept[f] ELSE e
        /\ \A g \in Flows \ {f} : p.drafts[g] = page[t].drafts[g]
    BY <1>3, <1>4, <1>5, <1>7, HeardIsAPage, HeardHalfFits
  <1>. HIDE DEF p
  <1>9. /\ PageFits(q) /\ q.unkept = page[t].unkept
        /\ \A g \in Flows : q.drafts[g] \in {p.drafts[g], None}
    BY <1>8, SpentFits
  <1>10. \A u \in Tabs, g \in Flows : rest[u][g] = IF u = t /\ g = f THEN Tail(heard[t][f]) ELSE heard[u][g]
    BY <1>3 DEF StoreTypes
  <1>11. \A g \in Flows : /\ g \in spent(q) => q.drafts[g] = None
                          /\ g \notin spent(q) => q.drafts[g] = p.drafts[g]
                          /\ g \in wrote(q) => g \in spent(q)
                          /\ g \in spent(q) /\ g \notin wrote(q) => kept[g] = None
    BY <1>9
  <1>. HIDE DEF rest, wrote, spent
  <1>12. /\ page'[t] = q /\ \A u \in Tabs \ {t} : page'[u] = page[u]
         /\ \A g \in Flows : g \notin crossed' =>
              g \notin crossed /\ (g \in wrote(q) => rest[t][g] = <<>>)
         /\ \A g \in Flows : kept'[g] = IF g \in spent(q) THEN None ELSE kept[g]
    BY <1>1, <1>3 DEF StoreTypes
  <1>13. ASSUME NEW u \in Tabs, NEW g \in Flows \ crossed'
         PROVE  IF heard'[u][g] = <<>> THEN page'[u].drafts[g] = kept'[g] \/ page'[u].unkept
                ELSE heard'[u][g][Len(heard'[u][g])] \in {kept'[g], Whole}
    <2>1. /\ g \notin crossed
          /\ IF heard[u][g] = <<>> THEN page[u].drafts[g] = kept[g] \/ page[u].unkept
             ELSE heard[u][g][Len(heard[u][g])] \in {kept[g], Whole}
      BY <1>12 DEF PagesInv, InTouch
    <2>2. kept'[g] = kept[g] \/ g \in wrote(q)
      BY <1>11, <1>12
    <2>3. CASE u # t /\ g \in wrote(q)
      <3>1. heard'[u][g] = Append(heard[u][g], None) /\ kept'[g] = None
        BY <1>1, <1>10, <1>11, <1>12, <2>3
      <3>2. Append(heard[u][g], None) # <<>>
            /\ Append(heard[u][g], None)[Len(Append(heard[u][g], None))] = None
        BY <1>4
      <3>. QED  BY <3>1, <3>2
    <2>4. CASE u # t /\ g \notin wrote(q)
      <3>1. heard'[u][g] = heard[u][g] /\ page'[u] = page[u]
        BY <1>1, <1>10, <1>12, <2>4
      <3>. QED  BY <2>1, <2>2, <2>4, <3>1
    <2>5. CASE u = t /\ g \in wrote(q)
      <3>1. heard'[u][g] = <<>> /\ kept'[g] = None /\ page'[u].drafts[g] = None
        BY <1>1, <1>11, <1>12, <2>5
      <3>. QED  BY <3>1
    <2>6. CASE u = t /\ g \notin wrote(q)
      <3>1. heard'[u][g] = rest[t][g] /\ kept'[g] = kept[g] /\ page'[u] = q
        BY <1>1, <1>12, <2>2, <2>6
      <3>2. CASE g = f
        <4>1. rest[t][g] = Tail(heard[t][f])
          BY <1>10, <3>2
        <4>2. heard[t][f][Len(heard[t][f])] \in {kept[g], Whole}
          BY <1>2, <2>1, <2>6, <3>2
        <4>3. CASE Tail(heard[t][f]) = <<>>
          <5>1. p.drafts[f] = kept[f]
            BY <1>6, <1>8, <3>2, <4>2, <4>3
          <5>2. q.drafts[f] = kept'[f]
            BY <1>11, <1>12, <3>1, <3>2, <5>1
          <5>. QED  BY <3>1, <3>2, <4>1, <4>3, <5>2
        <4>4. CASE Tail(heard[t][f]) # <<>>
          BY <1>6, <3>1, <4>1, <4>2, <4>4
        <4>. QED  BY <4>3, <4>4
      <3>3. CASE g # f
        <4>1. rest[t][g] = heard[t][g] /\ p.drafts[g] = page[t].drafts[g]
          BY <1>8, <1>10, <3>3
        <4>2. q.drafts[g] = kept'[g] \/ q.drafts[g] = page[t].drafts[g]
          BY <1>11, <1>12, <4>1
        <4>. QED  BY <1>9, <2>1, <2>6, <3>1, <4>1, <4>2
      <3>. QED  BY <3>2, <3>3
    <2>. QED  BY <2>3, <2>4, <2>5, <2>6
  <1>14. \A u \in Tabs : PageFits(page'[u])
    BY <1>9, <1>12 DEF PagesInv
  <1>. QED  BY <1>13, <1>14 DEF PagesInv, InTouch, PageFits, HalfFits

LEMMA PickFits ==
  ASSUME DraftsInv, PagesInv, NEW t \in Tabs, D!Pick(t)
  PROVE  /\ PagesInv'
         /\ \A u \in Tabs : page'[u].list = page[u].list /\ page'[u].drafts = page[u].drafts
  <1>1. PICK f \in Flows : D!Shown(t, f) /\ page' = [page EXCEPT ![t].pick = IF @ = f THEN None ELSE f]
    BY DEF D!Pick
  <1>2. UNCHANGED <<kept, heard, crossed>>
    BY DEF D!Pick
  <1>3. page \in [Tabs -> D!Page] /\ page[t] \in D!Page
    BY TypesInParts DEF DraftsInv, StoreTypes
  <1>. DEFINE q == [page[t] EXCEPT !.pick = IF page[t].pick = f THEN None ELSE f]
  <1>4. /\ q.drafts = page[t].drafts /\ q.refused = page[t].refused /\ q.list = page[t].list
        /\ q.current = page[t].current /\ q.unkept = page[t].unkept /\ q.pick \in {None, f}
    BY <1>3 DEF D!Page
  <1>5. page' = [page EXCEPT ![t] = q]
    BY <1>1, <1>3
  <1>. HIDE DEF q
  <1>6. page'[t] = q /\ \A u \in Tabs \ {t} : page'[u] = page[u]
    BY <1>3, <1>5
  <1>7. PageFits(q)
    BY <1>1, <1>4 DEF PagesInv, PageFits, HalfFits, D!Shown
  <1>8. \A u \in Tabs : PageFits(page'[u])
    BY <1>6, <1>7 DEF PagesInv
  <1>9. \A u \in Tabs : InTouch(u)'
    BY <1>2, <1>4, <1>6 DEF PagesInv, InTouch
  <1>. QED  BY <1>4, <1>6, <1>8, <1>9 DEF PagesInv, PageFits, HalfFits

LEMMA ReloadFits ==
  ASSUME DraftsInv, PagesInv, NEW t \in Tabs, D!Reload(t)
  PROVE  PagesInv'
  <1>. DEFINE q == [page[t] EXCEPT !.drafts = kept, !.refused = [f \in Flows |-> None],
                                   !.list = Unread, !.pick = None, !.unkept = FALSE]
  <1>1. /\ page' = [page EXCEPT ![t] = q] /\ heard' = [heard EXCEPT ![t] = [f \in Flows |-> <<>>]]
        /\ UNCHANGED <<kept, crossed>>
    BY TypesInParts DEF D!Reload, DraftsInv, StoreTypes
  <1>2. StoreTypes /\ page[t] \in D!Page
    BY TypesInParts DEF DraftsInv, StoreTypes
  <1>3. q.drafts = kept /\ q.list = Unread /\ q.pick = None /\ \A f \in Flows : q.refused[f] = None
    BY <1>2 DEF D!Page
  <1>. HIDE DEF q
  <1>4. PageFits(q)
    BY <1>3, Apart DEF PageFits, HalfFits
  <1>5. /\ page'[t] = q /\ \A f \in Flows : heard'[t][f] = <<>>
        /\ \A u \in Tabs \ {t} : page'[u] = page[u] /\ heard'[u] = heard[u]
    BY <1>1, <1>2 DEF StoreTypes
  <1>6. \A u \in Tabs : PageFits(page'[u])
    BY <1>4, <1>5 DEF PagesInv
  <1>7. \A u \in Tabs : InTouch(u)'
    BY <1>1, <1>3, <1>5 DEF PagesInv, InTouch
  <1>. QED  BY <1>6, <1>7 DEF PagesInv, PageFits, HalfFits

LEMMA ClearedFits ==
  ASSUME DraftsInv, PagesInv, D!StorageCleared
  PROVE  PagesInv'
  <1>1. /\ UNCHANGED <<page, crossed>> /\ heard' = [t \in Tabs |-> [f \in Flows |-> <<Whole>>]]
    BY DEF D!StorageCleared
  <1>2. \A t \in Tabs : InTouch(t)'
    BY <1>1 DEF InTouch
  <1>. QED  BY <1>1, <1>2 DEF PagesInv, PageFits, HalfFits

Quiet == UNCHANGED <<page, kept, heard, crossed>>

\* Every step is one of these.
LEMMA StepsOfPages ==
  ASSUME DraftsInv, PagesInv, [D!Next]_(D!vars)
  PROVE  \/ Quiet \/ D!StorageCleared
         \/ \E t \in Tabs : \/ GoodTurn(t) \/ D!Pick(t) \/ D!Reload(t)
                            \/ \E f \in Flows : D!Hear(t, f)
  <1>1. UNCHANGED D!vars => Quiet
    BY DEF D!vars, Quiet
  <1>2. D!Environment => Quiet \/ D!StorageCleared
    BY DEF D!Environment, D!StorageFills, D!OtherChanges, Quiet
  <1>3. ASSUME NEW t \in Tabs, D!Reader(t)
        PROVE  GoodTurn(t) \/ D!Pick(t) \/ D!Reload(t)
    BY <1>3, ReaderTurns DEF D!Reader
  <1>4. ASSUME NEW t \in Tabs, D!Presses(t)
        PROVE  Quiet
    BY <1>4 DEF D!Presses, D!PressTest, D!PressDelete, D!Press, Quiet
  <1>5. ASSUME NEW t \in Tabs, D!Reads(t)
        PROVE  Quiet \/ GoodTurn(t)
    BY <1>5, AnswersTurn DEF D!Reads, D!StartRead, D!ReadServed, D!ReadFails, Quiet
  <1>6. ASSUME NEW t \in Tabs, D!Saves(t)
        PROVE  Quiet \/ GoodTurn(t)
    BY <1>6, AnswersTurn, SaveLandsTurns
       DEF D!Saves, D!SaveReadServed, D!PutKept, D!PutNotKept, Quiet
  <1>7. ASSUME NEW t \in Tabs, D!Rest(t)
        PROVE  Quiet \/ GoodTurn(t) \/ \E f \in Flows : D!Hear(t, f)
    BY <1>7, AnswersTurn DEF D!Rest, D!DeleteServed, Quiet
  <1>. QED  BY <1>1, <1>2, <1>3, <1>4, <1>5, <1>6, <1>7 DEF D!Next

LEMMA PagesStep == DraftsInv /\ PagesInv /\ [D!Next]_(D!vars) => PagesInv'
  <1>. SUFFICES ASSUME DraftsInv, PagesInv, [D!Next]_(D!vars)  PROVE PagesInv'
    OBVIOUS
  <1>1. StoreTypes /\ full \in BOOLEAN
    BY TypesInParts DEF DraftsInv, ServerTypes
  <1>2. CASE Quiet
    BY <1>2 DEF Quiet, PagesInv, PageFits, HalfFits, InTouch
  <1>3. ASSUME NEW t \in Tabs, GoodTurn(t)
        PROVE  PagesInv'
    BY <1>1, <1>3, TurnFits DEF GoodTurn
  <1>. QED  BY <1>2, <1>3, ClearedFits, PickFits, ReloadFits, HearFits, StepsOfPages

LEMMA PagesStart == D!Init => PagesInv
  <1>. SUFFICES ASSUME D!Init  PROVE PagesInv
    OBVIOUS
  <1>1. \A t \in Tabs : PageFits(page[t])
    BY Apart DEF D!Init, PageFits, HalfFits
  <1>2. \A t \in Tabs : InTouch(t)
    BY DEF D!Init, InTouch
  <1>. QED  BY <1>1, <1>2 DEF PagesInv

\* A page that shows what it owes, shows it still once the effects have run.
LEMMA StaysDrawn ==
  ASSUME DraftsInv, NEW t \in Tabs, NEW p \in D!Page, HalfFits(p, page[t].unkept), NEW sending,
         NEW f \in Flows, Owed(t, f), Stays(t, p, f, sending),
         NEW q \in D!Screens(D!Spent(p, sending))
  PROVE  q.list = Unread \/ D!Drawn(q, f) = D!Drawn(page[t], f)
  <1>. DEFINE says == page[t].drafts[f].says
  <1>1. /\ q.list = p.list /\ q.drafts[f] \in {p.drafts[f], None}
        /\ f = sending \/ D!Standing(p, f) # "nothing" \/ p.list = Unread => q.drafts[f] = p.drafts[f]
    BY SpentFits, Screened
  <1>2. D!Drawn(page[t], f) = says /\ says \in Drawings
    BY Owes DEF Owed, D!Drawn
  <1>3. CASE p.list # Unread /\ p.drafts[f] = None
    BY <1>1, <1>2, <1>3 DEF Stays, D!Drawn, D!CopyOf
  <1>4. CASE p.list # Unread /\ p.drafts[f] # None
    <2>1. p.drafts[f].says = says /\ (f = sending \/ p.drafts[f].base # says)
      BY <1>4 DEF Stays
    <2>2. CASE q.drafts[f] = p.drafts[f]
      BY <1>2, <1>4, <2>1, <2>2 DEF D!Drawn
    <2>3. CASE q.drafts[f] # p.drafts[f]
      <3>1. D!Standing(p, f) = "nothing" /\ q.drafts[f] = None /\ p.drafts[f].base # says
        BY <1>1, <2>1, <2>3
      <3>2. p.list[f] # None /\ p.list[f].says = says
        BY <1>2, <1>4, <2>1, <3>1, Apart DEF D!Standing, D!StandingOf, D!CopyOf
      <3>. QED  BY <1>1, <1>2, <1>4, <3>1, <3>2 DEF D!Drawn, D!CopyOf
    <2>. QED  BY <2>2, <2>3
  <1>. QED  BY <1>1, <1>3, <1>4

\* What a step does to a draft that is owed.
LEMMA OwedStays ==
  ASSUME DraftsInv, PagesInv, [D!Next]_(D!vars), NEW t \in Tabs, NEW f \in Flows, Owed(t, f)
  PROVE  \/ D!Drawn(page'[t], f) = D!Drawn(page[t], f)
         \/ page'[t].list = Unread
         \/ D!Dismissed(t)
  <1>1. StoreTypes /\ full \in BOOLEAN
    BY TypesInParts DEF DraftsInv, ServerTypes
  <1>2. CASE UNCHANGED page
    BY <1>2
  <1>3. ASSUME NEW u \in Tabs, D!Pick(u)
        PROVE  D!Drawn(page'[t], f) = D!Drawn(page[t], f)
    BY <1>3, PickFits DEF D!Drawn, D!CopyOf
  <1>4. ASSUME NEW u \in Tabs, u # t, GoodTurn(u) \/ D!Reload(u) \/ \E g \in Flows : D!Hear(u, g)
        PROVE  page'[t] = page[t]
    <2>1. \E q : page' = [page EXCEPT ![u] = q]
      BY <1>4 DEF GoodTurn, D!Turn, D!Write, D!Reload, D!Hear
    <2>. QED  BY <1>1, <1>4, <2>1 DEF StoreTypes
  <1>5. D!Reload(t) \/ (\E g \in Flows : D!Hear(t, g)) => D!Dismissed(t)
    BY DEF D!Dismissed
  <1>6. CASE GoodTurn(t)
    <2>1. PICK p \in D!Page, sending \in Flows \cup {None} :
            /\ D!Turn(t, p, sending) /\ HalfFits(p, page[t].unkept)
            /\ D!Dismissed(t) \/ Stays(t, p, f, sending)
      BY <1>6 DEF GoodTurn
    <2>2. PICK q \in D!Screens(D!Spent(p, sending)) : D!Write(t, page[t].drafts, q)
      BY <2>1 DEF D!Turn
    <2>3. q \in D!Page
      BY Screened
    <2>4. page'[t].list = q.list /\ page'[t].drafts = q.drafts
      BY <1>1, <2>2, <2>3, Writes
    <2>5. D!Drawn(page'[t], f) = D!Drawn(q, f)
      BY <2>4 DEF D!Drawn, D!CopyOf
    <2>. QED  BY <2>1, <2>2, <2>4, <2>5, StaysDrawn
  <1>. QED
    BY <1>2, <1>3, <1>4, <1>5, <1>6, StepsOfPages DEF Quiet, D!StorageCleared

-----------------------------------------------------------------------------
\* What a tab has drawn, read and sent keeps its types, and a save holds what its kind of press
\* does at each of its stages (flowDraftStore, useSave), for any flows, tabs and drawings.
THEOREM DraftTypes == D!Spec => [](D!TypeOK /\ RequestTypes)
  <1>1. D!Spec => []DraftsInv
    BY DraftsStart, DraftsStep, PTL DEF D!Spec
  <1>2. DraftsInv => D!TypeOK /\ RequestTypes
    BY DEF DraftsInv
  <1>. QED  BY <1>1, <1>2, PTL

\* A save replaces only the copy its drawing was made on, and only a flow switched as its button
\* said, unless somebody else changed it between the save's read and its put (useSave's weighing
\* of a press), for any flows, tabs, drawings and other consoles.
THEOREM NothingIsOverwrittenBlind == D!Spec => NoBlindOverwrite
  <1>1. D!Spec => []DraftsInv
    BY DraftsStart, DraftsStep, PTL DEF D!Spec
  <1>. DEFINE Known(t) ==
         LET s == save[t]
             was == server[s.flow]
         IN  CASE s.kind = "deactivate" -> was # None /\ was.says = server'[s.flow].says
               [] s.kind = "update" -> was # None /\ was.on /\ was.says \in {s.base, s.says}
               [] OTHER -> IF s.drafted THEN was = None \/ was.says \in {s.base, s.says}
                           ELSE was # None /\ ~was.on /\ was.says = s.says
  <1>2. ASSUME DraftsInv, NEW t \in Tabs, D!PutKept(t), ~save[t].raced
        PROVE  Known(t)
    <2>1. save[t].stage = "putting" /\ server' = [server EXCEPT ![save[t].flow] = save[t].sent]
      BY <1>2 DEF D!PutKept
    <2>2. save[t] \in Putting /\ SaveKnows(save[t], server)
      BY <1>2, <2>1, SaveAt DEF DraftsInv, SavesKnow
    <2>3. Onto(save[t], server[save[t].flow])
      BY <1>2, <2>1, <2>2 DEF SaveKnows
    <2>4. server'[save[t].flow] = save[t].sent
      BY <1>2, <2>1, <2>2, TypesInParts DEF DraftsInv, ServerTypes, Putting
    <2>. QED  BY <2>3, <2>4 DEF Onto
  <1>3. DraftsInv /\ [D!Next]_(D!vars) =>
          [\A t \in Tabs : D!PutKept(t) /\ ~save[t].raced => Known(t)]_(D!vars)
    BY <1>2
  <1>. QED  BY <1>1, <1>3, PTL DEF D!Spec, NoBlindOverwrite, D!NoBlindOverwrite

\* What a reader has changed stays on their screen through every save, read, refusal and
\* reload of the list, until they discard it or delete the flow (FlowsPage's settle, useSave),
\* for any flows, tabs, drawings and other consoles.
THEOREM ChangesStay == D!Spec => ChangesStayOnScreen
  <1>1. D!Spec => [](DraftsInv /\ PagesInv)
    BY DraftsStart, DraftsStep, PagesStart, PagesStep, PTL DEF D!Spec
  <1>2. DraftsInv /\ PagesInv /\ [D!Next]_(D!vars) =>
          [\A t \in Tabs, f \in Flows :
             /\ page[t].drafts[f] # None
             /\ D!Standing(page[t], f) # "nothing" \/ D!KeptOf(t, f)
             => \/ D!Drawn(page'[t], f) = D!Drawn(page[t], f)
                \/ page'[t].list = Unread
                \/ D!Dismissed(t)]_(D!vars)
    BY OwedStays DEF Owed
  <1>. QED  BY <1>1, <1>2, PTL DEF D!Spec, ChangesStayOnScreen, D!ChangesStayOnScreen

\* The pieces of a tab agree: a refusal has its subject on screen, what is picked is in the flow
\* shown, and a tab that has heard every write holds what storage does (flowDraftStore,
\* flowsStore, FlowsPage), for any flows, tabs and drawings.
THEOREM PagesOfATab ==
  D!Spec => [](D!TypeOK /\ D!RefusalsHaveTheirSubject /\ D!PickIsOnScreen /\ D!TabsAgree)
  <1>1. D!Spec => [](DraftsInv /\ PagesInv)
    BY DraftsStart, DraftsStep, PagesStart, PagesStep, PTL DEF D!Spec
  <1>2. ASSUME DraftsInv, PagesInv
        PROVE  D!TypeOK /\ D!RefusalsHaveTheirSubject /\ D!PickIsOnScreen /\ D!TabsAgree
    <2>1. D!RefusalsHaveTheirSubject
      BY <1>2 DEF PagesInv, PageFits, HalfFits, D!RefusalsHaveTheirSubject
    <2>2. D!PickIsOnScreen
      BY <1>2 DEF PagesInv, PageFits, HalfFits, D!PickIsOnScreen
    <2>3. D!TabsAgree
      BY <1>2 DEF PagesInv, InTouch, D!TabsAgree
    <2>. QED  BY <1>2, <2>1, <2>2, <2>3 DEF DraftsInv
  <1>. QED  BY <1>1, <1>2, PTL

\* The same in the run's own words, wherever the drafts are the part that moves.
THEOREM PagesOfATabAgree == D!Spec /\ [](part # "test") => []PagesAgree
  <1>1. /\ D!TypeOK /\ D!RefusalsHaveTheirSubject /\ D!PickIsOnScreen /\ D!TabsAgree
        /\ part # "test"
        => PagesAgree
    BY DEF PagesAgree
  <1>. QED  BY PagesOfATab, <1>1, PTL

-----------------------------------------------------------------------------
(* The test of a flow.                                                       *)

\* What the console has not yet taken in: the hub's way, and a status read that still counts.
Pictures == [test : T!Going, made : Nat, of : Nat]
Served == catching.stage = "back" /\ catching.same

Hold == [stage : {"free", "out", "done", "waiting"}]
StatusReads == {T!Free} \cup [stage : {"out"}, same : BOOLEAN]
         \cup [stage : {"back"}, same : BOOLEAN, test : T!Going, made : Nat, of : Nat]

TestTypes ==
  /\ run \in [test : T!Going, number : Nat, stopped : BOOLEAN]
  /\ pushes \in Nat /\ picture \in Pictures /\ way \in Seq(Pictures) /\ letGo \in BOOLEAN
  /\ starting \in Hold /\ stopping \in Hold /\ catching \in StatusReads
  /\ adrift \in SUBSET {"test", "stop"}

\* A picture is never of a later moment than the hub's last, and a status read that still
\* counts is no older than the picture.
TimesAreTrue ==
  /\ picture.made <= pushes /\ \A i \in DOMAIN way : way[i].made <= pushes
  /\ Served => picture.made <= catching.made /\ catching.made <= pushes

\* No picture is of a test to come.
NothingAhead ==
  /\ picture.of <= run.number /\ \A i \in DOMAIN way : way[i].of <= run.number
  /\ Served => catching.of <= run.number

\* One request at a time: the page never waits for a Test and for a Stop.
OneRequest == ~(starting.stage \in {"out", "done"} /\ stopping.stage \in {"out", "done"})

\* A picture is of no later test than what comes after it, and none is of a test to come.
OfInOrder ==
  /\ picture.of <= run.number
  /\ \A i \in DOMAIN way : picture.of <= way[i].of /\ way[i].of <= run.number
  /\ \A i, j \in DOMAIN way : i < j => way[i].of <= way[j].of
  /\ Served => picture.of <= catching.of /\ catching.of <= run.number

\* What shows a test going is of the test there is.
GoingIsOfNow ==
  /\ picture.test = "going" => picture.of = run.number
  /\ \A i \in DOMAIN way : way[i].test = "going" => way[i].of = run.number
  /\ Served /\ catching.test = "going" => catching.of = run.number

\* A test that is over stays over: what was made after its end shows it so.
OverIsOver ==
  /\ picture.of = run.number /\ picture.test # "going" =>
       /\ run.test # "going"
       /\ \A i \in DOMAIN way : way[i].test # "going"
       /\ Served => catching.test # "going"
  /\ \A i \in DOMAIN way : way[i].of = run.number /\ way[i].test # "going" =>
       /\ run.test # "going"
       /\ \A j \in DOMAIN way : i < j => way[j].test # "going"
  /\ Served /\ catching.of = run.number /\ catching.test # "going" => run.test # "going"

\* A free Test has been seen to be of this test, and one on its way was pressed over its end.
TestIsSeen ==
  /\ starting.stage \in {"free", "out"} => picture.of = run.number
  /\ starting.stage = "out" => picture.test # "going"

\* A Stop on its way is for the test there is, and is the first that ends it.
StopIsFirst ==
  /\ stopping.stage = "out" => picture.of = run.number
  /\ run.stopped /\ run.test # "going" =>
       /\ stopping.stage # "out" /\ picture.of = run.number
       /\ stopping.stage = "free" => picture.test # "going"

InStep == OfInOrder /\ GoingIsOfNow /\ OverIsOver /\ TestIsSeen /\ StopIsFirst

TestsInv ==
  /\ TestTypes /\ TimesAreTrue /\ NothingAhead /\ OneRequest
  /\ run.test = "going" => ~run.stopped
  /\ adrift # {} => letGo
  /\ ~letGo => InStep

\* The page opens on no test, with nothing on its way.
LEMMA TestsStart == T!Init => TestsInv
  <1>. SUFFICES ASSUME T!Init  PROVE TestsInv
    OBVIOUS
  <1>1. TestTypes
    <2>1. run \in [test : T!Going, number : Nat, stopped : BOOLEAN] /\ picture \in Pictures
      BY DEF T!Init, T!Going, Pictures
    <2>2. starting \in Hold /\ stopping \in Hold /\ catching \in StatusReads
      BY DEF T!Init, T!Free, Hold, StatusReads
    <2>3. way \in Seq(Pictures) /\ pushes \in Nat
      BY DEF T!Init
    <2>4. letGo \in BOOLEAN /\ adrift \in SUBSET {"test", "stop"}
      BY DEF T!Init
    <2>. QED  BY <2>1, <2>2, <2>3, <2>4 DEF TestTypes
  <1>2. /\ run.test = "none" /\ ~run.stopped /\ run.number = 0 /\ DOMAIN way = {} /\ pushes = 0
        /\ picture.test = "none" /\ picture.made = 0 /\ picture.of = 0
        /\ starting.stage = "free" /\ stopping.stage = "free" /\ catching.stage = "free"
        /\ adrift = {}
    BY DEF T!Init, T!Free
  <1>. QED
    BY <1>1, <1>2 DEF TestsInv, InStep, TimesAreTrue, NothingAhead, OneRequest, OfInOrder, GoingIsOfNow, OverIsOver,
                     TestIsSeen, StopIsFirst, Served

\* The types are kept by every step.
LEMMA TestsAreTyped == TestTypes /\ T!Next => TestTypes'
  <1>. SUFFICES ASSUME TestTypes, T!Next  PROVE TestTypes'
    OBVIOUS
  <1>. USE DEF TestTypes
  <1>1. ASSUME NEW a \in T!Going, NEW b \in Nat, NEW c \in Nat, T!Took(a, b, c)
        PROVE  picture' \in Pictures /\ starting' \in Hold /\ stopping' \in Hold
    BY <1>1 DEF T!Took, T!Freed, T!Free, Pictures, Hold
  <1>2. CASE T!PressTest
    BY <1>2 DEF T!PressTest, Hold
  <1>3. CASE T!PressStop
    BY <1>3 DEF T!PressStop, Hold
  <1>4. CASE T!TestNotTaken \/ T!TestAnswered \/ T!TestLapses \/ T!TestGivenUp
    <2>1. starting' \in Hold
      BY <1>4 DEF T!TestNotTaken, T!TestAnswered, T!TestLapses, T!TestGivenUp, T!Free, Hold
    <2>2. letGo' \in BOOLEAN /\ adrift' \in SUBSET {"test", "stop"}
      BY <1>4 DEF T!TestNotTaken, T!TestAnswered, T!TestLapses, T!TestGivenUp
    <2>. QED
      BY <1>4, <2>1, <2>2 DEF T!TestNotTaken, T!TestAnswered, T!TestLapses, T!TestGivenUp
  <1>5. CASE T!StopNotTaken \/ T!StopAnswered \/ T!StopLapses \/ T!StopGivenUp
    <2>1. stopping' \in Hold
      BY <1>5 DEF T!StopNotTaken, T!StopAnswered, T!StopLapses, T!StopGivenUp, T!Free, Hold
    <2>2. letGo' \in BOOLEAN /\ adrift' \in SUBSET {"test", "stop"}
      BY <1>5 DEF T!StopNotTaken, T!StopAnswered, T!StopLapses, T!StopGivenUp
    <2>. QED
      BY <1>5, <2>1, <2>2 DEF T!StopNotTaken, T!StopAnswered, T!StopLapses, T!StopGivenUp
  <1>6. CASE T!TestTaken
    <2>1. starting' \in Hold /\ letGo' \in BOOLEAN
      BY <1>6 DEF T!TestTaken, Hold
    <2>2. run' \in [test : T!Going, number : Nat, stopped : BOOLEAN]
      BY <1>6 DEF T!TestTaken, T!Starts, T!Going
    <2>. QED  BY <1>6, <2>1, <2>2 DEF T!TestTaken
  <1>7. CASE T!OthersTest
    BY <1>7 DEF T!OthersTest, T!Starts, T!Going
  <1>8. CASE T!StopTaken
    <2>1. stopping' \in Hold
      BY <1>8 DEF T!StopTaken, Hold
    <2>2. run' \in [test : T!Going, number : Nat, stopped : BOOLEAN]
      BY <1>8 DEF T!StopTaken, T!Stops, T!Going
    <2>. QED  BY <1>8, <2>1, <2>2 DEF T!StopTaken
  <1>9. CASE T!TestEnds
    BY <1>9 DEF T!TestEnds, T!Going
  <1>10. CASE T!HubSends
    <2>1. [test |-> run.test, made |-> pushes', of |-> run.number] \in Pictures /\ pushes' \in Nat
      BY <1>10 DEF T!HubSends, Pictures
    <2>. QED  BY <1>10, <2>1 DEF T!HubSends
  <1>11. CASE T!SetStatus
    <2>1. Head(way) \in Pictures /\ Tail(way) \in Seq(Pictures)
      BY <1>11 DEF T!SetStatus
    <2>2. picture' \in Pictures /\ starting' \in Hold /\ stopping' \in Hold
      BY <1>1, <1>11, <2>1 DEF T!SetStatus, Pictures
    <2>3. catching' \in StatusReads
      BY <1>11 DEF T!SetStatus, StatusReads
    <2>4. letGo' \in BOOLEAN
      BY <1>11 DEF T!SetStatus, T!FreedEarly
    <2>. QED  BY <1>11, <2>1, <2>2, <2>3, <2>4 DEF T!SetStatus
  <1>12. CASE T!HubLost
    BY <1>12 DEF T!HubLost
  <1>13. CASE T!CatchUp
    BY <1>13 DEF T!CatchUp, StatusReads
  <1>14. CASE T!PageOpens
    <2>1. starting' \in Hold /\ stopping' \in Hold /\ catching' \in StatusReads
      BY <1>14 DEF T!PageOpens, T!Free, Hold, StatusReads
    <2>2. letGo' \in BOOLEAN /\ adrift' \in SUBSET {"test", "stop"}
      BY <1>14 DEF T!PageOpens
    <2>. QED  BY <1>14, <2>1, <2>2 DEF T!PageOpens
  <1>15. CASE T!StatusServed
    BY <1>15 DEF T!StatusServed, T!Free, StatusReads
  <1>16. CASE T!StatusLands
    <2>1. picture' \in Pictures /\ starting' \in Hold /\ stopping' \in Hold
      <3>1. CASE catching.same
        <4>1. catching.test \in T!Going /\ catching.made \in Nat /\ catching.of \in Nat
          BY <1>16 DEF T!StatusLands, T!Free, StatusReads
        <4>. QED  BY <1>1, <1>16, <3>1, <4>1 DEF T!StatusLands
      <3>2. CASE ~catching.same
        BY <1>16, <3>2 DEF T!StatusLands
      <3>. QED  BY <3>1, <3>2
    <2>2. catching' \in StatusReads /\ letGo' \in BOOLEAN
      BY <1>16 DEF T!StatusLands, T!FreedEarly, StatusReads
    <2>. QED  BY <1>16, <2>1, <2>2 DEF T!StatusLands
  <1>17. CASE T!TestComesLate
    BY <1>17 DEF T!TestComesLate, T!Starts, T!Going
  <1>18. CASE T!StopComesLate
    BY <1>18 DEF T!StopComesLate, T!Stops, T!Going
  <1>19. CASE T!NeverComes
    BY <1>19 DEF T!NeverComes
  <1>. QED
    BY <1>2, <1>3, <1>4, <1>5, <1>6, <1>7, <1>8, <1>9, <1>10, <1>11, <1>12, <1>13, <1>14, <1>15,
       <1>16, <1>17, <1>18, <1>19 DEF T!Next, T!TestMoves, T!StopMoves

\* What stands in a sequence once its head has gone, or one more has come.
LEMMA TailAt ==
  ASSUME NEW S, NEW w \in Seq(S), w # <<>>
  PROVE  /\ 1 \in DOMAIN w /\ Head(w) = w[1]
         /\ \A i \in DOMAIN Tail(w) :
              i \in Nat /\ 1 < i + 1 /\ i + 1 \in DOMAIN w /\ Tail(w)[i] = w[i + 1]
  OBVIOUS

LEMMA AppendAt ==
  ASSUME NEW S, NEW w \in Seq(S), NEW e \in S
  PROVE  \A i \in DOMAIN Append(w, e) :
           \/ i \in DOMAIN w /\ Append(w, e)[i] = w[i]
           \/ i = Len(w) + 1 /\ Append(w, e)[i] = e
  OBVIOUS

\* The test a picture is of has a number, and what is of no test to come stays so once one starts.
LEMMA OfIsANumber ==
  TestsInv => /\ run.number \in Nat /\ picture.of \in Nat /\ \A i \in DOMAIN way : way[i].of \in Nat
              /\ Served => catching.of \in Nat
  <1>. SUFFICES ASSUME TestsInv
                PROVE  /\ run.number \in Nat /\ picture.of \in Nat
                       /\ \A i \in DOMAIN way : way[i].of \in Nat
                       /\ Served => catching.of \in Nat
    OBVIOUS
  <1>1. Served => catching.of \in Nat
    BY DEF TestsInv, TestTypes, Served, StatusReads, T!Free
  <1>2. picture \in Pictures /\ \A i \in DOMAIN way : way[i] \in Pictures
    BY DEF TestsInv, TestTypes
  <1>. QED  BY <1>1, <1>2 DEF Pictures, TestsInv, TestTypes

LEMMA StartsLeaveNothingAhead ==
  TestsInv /\ T!Starts /\ UNCHANGED <<way, picture, catching>> => NothingAhead'
  BY OfIsANumber DEF TestsInv, NothingAhead, Served, T!Starts

\* A test is started over the end of the last, with no picture of one going on its way.
LEMMA TestsTake == TestsInv /\ TestTypes' /\ T!TestTaken => TestsInv'
  <1>. SUFFICES ASSUME TestsInv, TestTypes', T!TestTaken  PROVE TestsInv'
    OBVIOUS
  <1>1. /\ run'.test = "going" /\ run'.number = run.number + 1 /\ run'.stopped = FALSE
        /\ starting.stage = "out" /\ starting'.stage = "done"
        /\ UNCHANGED <<way, pushes, picture, stopping, catching, adrift>>
        /\ letGo' = (letGo /\ ~T!Quiet)
    BY DEF T!TestTaken, T!Starts
  <1>2. TimesAreTrue' /\ OneRequest'
    BY <1>1 DEF TestsInv, TimesAreTrue, OneRequest, Served
  <1>3. run.number \in Nat
    BY OfIsANumber
  <1>4. /\ picture.of <= run.number /\ \A i \in DOMAIN way : way[i].of <= run.number
        /\ Served => catching.of <= run.number
    BY DEF TestsInv, NothingAhead
  <1>5. /\ picture.of \in Nat /\ \A i \in DOMAIN way : way[i].of \in Nat
        /\ Served => catching.of \in Nat
    BY OfIsANumber
  <1>6. NothingAhead'
    BY <1>1, StartsLeaveNothingAhead DEF T!TestTaken
  <1>7. adrift' # {} => letGo'
    BY <1>1 DEF TestsInv, T!Quiet
  <1>8. ASSUME ~letGo'
        PROVE  InStep'
    <2>1. /\ picture.test # "going" /\ \A i \in DOMAIN way : way[i].test # "going"
          /\ Served => catching.test # "going"
      <3>1. CASE ~letGo
        BY <1>1, <3>1 DEF TestsInv, InStep, TestIsSeen, OverIsOver
      <3>2. CASE T!Quiet
        BY <3>2 DEF T!Quiet, T!Free, Served
      <3>. QED  BY <1>1, <1>8, <3>1, <3>2
    <2>2. OfInOrder'
      <3>1. CASE ~letGo
        BY <1>1, <1>3, <1>4, <1>5, <3>1 DEF TestsInv, InStep, OfInOrder, Served
      <3>2. CASE T!Quiet
        <4>1. ~Served' /\ DOMAIN way' = {} /\ picture' = picture
          BY <1>1, <3>2 DEF T!Quiet, T!Free, Served
        <4>. QED  BY <1>1, <1>3, <1>4, <1>5, <4>1 DEF OfInOrder
      <3>. QED  BY <1>1, <1>8, <3>1, <3>2
    <2>3. GoingIsOfNow'
      BY <1>1, <2>1 DEF GoingIsOfNow, Served
    <2>4. OverIsOver'
      BY <1>1, <1>3, <1>4, <1>5 DEF OverIsOver, Served
    <2>5. TestIsSeen' /\ StopIsFirst'
      BY <1>1 DEF TestsInv, OneRequest, TestIsSeen, StopIsFirst
    <2>. QED  BY <2>2, <2>3, <2>4, <2>5 DEF InStep
  <1>. QED  BY <1>1, <1>2, <1>6, <1>7, <1>8 DEF TestsInv

\* The hub sends the newest there is, after whatever it has sent.
LEMMA TestsAreSent == TestsInv /\ TestTypes' /\ T!HubSends => TestsInv'
  <1>. SUFFICES ASSUME TestsInv, TestTypes', T!HubSends  PROVE TestsInv'
    OBVIOUS
  <1>. DEFINE e == [test |-> run.test, made |-> pushes', of |-> run.number]
  <1>1. /\ way' = Append(way, e) /\ pushes' = pushes + 1
        /\ UNCHANGED <<run, picture, starting, stopping, catching, adrift, letGo>>
    BY DEF T!HubSends
  <1>2. e \in Pictures /\ e.test = run.test /\ e.of = run.number /\ way \in Seq(Pictures)
    BY <1>1 DEF TestsInv, TestTypes, Pictures
  <1>. HIDE DEF e
  <1>3. \A i \in DOMAIN way' : \/ i \in DOMAIN way /\ way'[i] = way[i]
                               \/ i = Len(way) + 1 /\ way'[i] = e
    <2>1. \A i \in DOMAIN Append(way, e) : \/ i \in DOMAIN way /\ Append(way, e)[i] = way[i]
                                           \/ i = Len(way) + 1 /\ Append(way, e)[i] = e
      BY <1>2, AppendAt
    <2>2. way' = Append(way, e)
      BY <1>1
    <2>. QED  BY <2>1, <2>2
  <1>4. \A i \in DOMAIN way : i \in Nat /\ i <= Len(way)
    BY <1>2
  <1>5. TimesAreTrue'
    <2>1. /\ e.made = pushes' /\ \A i \in DOMAIN way : way[i].made <= pushes /\ way[i].made \in Nat
          /\ picture.made \in Nat /\ pushes \in Nat
      <3>1. picture \in Pictures /\ \A i \in DOMAIN way : way[i] \in Pictures
        BY DEF TestsInv, TestTypes
      <3>. QED  BY <1>1, <3>1 DEF TestsInv, TestTypes, TimesAreTrue, Pictures, e
    <2>2. Served => catching.made \in Nat
      BY DEF TestsInv, TestTypes, Served, StatusReads, T!Free
    <2>. QED  BY <1>1, <1>3, <2>1, <2>2 DEF TestsInv, TimesAreTrue, Served
  <1>6. OneRequest' /\ NothingAhead'
    <2>1. run.number \in Nat
      BY DEF TestsInv, TestTypes
    <2>. QED  BY <1>1, <1>2, <1>3, <2>1 DEF TestsInv, OneRequest, NothingAhead, Served
  <1>7. ASSUME ~letGo
        PROVE  InStep'
    <2>1. InStep /\ run.number \in Nat
      BY <1>7 DEF TestsInv, TestTypes
    <2>2. OfInOrder'
      BY <1>1, <1>2, <1>3, <1>4, <2>1 DEF InStep, OfInOrder, Served
    <2>3. GoingIsOfNow'
      BY <1>1, <1>2, <1>3, <2>1 DEF InStep, GoingIsOfNow, Served
    <2>4. OverIsOver'
      BY <1>1, <1>2, <1>3, <1>4, <2>1 DEF InStep, OverIsOver, Served
    <2>5. TestIsSeen' /\ StopIsFirst'
      BY <1>1, <2>1 DEF InStep, TestIsSeen, StopIsFirst
    <2>. QED  BY <2>2, <2>3, <2>4, <2>5 DEF InStep
  <1>. QED  BY <1>1, <1>5, <1>6, <1>7 DEF TestsInv

\* A picture no older than the one on screen takes its place, with what comes after it.
LEMMA TestsAreSeen ==
  ASSUME TestsInv, TestTypes', InStep, NEW h \in Pictures,
         T!Took(h.test, h.made, h.of), UNCHANGED run,
         starting' = starting \/ h.of = run.number,
         picture.of <= h.of, h.of <= run.number,
         h.test = "going" => h.of = run.number,
         picture.of = run.number /\ picture.test # "going" => h.test # "going"
  PROVE  /\ picture'.test = h.test /\ picture'.of = h.of /\ picture'.made = h.made
         /\ TestIsSeen' /\ StopIsFirst' /\ OneRequest'
  <1>1. /\ picture'.test = h.test /\ picture'.of = h.of /\ picture'.made = h.made
    BY DEF T!Took
  <1>2. picture.of = run.number => h.of = run.number
    BY DEF TestTypes, TestsInv, Pictures
  <1>3. /\ starting'.stage \in {"free", starting.stage}
        /\ stopping'.stage \in {"free", stopping.stage}
        /\ starting'.stage # starting.stage => h.of = run.number
        /\ stopping.stage = "waiting" /\ stopping'.stage = "free" => h.test # "going"
        /\ stopping'.stage # stopping.stage => stopping.stage = "waiting" /\ h.test # "going"
    BY DEF T!Took, T!Freed, T!Free, T!Stopped
  <1>4. TestIsSeen'
    BY <1>1, <1>2, <1>3 DEF InStep, TestIsSeen
  <1>5. StopIsFirst'
    BY <1>1, <1>2, <1>3 DEF InStep, StopIsFirst
  <1>6. OneRequest'
    BY <1>3 DEF TestsInv, OneRequest
  <1>. QED  BY <1>1, <1>4, <1>5, <1>6

\* The console takes in the oldest of what the hub has sent.
LEMMA TestsHear == TestsInv /\ TestTypes' /\ T!SetStatus => TestsInv'
  <1>. SUFFICES ASSUME TestsInv, TestTypes', T!SetStatus  PROVE TestsInv'
    OBVIOUS
  <1>. DEFINE h == Head(way)
  <1>1. /\ way # <<>> /\ way' = Tail(way) /\ T!Took(h.test, h.made, h.of)
        /\ UNCHANGED <<run, pushes, adrift>> /\ letGo' = (letGo \/ T!FreedEarly(h.of))
    BY DEF T!SetStatus
  <1>2. ~Served'
    BY DEF T!SetStatus, Served, T!Free
  <1>3. /\ 1 \in DOMAIN way /\ h = way[1] /\ h \in Pictures
        /\ \A i \in DOMAIN way' :
             i \in Nat /\ 1 < i + 1 /\ i + 1 \in DOMAIN way /\ way'[i] = way[i + 1]
    BY <1>1, TailAt DEF TestsInv, TestTypes
  <1>. HIDE DEF h
  <1>4. picture'.test = h.test /\ picture'.of = h.of /\ picture'.made = h.made
    BY <1>1 DEF T!Took
  <1>5. TimesAreTrue'
    BY <1>1, <1>2, <1>3, <1>4 DEF TestsInv, TimesAreTrue
  <1>6. OneRequest' /\ NothingAhead'
    <2>1. OneRequest'
      BY <1>1 DEF TestsInv, OneRequest, T!Took, T!Freed, T!Free
    <2>. QED  BY <1>1, <1>2, <1>3, <1>4, <2>1 DEF TestsInv, NothingAhead
  <1>7. ASSUME ~letGo'
        PROVE  InStep'
    <2>1. InStep /\ (starting' = starting \/ h.of = run.number)
      BY <1>1, <1>7 DEF TestsInv, T!FreedEarly
    <2>2. /\ picture.of <= h.of /\ h.of <= run.number
          /\ h.test = "going" => h.of = run.number
          /\ picture.of = run.number /\ picture.test # "going" => h.test # "going"
      BY <1>3, <2>1 DEF InStep, OfInOrder, GoingIsOfNow, OverIsOver
    <2>3. TestIsSeen' /\ StopIsFirst'
      BY <1>1, <1>3, <2>1, <2>2, TestsAreSeen
    <2>4. OfInOrder'
      BY <1>1, <1>2, <1>3, <1>4, <2>1, <2>2 DEF InStep, OfInOrder
    <2>5. GoingIsOfNow'
      BY <1>1, <1>2, <1>3, <1>4, <2>1, <2>2 DEF InStep, GoingIsOfNow
    <2>6. OverIsOver'
      BY <1>1, <1>2, <1>3, <1>4, <2>1 DEF InStep, OverIsOver
    <2>. QED  BY <2>3, <2>4, <2>5, <2>6 DEF InStep
  <1>. QED  BY <1>1, <1>5, <1>6, <1>7 DEF TestsInv

\* A status read that still counts is as good as the next push; one that does not changes nothing.
LEMMA TestsLand == TestsInv /\ TestTypes' /\ T!StatusLands => TestsInv'
  <1>. SUFFICES ASSUME TestsInv, TestTypes', T!StatusLands  PROVE TestsInv'
    OBVIOUS
  <1>1. /\ UNCHANGED <<run, way, pushes, adrift>> /\ ~Served'
        /\ letGo' = \/ letGo \/ stopping' # stopping \/ T!FreedEarly(catching.of)
                    \/ way # <<>> /\ picture' # picture
    BY DEF T!StatusLands, Served, T!Free
  <1>2. CASE ~catching.same
    <2>1. UNCHANGED <<picture, starting, stopping>>
      BY <1>2 DEF T!StatusLands
    <2>. QED
      BY <1>1, <2>1 DEF TestsInv, InStep, TimesAreTrue, NothingAhead, OneRequest, OfInOrder,
                        GoingIsOfNow, OverIsOver, TestIsSeen, StopIsFirst
  <1>3. CASE catching.same
    <2>. DEFINE h == [test |-> catching.test, made |-> catching.made, of |-> catching.of]
    <2>1. /\ h.test = catching.test /\ h.made = catching.made /\ h.of = catching.of
          /\ h \in Pictures /\ Served
      BY <1>3 DEF T!StatusLands, TestsInv, TestTypes, StatusReads, T!Free, Pictures, Served
    <2>2. T!Took(h.test, h.made, h.of)
      BY <1>3, <2>1 DEF T!StatusLands
    <2>. HIDE DEF h
    <2>3. picture'.test = h.test /\ picture'.of = h.of /\ picture'.made = h.made
      BY <2>2 DEF T!Took
    <2>4. TimesAreTrue'
      BY <1>1, <2>1, <2>3 DEF TestsInv, TimesAreTrue
    <2>5. OneRequest' /\ NothingAhead'
      <3>1. OneRequest'
        BY <2>2 DEF TestsInv, OneRequest, T!Took, T!Freed, T!Free
      <3>. QED  BY <1>1, <2>1, <2>3, <3>1 DEF TestsInv, NothingAhead
    <2>6. ASSUME ~letGo'
          PROVE  InStep'
      <3>1. /\ InStep /\ (starting' = starting \/ h.of = run.number)
            /\ way # <<>> => picture' = picture
        BY <1>1, <2>1, <2>6 DEF TestsInv, T!FreedEarly
      <3>2. /\ picture.of <= h.of /\ h.of <= run.number
            /\ h.test = "going" => h.of = run.number
            /\ picture.of = run.number /\ picture.test # "going" => h.test # "going"
        BY <2>1, <3>1 DEF InStep, OfInOrder, GoingIsOfNow, OverIsOver
      <3>3. TestIsSeen' /\ StopIsFirst'
        BY <1>1, <2>1, <2>2, <3>1, <3>2, TestsAreSeen
      <3>4. CASE way # <<>>
        <4>1. UNCHANGED <<picture, run, way>>
          BY <1>1, <3>1, <3>4
        <4>. QED
          BY <1>1, <3>1, <3>3, <4>1 DEF InStep, OfInOrder, GoingIsOfNow, OverIsOver
      <3>5. CASE way = <<>>
        <4>1. DOMAIN way' = {} /\ run' = run
          BY <1>1, <3>5
        <4>. QED
          BY <1>1, <2>1, <2>3, <3>1, <3>2, <3>3, <4>1
             DEF InStep, OfInOrder, GoingIsOfNow, OverIsOver
      <3>. QED  BY <3>4, <3>5
    <2>. QED  BY <1>1, <2>4, <2>5, <2>6 DEF TestsInv
  <1>. QED  BY <1>2, <1>3

\* Every step keeps the invariant.
LEMMA TestsStep == TestsInv /\ [T!Next]_(T!vars) => TestsInv'
  <1>. SUFFICES ASSUME TestsInv, [T!Next]_(T!vars)  PROVE TestsInv'
    OBVIOUS
  <1>1. TestTypes'
    <2>1. CASE T!Next
      BY <2>1, TestsAreTyped DEF TestsInv
    <2>2. CASE UNCHANGED T!vars
      BY <2>2 DEF T!vars, TestsInv, TestTypes
    <2>. QED  BY <2>1, <2>2
  <1>2. CASE T!PressTest
    BY <1>1, <1>2 DEF T!PressTest,
           TestsInv, TestTypes, InStep, TimesAreTrue, NothingAhead, OneRequest, OfInOrder, GoingIsOfNow,
           OverIsOver, TestIsSeen, StopIsFirst, Served, T!Free
  <1>3. CASE T!PressStop
    BY <1>1, <1>3 DEF T!PressStop,
           TestsInv, TestTypes, InStep, TimesAreTrue, NothingAhead, OneRequest, OfInOrder, GoingIsOfNow,
           OverIsOver, TestIsSeen, StopIsFirst, Served, T!Free
  <1>4. CASE T!TestNotTaken
    BY <1>1, <1>4 DEF T!TestNotTaken,
           TestsInv, TestTypes, InStep, TimesAreTrue, NothingAhead, OneRequest, OfInOrder, GoingIsOfNow,
           OverIsOver, TestIsSeen, StopIsFirst, Served, T!Free
  <1>5. CASE T!StopNotTaken
    BY <1>1, <1>5 DEF T!StopNotTaken,
           TestsInv, TestTypes, InStep, TimesAreTrue, NothingAhead, OneRequest, OfInOrder, GoingIsOfNow,
           OverIsOver, TestIsSeen, StopIsFirst, Served, T!Free
  <1>6. CASE T!TestAnswered
    BY <1>1, <1>6 DEF T!TestAnswered,
           TestsInv, TestTypes, InStep, TimesAreTrue, NothingAhead, OneRequest, OfInOrder, GoingIsOfNow,
           OverIsOver, TestIsSeen, StopIsFirst, Served, T!Free
  <1>7. CASE T!StopAnswered
    BY <1>1, <1>7 DEF T!StopAnswered,
           TestsInv, TestTypes, InStep, TimesAreTrue, NothingAhead, OneRequest, OfInOrder, GoingIsOfNow,
           OverIsOver, TestIsSeen, StopIsFirst, Served, T!Free
  <1>8. CASE T!TestLapses
    BY <1>1, <1>8 DEF T!TestLapses,
           TestsInv, TestTypes, InStep, TimesAreTrue, NothingAhead, OneRequest, OfInOrder, GoingIsOfNow,
           OverIsOver, TestIsSeen, StopIsFirst, Served, T!Free
  <1>9. CASE T!StopLapses
    BY <1>1, <1>9 DEF T!StopLapses,
           TestsInv, TestTypes, InStep, TimesAreTrue, NothingAhead, OneRequest, OfInOrder, GoingIsOfNow,
           OverIsOver, TestIsSeen, StopIsFirst, Served, T!Free
  <1>10. CASE T!OthersTest
    <2>1. NothingAhead'
      BY <1>10, StartsLeaveNothingAhead DEF T!OthersTest
    <2>. QED
      BY <1>1, <1>10, <2>1 DEF T!OthersTest, T!Starts, TestsInv, TimesAreTrue, OneRequest, Served
  <1>11. CASE T!StopTaken
    BY <1>1, <1>11 DEF T!StopTaken, T!Stops,
           TestsInv, TestTypes, InStep, TimesAreTrue, NothingAhead, OneRequest, OfInOrder, GoingIsOfNow,
           OverIsOver, TestIsSeen, StopIsFirst, Served, T!Free
  <1>12. CASE T!TestEnds
    BY <1>1, <1>12 DEF T!TestEnds,
           TestsInv, TestTypes, InStep, TimesAreTrue, NothingAhead, OneRequest, OfInOrder, GoingIsOfNow,
           OverIsOver, TestIsSeen, StopIsFirst, Served, T!Free
  <1>13. CASE T!HubLost
    BY <1>1, <1>13 DEF T!HubLost,
           TestsInv, TestTypes, InStep, TimesAreTrue, NothingAhead, OneRequest, OfInOrder, GoingIsOfNow,
           OverIsOver, TestIsSeen, StopIsFirst, Served, T!Free
  <1>14. CASE T!CatchUp
    BY <1>1, <1>14 DEF T!CatchUp,
           TestsInv, TestTypes, InStep, TimesAreTrue, NothingAhead, OneRequest, OfInOrder, GoingIsOfNow,
           OverIsOver, TestIsSeen, StopIsFirst, Served, T!Free
  <1>15. CASE T!PageOpens
    <2>1. /\ UNCHANGED <<run, way, pushes, picture>> /\ ~Served'
          /\ starting'.stage = "free" /\ stopping'.stage = "free"
      BY <1>15 DEF T!PageOpens, Served, T!Free
    <2>2. ~letGo' => ~letGo /\ starting.stage = "free" /\ stopping.stage = "free"
      <3>1. ~letGo' => ~letGo /\ starting = T!Free /\ stopping = T!Free
        BY <1>15, Zenon DEF T!PageOpens
      <3>2. T!Free.stage = "free"
        BY DEF T!Free
      <3>. QED  BY <3>1, <3>2
    <2>3. adrift' # {} => letGo'
      <3>1. letGo' = (letGo \/ starting # T!Free \/ stopping # T!Free)
        BY <1>15 DEF T!PageOpens
      <3>2. starting = T!Free /\ stopping = T!Free => adrift' = adrift
        BY <1>15 DEF T!PageOpens, T!Free
      <3>. QED  BY <3>1, <3>2 DEF TestsInv
    <2>. QED
      BY <1>1, <2>1, <2>2, <2>3
         DEF TestsInv, InStep, TimesAreTrue, NothingAhead, OneRequest, OfInOrder, GoingIsOfNow, OverIsOver,
             TestIsSeen, StopIsFirst
  <1>16. CASE T!StatusServed
    BY <1>1, <1>16 DEF T!StatusServed,
           TestsInv, TestTypes, InStep, TimesAreTrue, NothingAhead, OneRequest, OfInOrder, GoingIsOfNow,
           OverIsOver, TestIsSeen, StopIsFirst, Served, T!Free
  <1>17. CASE UNCHANGED T!vars
    BY <1>1, <1>17 DEF T!vars,
           TestsInv, TestTypes, InStep, TimesAreTrue, NothingAhead, OneRequest, OfInOrder, GoingIsOfNow,
           OverIsOver, TestIsSeen, StopIsFirst, Served, T!Free
  <1>18. CASE T!TestTaken \/ T!HubSends \/ T!SetStatus \/ T!StatusLands
    BY <1>1, <1>18, TestsTake, TestsAreSent, TestsHear, TestsLand
  <1>19. CASE T!TestGivenUp
    BY <1>1, <1>19 DEF T!TestGivenUp,
           TestsInv, TestTypes, InStep, TimesAreTrue, NothingAhead, OneRequest, OfInOrder, GoingIsOfNow,
           OverIsOver, TestIsSeen, StopIsFirst, Served, T!Free
  <1>20. CASE T!StopGivenUp
    BY <1>1, <1>20 DEF T!StopGivenUp,
           TestsInv, TestTypes, InStep, TimesAreTrue, NothingAhead, OneRequest, OfInOrder, GoingIsOfNow,
           OverIsOver, TestIsSeen, StopIsFirst, Served, T!Free
  <1>21. CASE T!TestComesLate
    <2>1. NothingAhead'
      BY <1>21, StartsLeaveNothingAhead DEF T!TestComesLate
    <2>. QED
      BY <1>1, <1>21, <2>1 DEF T!TestComesLate, T!Starts, TestsInv, TimesAreTrue, OneRequest, Served
  <1>22. CASE T!StopComesLate
    BY <1>1, <1>22 DEF T!StopComesLate, T!Stops,
           TestsInv, TestTypes, InStep, TimesAreTrue, NothingAhead, OneRequest, OfInOrder, GoingIsOfNow,
           OverIsOver, TestIsSeen, StopIsFirst, Served, T!Free
  <1>23. CASE T!NeverComes
    BY <1>1, <1>23 DEF T!NeverComes,
           TestsInv, TestTypes, InStep, TimesAreTrue, NothingAhead, OneRequest, OfInOrder, GoingIsOfNow,
           OverIsOver, TestIsSeen, StopIsFirst, Served, T!Free
  <1>. QED
    BY <1>2, <1>3, <1>4, <1>5, <1>6, <1>7, <1>8, <1>9, <1>10, <1>11, <1>12, <1>13, <1>14, <1>15, <1>16,
       <1>17, <1>18, <1>19, <1>20, <1>21, <1>22, <1>23
       DEF T!Next, T!TestMoves, T!StopMoves

\* What a step of the page does to a test, and to the numbers it has.
LEMMA TestsAct ==
  TestsInv /\ [T!Next]_(T!vars) =>
    /\ [(T!StopTaken \/ T!StopComesLate) /\ run.test = "over" /\ run.stopped => letGo]_(T!vars)
    /\ [T!StatusLands => picture'.made >= picture.made]_(T!vars)
  <1>. SUFFICES ASSUME TestsInv
                PROVE  /\ (T!StopTaken \/ T!StopComesLate) /\ run.test = "over" /\ run.stopped
                            => letGo
                       /\ T!StatusLands => picture'.made >= picture.made
    OBVIOUS
  <1>1. (T!StopTaken \/ T!StopComesLate) /\ run.test = "over" /\ run.stopped => letGo
    BY DEF TestsInv, InStep, StopIsFirst, T!StopTaken, T!StopComesLate
  <1>2. ASSUME T!StatusLands
        PROVE  picture'.made >= picture.made
    <2>1. CASE catching.same
      BY <1>2, <2>1 DEF T!StatusLands, T!Took, TestsInv, TimesAreTrue, Served
    <2>2. CASE ~catching.same
      BY <1>2, <2>2 DEF T!StatusLands, TestsInv, TestTypes, Pictures
    <2>. QED  BY <2>1, <2>2
  <1>. QED  BY <1>1, <1>2

\* A Stop reaches the test an earlier Stop ended only by the ways letGo names, a press whose
\* answer was lost or late among them, and no longer once a test was started over nothing of
\* another; a status read never takes the numbers back behind a push (useTest's holds,
\* flowStatusStore's catchUp): for any number of tests, of messages and of presses.
THEOREM TestsAnswered == T!Spec => TestsAreAnswered
  <1>1. T!Spec => []TestsInv
    BY TestsStart, TestsStep, PTL DEF T!Spec
  <1>. QED
    BY <1>1, TestsAct, PTL DEF T!Spec, TestsAreAnswered, T!StopsOnce, T!AnswersNeverGoBack
=============================================================================
