---------------------------- MODULE EditorsProofs ---------------------------
(***************************************************************************)
(* Proofs about the rules of the alarms and those who write them, for      *)
(* every value of the constants: what one write may touch, and what becomes *)
(* of a draft (AlertRules); and what a rule's form makes of it (RuleDraft). *)
(* The properties are the ones MCEditors states, and the specifications    *)
(* are the components' own, without the parts TLC runs them in.            *)
(***************************************************************************)
EXTENDS MCEditors, SieveProofs, FiniteSetTheorems

-----------------------------------------------------------------------------
(* The types.                                                                *)

Rule == [id : Nat, says : A!Texts, of : Nat]

DraftIds == {"rule", "draft"} \X Nat

Change == [kind : {"save", "remove"}, rule : Rule]

Write == [who : {"editor", "panel", "phone"}, at : A!Consoles, mount : Nat,
          change : Change, draft : DraftIds \cup {<<>>},
          in : Nat, stage : {"reading", "putting", "taken"}, base : Seq(Rule), list : Seq(Rule),
          pressed : Nat, typed : Nat]

ListTypes ==
  /\ ids \in Nat /\ server \in Seq(Rule)
  /\ shown \in [A!Consoles -> Seq(Rule)]
  /\ read \in [A!Consoles -> [stage : {"none", "out", "served"}, list : Seq(Rule)]]
  /\ writes \in SUBSET Write /\ presses \in Nat /\ lost \in Nat

PanelTypes ==
  /\ DOMAIN drafts \subseteq DraftIds
  /\ drafts \in [DOMAIN drafts -> [rule : Nat, says : A!Texts, from : A!Texts]]
  /\ count \in Nat /\ panel \in Nat /\ opened \in Nat /\ leaving \in BOOLEAN
  /\ editing \in Seq([draft : DraftIds, opened : A!Texts, mount : Nat]) /\ Len(editing) <= 1

-----------------------------------------------------------------------------
(* What the lists hold.                                                      *)

\* A list as the server holds it: its rules are numbered, each by a number of its own.
Distinct(rules) == \A i, j \in DOMAIN rules : rules[i].id = rules[j].id => i = j
Stored(rules, n) == Distinct(rules) /\ \A i \in DOMAIN rules : rules[i].id \in 1..n

\* A list on its way to be put may hold one rule more than the server's, without a number:
\* the one it is put for.
ToPut(w, n) ==
  /\ Distinct(w.list)
  /\ \A i \in DOMAIN w.list : w.list[i].id \in 0..n /\ (w.list[i].id = 0 => w.list[i] = w.change.rule)

ListsHold ==
  /\ Stored(server, ids)
  /\ \A c \in A!Consoles : Stored(shown[c], ids) /\ Stored(read[c].list, ids)
  /\ \A w \in writes : IF w.stage = "putting" THEN ToPut(w, ids) ELSE Stored(w.list, ids)
  /\ \A w \in writes : w.change.rule.id \in 0..ids /\ (w.change.kind = "remove" => w.change.rule.id # 0)

EditorHolds == (leaving => editing # <<>>) /\ (editing # <<>> => panel # 0)

\* A write is known by the press it began with, and what is put is the list that was read with
\* one rule changed.
WritesHold ==
  /\ \A w \in writes : w.pressed < presses
  /\ \A v, w \in writes : v.pressed = w.pressed => v = w
  /\ \A w \in writes : w.stage = "putting" => Stored(w.base, ids) /\ w.list = A!Changed(w.base, w.change)

-----------------------------------------------------------------------------
(* What becomes of a draft.                                                  *)

\* A draft of a new rule is of no other.
DraftsHold ==
  /\ \A d \in DOMAIN drafts : /\ drafts[d].rule \in 0..ids
                              /\ drafts[d].rule = 0 <=> d[1] = "draft"
                              /\ d[1] = "draft" => d[2] \in 1..count
  /\ editing # <<>> /\ editing[1].draft[1] = "draft" => editing[1].draft[2] \in 1..count

\* A write of a rule no server has seen is its editor's, and there is one of a draft at a time.
Fresh(w) == w.change.kind = "save" /\ w.change.rule.id = 0

SavesHold ==
  /\ \A w \in writes : Fresh(w) =>
       /\ w.who = "editor" /\ w.change.rule.of \in 1..count
       /\ w.draft = <<"draft", w.change.rule.of>>
       /\ editing # <<>> /\ editing[1].draft = w.draft => editing[1].mount = w.mount
  /\ \A v, w \in writes : Fresh(v) /\ Fresh(w) /\ v.draft = w.draft => v = w

\* The rules anybody has in hand.
InHand(l) == {l[i] : i \in DOMAIN l}
OfConsoles == UNION {InHand(shown[c]) \cup InHand(read[c].list) : c \in A!Consoles}
OfWrites   == UNION {InHand(w.list) \cup {w.change.rule} : w \in writes}
Known      == InHand(server) \cup OfConsoles \cup OfWrites

\* Every rule there is of a draft is one and the same; a draft whose write the server has not
\* taken has none yet; and one that has is about to be forgotten.
TracesHold ==
  /\ \A r, s \in Known : r.id # 0 /\ s.id # 0 /\ r.of = s.of /\ r.of # 0 => r.id = s.id
  /\ \A w \in writes : Fresh(w) /\ w.stage # "taken" => \A r \in Known : r.of = w.change.rule.of => r.id = 0
  /\ \A r \in Known : r.id # 0 /\ <<"draft", r.of>> \in DOMAIN drafts =>
       \E w \in writes : Fresh(w) /\ w.draft = <<"draft", r.of>> /\ w.stage = "taken"

OfHold == \A r \in Known : r.of \in 0..count

RulesInv ==
  /\ ListTypes /\ PanelTypes /\ ListsHold /\ EditorHolds /\ WritesHold
  /\ DraftsHold /\ SavesHold /\ OfHold /\ (lost = 0 => TracesHold)

-----------------------------------------------------------------------------
(* What a write makes of a list.                                             *)

\* One rule taken out leaves the others, and nothing else.
LEMMA RemovedLeavesOthers ==
  ASSUME NEW l \in Seq(Rule), NEW id \in Nat
  PROVE  /\ A!removeRule(l, id) \in Seq(Rule)
         /\ Distinct(l) => Distinct(A!removeRule(l, id))
         /\ \A i \in DOMAIN A!removeRule(l, id) :
              \E j \in DOMAIN l : A!removeRule(l, id)[i] = l[j] /\ l[j].id # id
         /\ \A j \in DOMAIN l : l[j].id # id =>
              \E i \in DOMAIN A!removeRule(l, id) : A!removeRule(l, id)[i] = l[j]
  <1>. DEFINE keep == {m \in A!ToSet(l) : m.id # id}
              left == Sieved(l, keep)
  <1>1. A!removeRule(l, id) = left
    BY DEF A!removeRule, A!Sieved, Sieved
  <1>2. left \in Seq(Rule) /\ \E at : Spots(at, l, Len(l), keep, left)
    BY SievedPlaces
  <1>3. PICK at : Spots(at, l, Len(l), keep, left)
    BY <1>2
  <1>4. \A j \in 1..Len(l) : l[j] \in keep <=> l[j].id # id
    BY DEF A!ToSet
  <1>. HIDE DEF keep, left
  <1>5. DOMAIN l = 1..Len(l) /\ DOMAIN left = 1..Len(left)
    BY <1>2
  <1>6. \A i \in 1..Len(left) : at[i] \in 1..Len(l) /\ left[i] = l[at[i]] /\ left[i].id # id
    BY <1>3, <1>4 DEF Spots
  <1>7. Distinct(l) => Distinct(left)
    <2>. SUFFICES ASSUME Distinct(l), NEW i \in 1..Len(left), NEW j \in 1..Len(left),
                         left[i].id = left[j].id
                  PROVE  i = j
      BY <1>5 DEF Distinct
    <2>1. at[i] = at[j] /\ at[i] \in Nat
      BY <1>5, <1>6 DEF Distinct
    <2>2. ~(i < j) /\ ~(j < i)
      BY <2>1, <1>3 DEF Spots
    <2>. QED  BY <2>2, <1>2
  <1>8. \A j \in 1..Len(l) : l[j].id # id => \E i \in 1..Len(left) : left[i] = l[j]
    BY <1>3, <1>4, <1>6 DEF Spots
  <1>9. \A i \in 1..Len(left) : \E j \in 1..Len(l) : left[i] = l[j] /\ l[j].id # id
    BY <1>6
  <1>10. left \in Seq(Rule)
    BY <1>2
  <1>. DEFINE got == A!removeRule(l, id)
  <1>. HIDE DEF got
  <1>11. got = left
    BY <1>1 DEF got
  <1>12. \A i \in DOMAIN got : \E j \in DOMAIN l : got[i] = l[j] /\ l[j].id # id
    BY <1>5, <1>9, <1>11
  <1>13. \A j \in DOMAIN l : l[j].id # id => \E i \in DOMAIN got : got[i] = l[j]
    BY <1>5, <1>8, <1>11
  <1>. QED  BY <1>7, <1>10, <1>11, <1>12, <1>13 DEF got

\* One rule put in its place, or at the end, leaves the others.
LEMMA SavedLeavesOthers ==
  ASSUME NEW l \in Seq(Rule), NEW one \in Rule, NEW n \in Nat, Stored(l, n)
  PROVE  /\ A!saveRule(l, one) \in Seq(Rule)
         /\ Distinct(A!saveRule(l, one))
         /\ \A i \in DOMAIN A!saveRule(l, one) :
              \/ A!saveRule(l, one)[i] = one
              \/ \E j \in DOMAIN l : A!saveRule(l, one)[i] = l[j]
         /\ \A j \in DOMAIN l : l[j].id # one.id =>
              \E i \in DOMAIN A!saveRule(l, one) : A!saveRule(l, one)[i] = l[j]
  <1>0. Len(l) \in Nat /\ DOMAIN l = 1..Len(l) /\ \A i \in 1..Len(l) : l[i] \in Rule
    OBVIOUS
  <1>1. CASE one.id # 0 /\ one.id \in A!Ids(l)
    <2>. DEFINE put == [i \in DOMAIN l |-> IF l[i].id = one.id THEN one ELSE l[i]]
    <2>1. A!saveRule(l, one) = put
      BY <1>1 DEF A!saveRule
    <2>2. put \in [1..Len(l) -> Rule]
      BY <1>0
    <2>3. put \in Seq(Rule) /\ DOMAIN put = DOMAIN l
      BY <1>0, <2>2
    <2>4. \A i \in DOMAIN l : put[i].id = l[i].id
      OBVIOUS
    <2>5. Distinct(put)
      BY <2>3, <2>4 DEF Distinct, Stored
    <2>. QED  BY <2>1, <2>3, <2>5
  <1>2. CASE ~(one.id # 0 /\ one.id \in A!Ids(l))
    <2>. DEFINE put == Append(l, one)
    <2>1. A!saveRule(l, one) = put
      BY <1>2 DEF A!saveRule
    <2>2. /\ put \in Seq(Rule) /\ DOMAIN put = 1..(Len(l) + 1) /\ put[Len(l) + 1] = one
          /\ \A i \in 1..Len(l) : put[i] = l[i]
      BY <1>0
    <2>3. \A i \in 1..Len(l) : l[i].id # one.id
      BY <1>0, <1>2 DEF Stored, A!Ids
    <2>4. \A i \in 1..(Len(l) + 1) : i \in 1..Len(l) \/ i = Len(l) + 1
      BY <1>0
    <2>. HIDE DEF put
    <2>5. Distinct(put)
      BY <1>0, <2>2, <2>3, <2>4 DEF Distinct, Stored
    <2>6. \A j \in 1..Len(l) : j \in DOMAIN put
      BY <1>0, <2>2
    <2>. QED  BY <1>0, <2>1, <2>2, <2>4, <2>5, <2>6
  <1>. QED  BY <1>1, <1>2

\* Either way: what a write puts is the list it was built on, but for its own rule.
LEMMA ChangedLeavesOthers ==
  ASSUME NEW l \in Seq(Rule), NEW change \in Change, NEW n \in Nat, Stored(l, n)
  PROVE  /\ A!Changed(l, change) \in Seq(Rule)
         /\ Distinct(A!Changed(l, change))
         /\ \A i \in DOMAIN A!Changed(l, change) :
              \/ A!Changed(l, change)[i] = change.rule /\ change.kind = "save"
              \/ \E j \in DOMAIN l : A!Changed(l, change)[i] = l[j]
         /\ \A j \in DOMAIN l : l[j].id # change.rule.id =>
              \E i \in DOMAIN A!Changed(l, change) : A!Changed(l, change)[i] = l[j]
  <1>0. change.rule \in Rule /\ change.rule.id \in Nat /\ change.kind \in {"save", "remove"}
    BY DEF Change, Rule
  <1>1. CASE change.kind = "remove"
    <2>1. A!Changed(l, change) = A!removeRule(l, change.rule.id)
      BY <1>1 DEF A!Changed
    <2>. QED  BY <1>0, <2>1, RemovedLeavesOthers DEF Stored
  <1>2. CASE change.kind = "save"
    <2>1. A!Changed(l, change) = A!saveRule(l, change.rule)
      BY <1>2 DEF A!Changed
    <2>. DEFINE put == A!saveRule(l, change.rule)
    <2>2. /\ put \in Seq(Rule) /\ Distinct(put)
          /\ \A i \in DOMAIN put : put[i] = change.rule \/ \E j \in DOMAIN l : put[i] = l[j]
          /\ \A j \in DOMAIN l : l[j].id # change.rule.id => \E i \in DOMAIN put : put[i] = l[j]
      BY <1>0, SavedLeavesOthers
    <2>. HIDE DEF put
    <2>. QED  BY <1>2, <2>1, <2>2 DEF put
  <1>. QED  BY <1>0, <1>1, <1>2

\* The server numbers what has no number, and changes nothing else.
LEMMA NumberedIsStored ==
  ASSUME ids \in Nat, NEW l \in Seq(Rule), Distinct(l), \A i \in DOMAIN l : l[i].id \in 0..ids
  PROVE  /\ A!Numbered(l) \in Seq(Rule) /\ DOMAIN A!Numbered(l) = DOMAIN l
         /\ Stored(A!Numbered(l), IF 0 \in A!Ids(l) THEN ids + 1 ELSE ids)
         /\ \A i \in DOMAIN l : l[i].id # 0 => A!Numbered(l)[i] = l[i]
         /\ \A i \in DOMAIN l : l[i].id = 0 => A!Numbered(l)[i] = [l[i] EXCEPT !.id = ids + 1]
  <1>. DEFINE m == A!Numbered(l)
  <1>1. m = [i \in DOMAIN l |-> IF l[i].id = 0 THEN [l[i] EXCEPT !.id = ids + 1] ELSE l[i]]
    BY DEF A!Numbered
  <1>2. DOMAIN l = 1..Len(l) /\ Len(l) \in Nat /\ \A i \in DOMAIN l : l[i] \in Rule
    OBVIOUS
  <1>3. \A one \in Rule : [one EXCEPT !.id = ids + 1] \in Rule /\ [one EXCEPT !.id = ids + 1].id = ids + 1
    BY DEF Rule
  <1>. HIDE DEF m
  <1>4. m \in [1..Len(l) -> Rule]
    <2>1. \A i \in DOMAIN l : (IF l[i].id = 0 THEN [l[i] EXCEPT !.id = ids + 1] ELSE l[i]) \in Rule
      BY <1>2, <1>3
    <2>. QED  BY <1>1, <1>2, <2>1
  <1>5. m \in Seq(Rule) /\ DOMAIN m = DOMAIN l
    BY <1>2, <1>4
  <1>6. \A i \in DOMAIN l : m[i].id = IF l[i].id = 0 THEN ids + 1 ELSE l[i].id
    BY <1>1, <1>2, <1>3
  <1>7. Distinct(m)
    <2>. SUFFICES ASSUME NEW i \in DOMAIN l, NEW j \in DOMAIN l, m[i].id = m[j].id
                  PROVE  l[i].id = l[j].id
      BY <1>5 DEF Distinct
    <2>1. l[i].id \in 0..ids /\ l[j].id \in 0..ids
      OBVIOUS
    <2>. QED  BY <1>6, <2>1
  <1>8. \A i \in DOMAIN l : m[i].id \in 1..(IF 0 \in A!Ids(l) THEN ids + 1 ELSE ids)
    <2>. SUFFICES ASSUME NEW i \in DOMAIN l
                  PROVE  m[i].id \in 1..(IF 0 \in A!Ids(l) THEN ids + 1 ELSE ids)
      OBVIOUS
    <2>1. l[i].id \in 0..ids /\ (l[i].id = 0 => 0 \in A!Ids(l))
      BY DEF A!Ids
    <2>. QED  BY <1>6, <2>1
  <1>9. Stored(m, IF 0 \in A!Ids(l) THEN ids + 1 ELSE ids)
    BY <1>5, <1>7, <1>8 DEF Stored
  <1>. QED  BY <1>1, <1>5, <1>9 DEF m

-----------------------------------------------------------------------------
(* How it begins.                                                            *)

LEMMA KnownIs ==
  ASSUME NEW r
  PROVE  r \in Known <=> \/ \E i \in DOMAIN server : r = server[i]
                         \/ \E c \in A!Consoles : \E i \in DOMAIN shown[c] : r = shown[c][i]
                         \/ \E c \in A!Consoles : \E i \in DOMAIN read[c].list : r = read[c].list[i]
                         \/ \E w \in writes : \E i \in DOMAIN w.list : r = w.list[i]
                         \/ \E w \in writes : r = w.change.rule
  <1>1. \A l : r \in InHand(l) <=> \E i \in DOMAIN l : r = l[i]
    BY DEF InHand
  <1>2. r \in Known <=> \/ r \in InHand(server)
                        \/ \E c \in A!Consoles : r \in InHand(shown[c]) \/ r \in InHand(read[c].list)
                        \/ \E w \in writes : r \in InHand(w.list) \/ r = w.change.rule
    <2>1. r \in OfConsoles <=> \E c \in A!Consoles : r \in InHand(shown[c]) \/ r \in InHand(read[c].list)
      BY DEF OfConsoles
    <2>2. r \in OfWrites <=> \E w \in writes : r \in InHand(w.list) \/ r = w.change.rule
      BY DEF OfWrites
    <2>. QED  BY <2>1, <2>2 DEF Known
  <1>. QED  BY <1>1, <1>2

\* The same of the state after.
LEMMA KnownNext ==
  ASSUME NEW r
  PROVE  r \in Known' <=>
                         \/ \E i \in DOMAIN server' : r = server'[i]
                         \/ \E c \in A!Consoles : \E i \in DOMAIN shown'[c] : r = shown'[c][i]
                         \/ \E c \in A!Consoles : \E i \in DOMAIN read'[c].list : r = read'[c].list[i]
                         \/ \E w \in writes' : \E i \in DOMAIN w.list : r = w.list[i]
                         \/ \E w \in writes' : r = w.change.rule
  <1>1. r \in Known' <=> \/ \E i \in DOMAIN server' : r = server'[i]
                        \/ r \in OfConsoles' \/ r \in OfWrites'
    BY DEF Known, InHand
  <1>2. r \in OfConsoles' <=> \E c \in A!Consoles : \/ \E i \in DOMAIN shown'[c] : r = shown'[c][i]
                                                   \/ \E i \in DOMAIN read'[c].list : r = read'[c].list[i]
    BY DEF OfConsoles, InHand
  <1>3. r \in OfWrites' <=> \E w \in writes' : (\E i \in DOMAIN w.list : r = w.list[i]) \/ r = w.change.rule
    BY DEF OfWrites, InHand
  <1>. QED  BY <1>1, <1>2, <1>3

LEMMA KnownTyped ==
  ASSUME ListTypes
  PROVE  /\ \A r \in Known : r \in Rule
         /\ \A w \in writes : /\ w \in Write /\ w.change \in Change /\ w.change.rule \in Rule
                              /\ w.list \in Seq(Rule)
  <1>1. \A w \in writes : /\ w \in Write /\ w.change \in Change /\ w.change.rule \in Rule
                          /\ w.list \in Seq(Rule)
    BY DEF ListTypes, Write, Change
  <1>2. \A c \in A!Consoles : shown[c] \in Seq(Rule) /\ read[c].list \in Seq(Rule)
    BY DEF ListTypes
  <1>3. \A l \in Seq(Rule) : \A i \in DOMAIN l : l[i] \in Rule
    OBVIOUS
  <1>. QED  BY <1>1, <1>2, <1>3, KnownIs DEF ListTypes

LEMMA TextsThereAre == 0 \in A!Texts /\ 1 \in A!Texts
  <1>1. A!RulesAssumption
    BY EditorsAssumption
  <1>. QED  BY <1>1 DEF A!RulesAssumption, A!Texts

LEMMA RulesBegin == A!Init => RulesInv
  <1>. SUFFICES ASSUME A!Init PROVE RulesInv
    OBVIOUS
  <1>0. 1 \in A!Texts
    BY TextsThereAre
  <1>1. /\ A!first \in Seq(Rule) /\ DOMAIN A!first = {1, 2}
        /\ A!first[1].id = 1 /\ A!first[2].id = 2 /\ A!first[1].of = 0 /\ A!first[2].of = 0
    BY <1>0 DEF A!first, Rule
  <1>2. A!NoRead.stage = "none" /\ A!NoRead.list = <<>>
        /\ A!NoRead \in [stage : {"none", "out", "served"}, list : Seq(Rule)]
    BY DEF A!NoRead
  <1>3. Stored(A!first, 2)
    BY <1>1 DEF Stored, Distinct
  <1>4. \A n : Stored(<<>>, n)
    BY DEF Stored, Distinct
  <1>5. DOMAIN drafts = {}
    BY DEF A!Init
  <1>6. ListTypes
    BY <1>1, <1>2 DEF A!Init, ListTypes
  <1>7. PanelTypes
    <2>1. drafts \in [DOMAIN drafts -> [rule : Nat, says : A!Texts, from : A!Texts]]
      BY <1>5 DEF A!Init
    <2>2. editing \in Seq([draft : DraftIds, opened : A!Texts, mount : Nat]) /\ Len(editing) <= 1
      BY DEF A!Init
    <2>. QED  BY <1>5, <2>1, <2>2 DEF A!Init, PanelTypes
  <1>8. ListsHold
    BY <1>2, <1>3, <1>4 DEF A!Init, ListsHold
  <1>9. EditorHolds /\ WritesHold /\ DraftsHold /\ SavesHold
    BY <1>5 DEF A!Init, EditorHolds, WritesHold, DraftsHold, SavesHold
  <1>10. \A r \in Known : r.of = 0
    BY <1>1, <1>2, KnownIs DEF A!Init
  <1>11. OfHold
    BY <1>10 DEF OfHold, A!Init
  <1>12. TracesHold
    BY <1>5, <1>10 DEF TracesHold, A!Init
  <1>. QED  BY <1>6, <1>7, <1>8, <1>9, <1>11, <1>12 DEF RulesInv

-----------------------------------------------------------------------------
(* The panel and its editor: the lists stand still, and what is opened or    *)
(* forgotten disturbs no write.                                              *)

LEMMA ScreenKeeps ==
  ASSUME RulesInv, A!Still, PanelTypes', EditorHolds', DraftsHold', count' >= count,
         \/ editing' = editing \/ editing' = <<>>
         \/ editing'[1].draft[1] = "rule" \/ editing'[1].draft[2] > count,
         \A d \in DOMAIN drafts' : d \in DOMAIN drafts \/ d[1] = "rule" \/ d[2] > count
  PROVE  RulesInv'
  <1>1. UNCHANGED <<server, ids, shown, read, writes, presses, lost>>
    BY DEF A!Still
  <1>2. ListTypes' /\ ListsHold' /\ WritesHold'
    <2>1. ListTypes /\ ListsHold /\ WritesHold
      BY DEF RulesInv
    <2>2. ListTypes'
      BY <1>1, <2>1 DEF ListTypes
    <2>3. ListsHold'
      BY <1>1, <2>1 DEF ListsHold
    <2>4. WritesHold'
      BY <1>1, <2>1 DEF WritesHold
    <2>. QED  BY <2>2, <2>3, <2>4
  <1>3. Known' = Known
    BY <1>1 DEF Known, OfConsoles, OfWrites
  <1>4. count \in Nat /\ count' \in Nat
    BY DEF RulesInv, PanelTypes
  <1>5. SavesHold'
    <2>. SUFFICES ASSUME NEW w \in writes, Fresh(w), editing' # <<>>, editing'[1].draft = w.draft
                  PROVE  editing'[1].mount = w.mount
      BY <1>1, <1>4 DEF RulesInv, SavesHold, Fresh
    <2>1. w.draft = <<"draft", w.change.rule.of>> /\ w.change.rule.of \in 1..count
      BY DEF RulesInv, SavesHold
    <2>2. editing' = editing
      BY <1>4, <2>1
    <2>. QED  BY <2>2 DEF RulesInv, SavesHold
  <1>6. OfHold'
    BY <1>3, <1>4 DEF RulesInv, OfHold
  <1>7. (lost = 0 => TracesHold)'
    <2>. SUFFICES ASSUME lost = 0, TracesHold, OfHold PROVE TracesHold'
      BY <1>1 DEF RulesInv
    <2>1. \A r \in Known : <<"draft", r.of>> \in DOMAIN drafts' => <<"draft", r.of>> \in DOMAIN drafts
      BY <1>4 DEF OfHold
    <2>. QED  BY <1>1, <1>3, <2>1 DEF TracesHold, Fresh
  <1>. QED  BY <1>2, <1>5, <1>6, <1>7 DEF RulesInv

\* The facts an action of the panel's starts from.
LEMMA ScreenFacts ==
  ASSUME RulesInv
  PROVE  /\ count \in Nat /\ opened \in Nat /\ panel \in Nat /\ ids \in Nat
         /\ DOMAIN drafts \subseteq DraftIds
         /\ \A d \in DOMAIN drafts : drafts[d] \in [rule : Nat, says : A!Texts, from : A!Texts]
         /\ editing # <<>> => /\ Len(editing) = 1
                              /\ editing[1] \in [draft : DraftIds, opened : A!Texts, mount : Nat]
         /\ <<>> \in Seq([draft : DraftIds, opened : A!Texts, mount : Nat]) /\ Len(<<>>) <= 1
  <1>1. PanelTypes /\ ListTypes
    BY DEF RulesInv
  <1>2. \A d \in DOMAIN drafts : drafts[d] \in [rule : Nat, says : A!Texts, from : A!Texts]
    BY <1>1 DEF PanelTypes
  <1>3. editing # <<>> => Len(editing) = 1
                          /\ editing[1] \in [draft : DraftIds, opened : A!Texts, mount : Nat]
    <2>. DEFINE E == [draft : DraftIds, opened : A!Texts, mount : Nat]
    <2>. HIDE DEF E
    <2>1. editing \in Seq(E) /\ Len(editing) <= 1
      BY <1>1 DEF PanelTypes, E
    <2>2. editing # <<>> => Len(editing) \in Nat \ {0}
      BY <2>1, EmptySeq
    <2>3. editing # <<>> => Len(editing) = 1
      BY <2>1, <2>2
    <2>4. editing # <<>> => editing[1] \in E
      <3>. SUFFICES ASSUME editing # <<>> PROVE editing[1] \in E
        OBVIOUS
      <3>1. 1 \in 1..Len(editing)
        BY <2>3
      <3>. QED  BY <2>1, <3>1, ElementOfSeq
    <2>. QED  BY <2>3, <2>4 DEF E
  <1>. QED  BY <1>1, <1>2, <1>3 DEF PanelTypes, ListTypes

\* A draft forgotten leaves the others as they were.
LEMMA Forgotten ==
  ASSUME RulesInv, NEW d, A!forgetDraft(d)
  PROVE  /\ DOMAIN drafts' = DOMAIN drafts \ {d}
         /\ \A e \in DOMAIN drafts' : drafts'[e] = drafts[e]
         /\ DOMAIN drafts' \subseteq DraftIds
         /\ drafts' \in [DOMAIN drafts' -> [rule : Nat, says : A!Texts, from : A!Texts]]
  <1>1. drafts' = [e \in DOMAIN drafts \ {d} |-> drafts[e]]
    BY DEF A!forgetDraft, A!Restrict
  <1>. QED  BY <1>1, ScreenFacts

LEMMA PanelOpens == RulesInv /\ A!OpenPanel => RulesInv'
  <1>. SUFFICES ASSUME RulesInv, A!OpenPanel PROVE RulesInv'
    OBVIOUS
  <1>1. /\ A!Still /\ UNCHANGED <<drafts, count, editing, leaving>>
        /\ panel = 0 /\ panel' = opened + 1 /\ opened' = opened + 1
    BY DEF A!OpenPanel
  <1>2. PanelTypes' /\ EditorHolds' /\ DraftsHold'
    <2>1. PanelTypes'
      BY <1>1 DEF RulesInv, PanelTypes
    <2>2. EditorHolds' /\ DraftsHold'
      BY <1>1, ScreenFacts DEF RulesInv, EditorHolds, DraftsHold, A!Still
    <2>. QED  BY <2>1, <2>2
  <1>. QED  BY <1>1, <1>2, ScreenKeeps, ScreenFacts

LEMMA PanelShuts == RulesInv /\ A!ClosePanel => RulesInv'
  <1>. SUFFICES ASSUME RulesInv, A!ClosePanel PROVE RulesInv'
    OBVIOUS
  <1>1. /\ A!Still /\ UNCHANGED <<drafts, count, opened>>
        /\ panel' = 0 /\ editing' = <<>> /\ leaving' = FALSE
    BY DEF A!ClosePanel
  <1>2. PanelTypes' /\ EditorHolds' /\ DraftsHold'
    <2>1. PanelTypes'
      BY <1>1, ScreenFacts DEF RulesInv, PanelTypes
    <2>2. EditorHolds' /\ DraftsHold'
      BY <1>1 DEF RulesInv, EditorHolds, DraftsHold, A!Still
    <2>. QED  BY <2>1, <2>2
  <1>. QED  BY <1>1, <1>2, ScreenKeeps, ScreenFacts

\* An editor opened finds its draft, or makes it.
LEMMA EditorOpens ==
  ASSUME RulesInv, NEW d \in DraftIds, NEW made \in [rule : Nat, says : A!Texts, from : A!Texts],
         A!Opens(d, made), made.rule \in 0..ids, made.rule = 0 <=> d[1] = "draft",
         \/ d[1] = "rule" /\ count' = count
         \/ d[1] = "draft" /\ d[2] = count + 1 /\ count' = count + 1
  PROVE  RulesInv'
  <1>1. /\ A!Still /\ panel # 0 /\ UNCHANGED panel
        /\ opened' = opened + 1 /\ leaving' = FALSE
        /\ drafts' = [e \in DOMAIN drafts \cup {d} |-> IF e \in DOMAIN drafts THEN drafts[e] ELSE made]
        /\ editing' = <<[draft |-> d, opened |-> drafts'[d].says, mount |-> opened + 1]>>
    BY DEF A!Opens
  <1>2. /\ DOMAIN drafts' = DOMAIN drafts \cup {d}
        /\ \A e \in DOMAIN drafts : drafts'[e] = drafts[e]
        /\ d \notin DOMAIN drafts => drafts'[d] = made
    BY <1>1
  <1>3. \A e \in DOMAIN drafts' : drafts'[e] \in [rule : Nat, says : A!Texts, from : A!Texts]
    BY <1>2, ScreenFacts
  <1>. DEFINE one == [draft |-> d, opened |-> drafts'[d].says, mount |-> opened + 1]
              E == [draft : DraftIds, opened : A!Texts, mount : Nat]
  <1>4. one \in E /\ one.draft = d
    BY <1>2, <1>3, ScreenFacts
  <1>. HIDE DEF one, E
  <1>5. editing' = <<one>>
    BY <1>1 DEF one
  <1>6. editing' \in Seq(E) /\ Len(editing') = 1 /\ editing' # <<>> /\ editing'[1].draft = d
    BY <1>4, <1>5
  <1>7. count' \in Nat /\ count' >= count
    BY ScreenFacts
  <1>8. PanelTypes'
    <2>1. drafts' \in [DOMAIN drafts' -> [rule : Nat, says : A!Texts, from : A!Texts]]
      BY <1>1, <1>2, <1>3
    <2>2. DOMAIN drafts' \subseteq DraftIds
      BY <1>2, ScreenFacts
    <2>3. panel' \in Nat /\ opened' \in Nat
      BY <1>1, ScreenFacts
    <2>4. leaving' \in BOOLEAN
      BY <1>1, Zenon
    <2>. QED  BY <1>6, <1>7, <2>1, <2>2, <2>3, <2>4 DEF PanelTypes, E
  <1>9. EditorHolds'
    BY <1>1, <1>6 DEF EditorHolds
  <1>10. DraftsHold'
    <2>1. DraftsHold /\ ids' = ids
      BY <1>1 DEF RulesInv, A!Still
    <2>2. d[1] = "draft" => d[2] \in 1..count'
      BY ScreenFacts
    <2>3. \A e \in DOMAIN drafts' :
             /\ drafts'[e].rule \in 0..ids
             /\ drafts'[e].rule = 0 <=> e[1] = "draft"
             /\ e[1] = "draft" => e[2] \in 1..count'
      BY <1>2, <1>7, <2>1, <2>2, ScreenFacts DEF DraftsHold
    <2>. QED  BY <1>6, <2>1, <2>2, <2>3 DEF DraftsHold
  <1>11. editing'[1].draft[1] = "rule" \/ editing'[1].draft[2] > count
    BY <1>6, ScreenFacts
  <1>12. \A e \in DOMAIN drafts' : e \in DOMAIN drafts \/ e[1] = "rule" \/ e[2] > count
    BY <1>2, ScreenFacts
  <1>. QED  BY <1>1, <1>7, <1>8, <1>9, <1>10, <1>11, <1>12, ScreenKeeps

LEMMA RuleOpens ==
  ASSUME RulesInv, NEW r \in A!ToSet(shown["here"]), A!EditRule(r)
  PROVE  RulesInv'
  <1>1. r \in Rule /\ r.id \in 1..ids
    <2>1. "here" \in A!Consoles
      BY DEF A!Consoles
    <2>2. PICK i \in DOMAIN shown["here"] : r = shown["here"][i]
      BY DEF A!ToSet
    <2>3. Stored(shown["here"], ids) /\ shown["here"] \in Seq(Rule)
      BY <2>1 DEF RulesInv, ListsHold, ListTypes
    <2>. QED  BY <2>2, <2>3 DEF Stored
  <1>. DEFINE made == [rule |-> r.id, says |-> r.says, from |-> r.says]
              d == <<"rule", r.id>>
  <1>2. made \in [rule : Nat, says : A!Texts, from : A!Texts] /\ made.rule \in 0..ids /\ made.rule # 0
    BY <1>1, ScreenFacts DEF Rule
  <1>3. d \in DraftIds /\ d[1] = "rule"
    BY <1>1 DEF DraftIds, Rule
  <1>4. A!Opens(d, made) /\ count' = count
    BY DEF A!EditRule
  <1>. HIDE DEF made, d
  <1>. QED  BY <1>2, <1>3, <1>4, EditorOpens

LEMMA RuleBegins == RulesInv /\ A!NewRule => RulesInv'
  <1>. SUFFICES ASSUME RulesInv, A!NewRule PROVE RulesInv'
    OBVIOUS
  <1>. DEFINE made == [rule |-> 0, says |-> 0, from |-> 0]
              d == <<"draft", count + 1>>
  <1>0. 0 \in A!Texts
    BY TextsThereAre
  <1>1. made \in [rule : Nat, says : A!Texts, from : A!Texts] /\ made.rule \in 0..ids /\ made.rule = 0
    BY <1>0, ScreenFacts
  <1>2. d \in DraftIds /\ d[1] = "draft" /\ d[2] = count + 1
    BY ScreenFacts DEF DraftIds
  <1>3. A!Opens(d, made) /\ count' = count + 1
    BY DEF A!NewRule
  <1>. HIDE DEF made, d
  <1>. QED  BY <1>1, <1>2, <1>3, EditorOpens

LEMMA ReaderWrites == RulesInv /\ A!KeepWriting => RulesInv'
  <1>. SUFFICES ASSUME RulesInv, A!KeepWriting PROVE RulesInv'
    OBVIOUS
  <1>1. A!Still /\ leaving' = FALSE /\ UNCHANGED <<drafts, count, panel, editing, opened>>
    BY DEF A!KeepWriting
  <1>2. PanelTypes' /\ EditorHolds' /\ DraftsHold'
    <2>1. leaving' \in BOOLEAN
      BY <1>1, Zenon
    <2>2. PanelTypes'
      BY <1>1, <2>1 DEF RulesInv, PanelTypes
    <2>3. EditorHolds' /\ DraftsHold'
      BY <1>1 DEF RulesInv, EditorHolds, DraftsHold, A!Still
    <2>. QED  BY <2>2, <2>3
  <1>. QED  BY <1>1, <1>2, ScreenKeeps, ScreenFacts

\* Back over a draft nobody typed into, and the answer to the question, forget the draft.
LEMMA ReaderLeaves ==
  ASSUME RulesInv, A!leave, A!Still, UNCHANGED <<count, panel, opened>>
  PROVE  RulesInv'
  <1>1. A!forgetDraft(editing[1].draft) /\ editing' = <<>> /\ leaving' = FALSE
    BY DEF A!leave
  <1>2. /\ DOMAIN drafts' \subseteq DOMAIN drafts
        /\ \A e \in DOMAIN drafts' : drafts'[e] = drafts[e]
        /\ DOMAIN drafts' \subseteq DraftIds
        /\ drafts' \in [DOMAIN drafts' -> [rule : Nat, says : A!Texts, from : A!Texts]]
    BY <1>1, Forgotten
  <1>3. PanelTypes' /\ EditorHolds' /\ DraftsHold'
    <2>1. leaving' \in BOOLEAN
      BY <1>1, Zenon
    <2>2. editing' \in Seq([draft : DraftIds, opened : A!Texts, mount : Nat]) /\ Len(editing') <= 1
      BY <1>1, ScreenFacts
    <2>3. PanelTypes'
      BY <1>2, <2>1, <2>2, ScreenFacts DEF PanelTypes
    <2>4. EditorHolds'
      BY <1>1 DEF EditorHolds
    <2>5. DraftsHold'
      BY <1>1, <1>2 DEF RulesInv, DraftsHold, A!Still
    <2>. QED  BY <2>3, <2>4, <2>5
  <1>. QED  BY <1>1, <1>2, <1>3, ScreenKeeps, ScreenFacts

LEMMA ReaderGoesBack == RulesInv /\ A!Back => RulesInv'
  <1>. SUFFICES ASSUME RulesInv, A!Back PROVE RulesInv'
    OBVIOUS
  <1>1. A!Still /\ UNCHANGED <<count, panel, opened>> /\ editing # <<>>
    BY DEF A!Back
  <1>2. CASE A!Filled
    <2>1. leaving' = TRUE /\ UNCHANGED <<drafts, editing>>
      BY <1>2 DEF A!Back
    <2>2. leaving' \in BOOLEAN
      BY <2>1, Zenon
    <2>3. PanelTypes'
      BY <1>1, <2>1, <2>2 DEF RulesInv, PanelTypes
    <2>4. EditorHolds' /\ DraftsHold'
      BY <1>1, <2>1 DEF RulesInv, EditorHolds, DraftsHold, A!Still
    <2>. QED  BY <1>1, <2>1, <2>3, <2>4, ScreenKeeps, ScreenFacts
  <1>3. CASE ~A!Filled
    <2>1. A!leave
      BY <1>3 DEF A!Back
    <2>. QED  BY <1>1, <2>1, ReaderLeaves
  <1>. QED  BY <1>2, <1>3

LEMMA ReaderDiscards == RulesInv /\ A!Discard => RulesInv'
  BY ReaderLeaves DEF A!Discard

LEMMA ReaderTypes ==
  ASSUME RulesInv, NEW t \in A!Texts, A!Type(t)
  PROVE  RulesInv'
  <1>. DEFINE d == editing[1].draft
  <1>1. /\ A!Still /\ UNCHANGED <<count, panel, editing, leaving, opened>>
        /\ editing # <<>> /\ d \in DOMAIN drafts
        /\ drafts' = [drafts EXCEPT ![d].says = t]
    BY DEF A!Type, A!Editor
  <1>. HIDE DEF d
  <1>2. /\ DOMAIN drafts' = DOMAIN drafts
        /\ \A e \in DOMAIN drafts : drafts'[e].rule = drafts[e].rule
        /\ \A e \in DOMAIN drafts : drafts'[e] \in [rule : Nat, says : A!Texts, from : A!Texts]
    BY <1>1, ScreenFacts
  <1>3. drafts' \in [DOMAIN drafts' -> [rule : Nat, says : A!Texts, from : A!Texts]]
    BY <1>1, <1>2
  <1>4. PanelTypes'
    BY <1>1, <1>2, <1>3 DEF RulesInv, PanelTypes
  <1>5. EditorHolds' /\ DraftsHold'
    BY <1>1, <1>2 DEF RulesInv, EditorHolds, DraftsHold, A!Still
  <1>. QED  BY <1>1, <1>2, <1>4, <1>5, ScreenKeeps, ScreenFacts

-----------------------------------------------------------------------------
(* The writes: the screen stands still, and what anybody has in hand is      *)
(* nearly always what somebody had before.                                   *)

LEMMA ScreenStands ==
  ASSUME RulesInv, UNCHANGED A!screen, ids' \in Nat, ids' >= ids
  PROVE  PanelTypes' /\ EditorHolds' /\ DraftsHold'
  <1>1. UNCHANGED <<drafts, count, panel, editing, leaving, opened>>
    BY DEF A!screen
  <1>2. PanelTypes'
    BY <1>1 DEF RulesInv, PanelTypes
  <1>3. EditorHolds'
    BY <1>1 DEF RulesInv, EditorHolds
  <1>4. DraftsHold'
    <2>1. \A d \in DOMAIN drafts : drafts[d].rule \in 0..ids'
      BY ScreenFacts DEF RulesInv, DraftsHold
    <2>. QED  BY <1>1, <2>1 DEF RulesInv, DraftsHold
  <1>. QED  BY <1>2, <1>3, <1>4

\* Where nothing new is in hand, nothing new is known of any draft.
LEMMA NothingNew ==
  ASSUME RulesInv, Known' \subseteq Known, UNCHANGED count
  PROVE  OfHold'
  BY DEF RulesInv, OfHold

LEMMA TracesStay ==
  ASSUME TracesHold, Known' \subseteq Known, DOMAIN drafts' \subseteq DOMAIN drafts,
         \A v \in writes' : Fresh(v) /\ v.stage # "taken" =>
            \E w \in writes : w.change = v.change /\ w.stage # "taken",
         \A w \in writes : Fresh(w) /\ w.stage = "taken" /\ w.draft \in DOMAIN drafts' =>
            \E v \in writes' : v.change = w.change /\ v.draft = w.draft /\ v.stage = "taken"
  PROVE  TracesHold'
  <1>1. \A r, s \in Known' : r.id # 0 /\ s.id # 0 /\ r.of = s.of /\ r.of # 0 => r.id = s.id
    BY DEF TracesHold
  <1>2. \A w \in writes' : Fresh(w) /\ w.stage # "taken" =>
           \A r \in Known' : r.of = w.change.rule.of => r.id = 0
    BY DEF TracesHold, Fresh
  <1>3. \A r \in Known' : r.id # 0 /\ <<"draft", r.of>> \in DOMAIN drafts' =>
           \E w \in writes' : Fresh(w) /\ w.draft = <<"draft", r.of>> /\ w.stage = "taken"
    <2>. SUFFICES ASSUME NEW r \in Known', r.id # 0, <<"draft", r.of>> \in DOMAIN drafts'
                  PROVE  \E v \in writes' : Fresh(v) /\ v.draft = <<"draft", r.of>> /\ v.stage = "taken"
      OBVIOUS
    <2>1. PICK w \in writes : Fresh(w) /\ w.draft = <<"draft", r.of>> /\ w.stage = "taken"
      BY DEF TracesHold
    <2>2. PICK v \in writes' : v.change = w.change /\ v.draft = w.draft /\ v.stage = "taken"
      BY <2>1
    <2>. QED  BY <2>1, <2>2 DEF Fresh
  <1>. QED  BY <1>1, <1>2, <1>3 DEF TracesHold, Fresh

\* A press: a write begun, and a read asked for it.
LEMMA PressKeeps ==
  ASSUME RulesInv, typed \in Nat, NEW who \in {"editor", "panel", "phone"}, NEW c \in A!Consoles, NEW mount \in Nat,
         NEW change \in Change, NEW d \in DraftIds \cup {<<>>},
         A!Press(who, c, mount, change, d), UNCHANGED A!screen,
         change.rule.id \in 0..ids, change.rule.of \in 0..count,
         change.kind = "remove" => change.rule.id # 0,
         change.kind = "save" /\ change.rule.id = 0 =>
            /\ who = "editor" /\ change.rule.of \in 1..count /\ d = <<"draft", change.rule.of>>
            /\ d \in DOMAIN drafts
            /\ editing # <<>> /\ editing[1].draft = d /\ mount = editing[1].mount,
         change.rule.id # 0 /\ change.rule.of # 0 =>
            \E r \in Known : r.id = change.rule.id /\ r.of = change.rule.of
  PROVE  RulesInv'
  <1>. DEFINE new == [who |-> who, at |-> c, mount |-> mount, change |-> change,
                      draft |-> d, in |-> panel, stage |-> "reading",
                      base |-> <<>>, list |-> <<>>, pressed |-> presses, typed |-> typed]
  <1>1. /\ writes' = writes \cup {new} /\ presses' = presses + 1
        /\ UNCHANGED <<server, ids, shown, lost>>
        /\ A!Guarded(who, mount)
        /\ read' = [read EXCEPT ![c] = IF @ = A!NoRead THEN A!Out ELSE @]
    BY DEF A!Press, A!Asked
  <1>2. /\ ListTypes /\ PanelTypes /\ ListsHold /\ WritesHold /\ SavesHold /\ OfHold
        /\ (lost = 0 => TracesHold)
    BY DEF RulesInv
  <1>3. /\ new.who = who /\ new.mount = mount /\ new.change = change /\ new.draft = d
        /\ new.stage = "reading" /\ new.list = <<>> /\ new.pressed = presses
    OBVIOUS
  <1>4. new \in Write
    <2>1. panel \in Nat /\ presses \in Nat /\ <<>> \in Seq(Rule)
      BY <1>2 DEF PanelTypes, ListTypes
    <2>. QED  BY <2>1 DEF Write
  <1>. HIDE DEF new
  <1>5. A!NoRead.list = <<>> /\ A!Out.list = <<>>
        /\ A!Out \in [stage : {"none", "out", "served"}, list : Seq(Rule)]
    BY DEF A!NoRead, A!Out
  <1>6. /\ read' \in [A!Consoles -> [stage : {"none", "out", "served"}, list : Seq(Rule)]]
        /\ \A e \in A!Consoles : read'[e].list = read[e].list
    <2>1. read \in [A!Consoles -> [stage : {"none", "out", "served"}, list : Seq(Rule)]]
      BY <1>2 DEF ListTypes
    <2>. QED  BY <1>1, <1>5, <2>1
  <1>7. Stored(<<>>, ids)
    BY DEF Stored, Distinct
  <1>8. ListTypes'
    <2>1. presses' \in Nat
      BY <1>1, <1>2 DEF ListTypes
    <2>. QED  BY <1>1, <1>2, <1>4, <1>6, <2>1 DEF ListTypes
  <1>9. ListsHold'
    <2>1. \A w \in writes' : IF w.stage = "putting" THEN ToPut(w, ids) ELSE Stored(w.list, ids)
      BY <1>1, <1>2, <1>3, <1>7 DEF ListsHold
    <2>2. \A w \in writes' : w.change.rule.id \in 0..ids /\ (w.change.kind = "remove" => w.change.rule.id # 0)
      BY <1>1, <1>2, <1>3 DEF ListsHold
    <2>3. \A e \in A!Consoles : Stored(shown'[e], ids') /\ Stored(read'[e].list, ids')
      BY <1>1, <1>2, <1>6 DEF ListsHold
    <2>. QED  BY <1>1, <1>2, <2>1, <2>2, <2>3 DEF ListsHold
  <1>10. WritesHold'
    <2>1. \A w \in writes : w.pressed < presses /\ w.pressed \in Nat
      BY <1>2 DEF WritesHold, ListTypes, Write
    <2>2. presses \in Nat
      BY <1>2 DEF ListTypes
    <2>3. \A w \in writes' : w.pressed < presses'
      BY <1>1, <1>3, <2>1, <2>2
    <2>4. \A v, w \in writes' : v.pressed = w.pressed => v = w
      BY <1>1, <1>2, <1>3, <2>1, <2>2 DEF WritesHold
    <2>5. \A w \in writes' : w.stage = "putting" =>
             Stored(w.base, ids') /\ w.list = A!Changed(w.base, w.change)
      BY <1>1, <1>2, <1>3 DEF WritesHold
    <2>. QED  BY <2>3, <2>4, <2>5 DEF WritesHold
  <1>11. UNCHANGED <<drafts, count, editing>>
    BY DEF A!screen
  <1>12. \A w \in writes : Fresh(w) => w.draft # d \/ ~Fresh(new)
    <2>. SUFFICES ASSUME NEW w \in writes, Fresh(w), w.draft = d, Fresh(new)
                  PROVE  FALSE
      OBVIOUS
    <2>1. w.who = "editor" /\ w.mount = mount /\ who = "editor"
      BY <1>2, <1>3 DEF SavesHold, Fresh
    <2>. QED  BY <1>1, <2>1 DEF A!Guarded
  <1>13. SavesHold'
    <2>1. \A w \in writes' : Fresh(w) =>
            /\ w.who = "editor" /\ w.change.rule.of \in 1..count
            /\ w.draft = <<"draft", w.change.rule.of>>
            /\ editing # <<>> /\ editing[1].draft = w.draft => editing[1].mount = w.mount
      BY <1>1, <1>2, <1>3 DEF SavesHold, Fresh
    <2>2. \A v, w \in writes' : Fresh(v) /\ Fresh(w) /\ v.draft = w.draft => v = w
      BY <1>1, <1>2, <1>3, <1>12 DEF SavesHold
    <2>. QED  BY <1>11, <2>1, <2>2 DEF SavesHold, Fresh
  <1>14. \A r : r \in Known' <=> r \in Known \/ r = change.rule
    <2>. SUFFICES ASSUME NEW r PROVE r \in Known' <=> r \in Known \/ r = change.rule
      OBVIOUS
    <2>1. \/ \E w \in writes' : \E i \in DOMAIN w.list : r = w.list[i]
          \/ \E w \in writes' : r = w.change.rule
          <=> \/ \E w \in writes : \E i \in DOMAIN w.list : r = w.list[i]
              \/ \E w \in writes : r = w.change.rule
              \/ r = change.rule
      BY <1>1, <1>3
    <2>2. r \in Known' <=>
                         \/ \E i \in DOMAIN server : r = server[i]
                         \/ \E e \in A!Consoles : \E i \in DOMAIN shown[e] : r = shown[e][i]
                         \/ \E e \in A!Consoles : \E i \in DOMAIN read'[e].list : r = read'[e].list[i]
                         \/ \E w \in writes' : \E i \in DOMAIN w.list : r = w.list[i]
                         \/ \E w \in writes' : r = w.change.rule
      BY <1>1, KnownNext
    <2>3. \A e \in A!Consoles : read'[e].list = read[e].list
      BY <1>6
    <2>. HIDE <1>1, <1>6
    <2>. QED  BY <2>1, <2>2, <2>3, KnownIs
  <1>15. OfHold'
    BY <1>2, <1>11, <1>14 DEF OfHold
  <1>16. (lost = 0 => TracesHold)'
    <2>. SUFFICES ASSUME lost = 0, TracesHold PROVE TracesHold'
      BY <1>1, <1>2
    <2>1. \A r, s \in Known' : r.id # 0 /\ s.id # 0 /\ r.of = s.of /\ r.of # 0 => r.id = s.id
      BY <1>14 DEF TracesHold
    <2>2. \A w \in writes : Fresh(w) /\ w.stage # "taken" =>
             \A r \in Known' : r.of = w.change.rule.of => r.id = 0
      <3>1. \A w \in writes : Fresh(w) => w.change.rule.of # 0
        BY <1>2 DEF SavesHold
      <3>. QED  BY <1>14, <3>1 DEF TracesHold
    <2>3. Fresh(new) => \A r \in Known' : r.of = change.rule.of => r.id = 0
      <3>. SUFFICES ASSUME Fresh(new), NEW r \in Known', r.of = change.rule.of, r.id # 0
                    PROVE  FALSE
        OBVIOUS
      <3>1. r \in Known /\ d = <<"draft", r.of>> /\ d \in DOMAIN drafts
        BY <1>3, <1>14 DEF Fresh
      <3>2. \E w \in writes : Fresh(w) /\ w.draft = d
        BY <3>1 DEF TracesHold
      <3>. QED  BY <1>12, <3>2
    <2>4. \A r \in Known' : r.id # 0 /\ <<"draft", r.of>> \in DOMAIN drafts =>
             \E w \in writes : Fresh(w) /\ w.draft = <<"draft", r.of>> /\ w.stage = "taken"
      <3>. SUFFICES ASSUME NEW r \in Known', r.id # 0, <<"draft", r.of>> \in DOMAIN drafts
                    PROVE  \E w \in writes : Fresh(w) /\ w.draft = <<"draft", r.of>> /\ w.stage = "taken"
        OBVIOUS
      <3>1. r.of \in 1..count
        <4>1. DraftsHold
          BY DEF RulesInv
        <4>. QED  BY <4>1 DEF DraftsHold
      <3>2. \E s \in Known : s.id = r.id /\ s.of = r.of
        BY <1>14, <3>1
      <3>. QED  BY <3>2 DEF TracesHold
    <2>5. \A w \in writes' : w \in writes \/ w = new
      BY <1>1
    <2>6. \A w \in writes' : Fresh(w) /\ w.stage # "taken" =>
             \A r \in Known' : r.of = w.change.rule.of => r.id = 0
      BY <1>3, <2>2, <2>3, <2>5
    <2>7. \A r \in Known' : r.id # 0 /\ <<"draft", r.of>> \in DOMAIN drafts' =>
             \E w \in writes' : Fresh(w) /\ w.draft = <<"draft", r.of>> /\ w.stage = "taken"
      <3>1. drafts' = drafts /\ \A w \in writes : w \in writes'
        BY <1>1, <1>11
      <3>. QED  BY <2>4, <3>1
    <2>. QED  BY <2>1, <2>6, <2>7 DEF TracesHold, Fresh
  <1>17. PanelTypes' /\ EditorHolds' /\ DraftsHold'
    BY <1>1, ScreenStands, ScreenFacts
  <1>. QED  BY <1>8, <1>9, <1>10, <1>13, <1>15, <1>16, <1>17 DEF RulesInv

LEMMA EditorSaves == RulesInv /\ typed \in Nat /\ A!Save => RulesInv'
  <1>. SUFFICES ASSUME RulesInv, typed \in Nat, A!Save PROVE RulesInv'
    OBVIOUS
  <1>. DEFINE d == editing[1].draft
              made == [id |-> drafts[d].rule, says |-> drafts[d].says,
                       of |-> IF drafts[d].rule = 0 THEN d[2] ELSE 0]
              change == [kind |-> "save", rule |-> made]
  <1>1. /\ editing # <<>> /\ d \in DOMAIN drafts
        /\ A!Press("editor", "here", editing[1].mount, change, d)
        /\ UNCHANGED A!screen
    BY DEF A!Save, A!Editor, A!Draft
  <1>2. /\ drafts[d].rule \in 0..ids /\ drafts[d].rule \in Nat /\ drafts[d].says \in A!Texts
        /\ drafts[d].rule = 0 <=> d[1] = "draft"
        /\ d[1] = "draft" => d[2] \in 1..count
    BY <1>1, ScreenFacts DEF RulesInv, DraftsHold
  <1>3. d \in DraftIds /\ editing[1].mount \in Nat
    BY <1>1, ScreenFacts
  <1>4. made \in Rule /\ made.id \in 0..ids /\ made.id = drafts[d].rule
        /\ made.of \in 0..count
        /\ (made.id # 0 => made.of = 0)
        /\ (made.id = 0 => made.of \in 1..count /\ d = <<"draft", made.of>>)
    <2>1. CASE drafts[d].rule = 0
      <3>1. d[1] = "draft" /\ d[2] \in 1..count /\ d[2] \in Nat /\ made.of = d[2]
        BY <1>2, <2>1, ScreenFacts
      <3>2. d = <<"draft", d[2]>>
        BY <1>3, <3>1 DEF DraftIds
      <3>. QED  BY <1>2, <2>1, <3>1, <3>2, ScreenFacts DEF Rule
    <2>2. CASE drafts[d].rule # 0
      BY <1>2, <2>2, ScreenFacts DEF Rule
    <2>. QED  BY <2>1, <2>2
  <1>. HIDE DEF made, d
  <1>5. change \in Change /\ change.kind = "save" /\ change.rule = made
    BY <1>4 DEF Change
  <1>. HIDE DEF change
  <1>6. "here" \in A!Consoles
    BY DEF A!Consoles
  <1>7. editing[1].draft = d
    BY DEF d
  <1>. DEFINE mount == editing[1].mount
  <1>8. mount \in Nat /\ A!Press("editor", "here", mount, change, d) /\ mount = editing[1].mount
    BY <1>1, <1>3
  <1>. HIDE DEF mount
  <1>. QED  BY <1>1, <1>3, <1>4, <1>5, <1>6, <1>7, <1>8, PressKeeps

\* The switch and the cross are about a rule somebody is shown.
LEMMA FlickKeeps ==
  ASSUME RulesInv, typed \in Nat, NEW who \in {"panel", "phone"}, NEW c \in A!Consoles, NEW mount \in Nat,
         NEW r \in A!ToSet(shown[c]), A!Flicks(who, c, mount, r), UNCHANGED A!screen
  PROVE  RulesInv'
  <1>1. PICK i \in DOMAIN shown[c] : r = shown[c][i]
    BY DEF A!ToSet
  <1>2. /\ r \in Rule /\ r.id \in 1..ids /\ r \in Known /\ r.of \in 0..count
    <2>1. Stored(shown[c], ids) /\ shown[c] \in Seq(Rule)
      BY DEF RulesInv, ListsHold, ListTypes
    <2>2. r \in Rule /\ r.id \in 1..ids
      BY <1>1, <2>1 DEF Stored
    <2>3. r \in Known
      BY <1>1, KnownIs
    <2>. QED  BY <2>2, <2>3 DEF RulesInv, OfHold
  <1>3. r.id # 0 /\ r.id \in 0..ids /\ <<>> \in DraftIds \cup {<<>>}
    BY <1>2, ScreenFacts
  <1>4. ASSUME NEW t \in A!Texts,
               A!Press(who, c, mount, [kind |-> "save", rule |-> [r EXCEPT !.says = t]], <<>>)
        PROVE  RulesInv'
    <2>. DEFINE change == [kind |-> "save", rule |-> [r EXCEPT !.says = t]]
    <2>1. /\ change \in Change /\ change.rule.id = r.id /\ change.rule.of = r.of
          /\ change.kind = "save"
      BY <1>2 DEF Change, Rule
    <2>2. A!Press(who, c, mount, change, <<>>)
      BY <1>4
    <2>. HIDE DEF change
    <2>. QED  BY <1>2, <1>3, <2>1, <2>2, PressKeeps
  <1>5. ASSUME A!Press(who, c, mount, [kind |-> "remove", rule |-> r], <<>>)
        PROVE  RulesInv'
    <2>. DEFINE change == [kind |-> "remove", rule |-> r]
    <2>1. change \in Change /\ change.rule = r /\ change.kind = "remove"
      BY <1>2 DEF Change
    <2>2. A!Press(who, c, mount, change, <<>>)
      BY <1>5
    <2>. HIDE DEF change
    <2>. QED  BY <1>2, <1>3, <2>1, <2>2, PressKeeps
  <1>. QED  BY <1>4, <1>5 DEF A!Flicks

LEMMA SwitchAndPhone ==
  ASSUME RulesInv, typed \in Nat
  PROVE  /\ \A r \in A!ToSet(shown["here"]) : A!Switch(r) => RulesInv'
         /\ \A r \in A!ToSet(shown["there"]) : A!Phone(r) => RulesInv'
  <1>1. "here" \in A!Consoles /\ "there" \in A!Consoles /\ panel \in Nat /\ 0 \in Nat
    BY ScreenFacts DEF A!Consoles
  <1>2. ASSUME NEW r \in A!ToSet(shown["here"]), A!Switch(r) PROVE RulesInv'
    BY <1>1, <1>2, FlickKeeps DEF A!Switch
  <1>3. ASSUME NEW r \in A!ToSet(shown["there"]), A!Phone(r) PROVE RulesInv'
    BY <1>1, <1>3, FlickKeeps DEF A!Phone
  <1>. QED  BY <1>2, <1>3

LEMMA FileIsServed ==
  ASSUME RulesInv, NEW c \in A!Consoles, A!Served(c)
  PROVE  RulesInv'
  <1>1. /\ read' = [read EXCEPT ![c] = [stage |-> "served", list |-> server]]
        /\ UNCHANGED <<server, ids, shown, writes, presses, lost>> /\ UNCHANGED A!screen
    BY DEF A!Served
  <1>2. /\ ListTypes /\ ListsHold /\ WritesHold /\ SavesHold /\ (lost = 0 => TracesHold)
    BY DEF RulesInv
  <1>3. UNCHANGED <<drafts, count, editing>>
    BY <1>1 DEF A!screen
  <1>4. /\ read' \in [A!Consoles -> [stage : {"none", "out", "served"}, list : Seq(Rule)]]
        /\ read'[c].list = server
        /\ \A e \in A!Consoles : e # c => read'[e] = read[e]
    BY <1>1, <1>2 DEF ListTypes
  <1>5. ListTypes'
    BY <1>1, <1>2, <1>4 DEF ListTypes
  <1>6. ListsHold'
    <2>1. \A e \in A!Consoles : Stored(read'[e].list, ids)
      BY <1>2, <1>4 DEF ListsHold
    <2>. QED  BY <1>1, <1>2, <2>1 DEF ListsHold
  <1>7. WritesHold'
    BY <1>1, <1>2 DEF WritesHold
  <1>8. SavesHold'
    BY <1>1, <1>2, <1>3 DEF SavesHold, Fresh
  <1>9. Known' \subseteq Known
    <2>. SUFFICES ASSUME NEW r \in Known' PROVE r \in Known
      OBVIOUS
    <2>1. \A e \in A!Consoles : \A i \in DOMAIN read'[e].list :
             \/ \E j \in DOMAIN server : read'[e].list[i] = server[j]
             \/ \E j \in DOMAIN read[e].list : read'[e].list[i] = read[e].list[j]
      BY <1>4
    <2>. QED  BY <1>1, <2>1, KnownIs, KnownNext
  <1>10. OfHold'
    BY <1>3, <1>9, NothingNew
  <1>11. (lost = 0 => TracesHold)'
    BY <1>1, <1>2, <1>3, <1>9, TracesStay
  <1>12. PanelTypes' /\ EditorHolds' /\ DraftsHold'
    BY <1>1, ScreenStands, ScreenFacts
  <1>. QED  BY <1>5, <1>6, <1>7, <1>8, <1>10, <1>11, <1>12 DEF RulesInv

\* A list of the server's with one rule changed is one to be put for that rule.
LEMMA ChangedToPut ==
  ASSUME ids \in Nat, NEW l \in Seq(Rule), Stored(l, ids), NEW change \in Change,
         change.rule.id \in 0..ids, change.kind = "remove" => change.rule.id # 0
  PROVE  /\ A!Changed(l, change) \in Seq(Rule)
         /\ Distinct(A!Changed(l, change))
         /\ \A i \in DOMAIN A!Changed(l, change) :
              /\ A!Changed(l, change)[i].id \in 0..ids
              /\ A!Changed(l, change)[i].id = 0 => A!Changed(l, change)[i] = change.rule
  <1>. DEFINE m == A!Changed(l, change)
  <1>1. /\ m \in Seq(Rule) /\ Distinct(m)
        /\ \A i \in DOMAIN m : m[i] = change.rule \/ \E j \in DOMAIN l : m[i] = l[j]
    BY ChangedLeavesOthers
  <1>2. \A j \in DOMAIN l : l[j].id \in 1..ids
    BY DEF Stored
  <1>. HIDE DEF m
  <1>3. \A i \in DOMAIN m : m[i].id \in 0..ids /\ (m[i].id = 0 => m[i] = change.rule)
    BY <1>1, <1>2
  <1>. QED  BY <1>1, <1>3 DEF m

LEMMA ListLands ==
  ASSUME RulesInv, NEW c \in A!Consoles, A!ReadLands(c)
  PROVE  RulesInv'
  <1>. DEFINE got == read[c].list
              Asks(w) == w.at = c /\ w.stage = "reading"
              Puts(w) == [w EXCEPT !.stage = "putting", !.base = got, !.list = A!Changed(got, w.change)]
  <1>1. /\ shown' = [shown EXCEPT ![c] = got] /\ read' = [read EXCEPT ![c] = A!NoRead]
        /\ writes' = {IF Asks(w) THEN Puts(w) ELSE w : w \in writes}
        /\ UNCHANGED <<server, ids, presses, lost>> /\ UNCHANGED A!screen
    BY DEF A!ReadLands, A!Newest
  <1>2. /\ ListTypes /\ ListsHold /\ WritesHold /\ SavesHold /\ (lost = 0 => TracesHold)
        /\ ids \in Nat
    BY DEF RulesInv, ListTypes
  <1>3. UNCHANGED <<drafts, count, editing>>
    BY <1>1 DEF A!screen
  <1>4. got \in Seq(Rule) /\ Stored(got, ids) /\ server \in Seq(Rule)
    BY <1>2 DEF ListTypes, ListsHold
  <1>5. \A w \in writes :
          /\ Puts(w) \in Write
          /\ Puts(w).stage = "putting" /\ Puts(w).list = A!Changed(got, w.change)
          /\ Puts(w).who = w.who /\ Puts(w).at = w.at /\ Puts(w).mount = w.mount
          /\ Puts(w).change = w.change /\ Puts(w).draft = w.draft /\ Puts(w).pressed = w.pressed
          /\ Puts(w).base = got
    <2>. SUFFICES ASSUME NEW w \in writes
                  PROVE /\ Puts(w) \in Write
                        /\ Puts(w).stage = "putting" /\ Puts(w).list = A!Changed(got, w.change)
                        /\ Puts(w).who = w.who /\ Puts(w).at = w.at /\ Puts(w).mount = w.mount
                        /\ Puts(w).change = w.change /\ Puts(w).draft = w.draft /\ Puts(w).pressed = w.pressed
                        /\ Puts(w).base = got
      OBVIOUS
    <2>. HIDE DEF got
    <2>1. w \in Write /\ w.change \in Change
      BY <1>2, KnownTyped
    <2>2. A!Changed(got, w.change) \in Seq(Rule)
      BY <1>2, <1>4, <2>1, ChangedLeavesOthers
    <2>. QED  BY <1>4, <2>1, <2>2 DEF Write
  <1>. HIDE DEF Puts, got, Asks
  <1>6. \A v \in writes' : \E w \in writes : (v = w /\ ~Asks(w)) \/ (v = Puts(w) /\ Asks(w))
    BY <1>1
  <1>7. \A w \in writes : IF Asks(w) THEN Puts(w) \in writes' ELSE w \in writes'
    BY <1>1
  <1>. USE DEF Asks
  <1>8. /\ read' \in [A!Consoles -> [stage : {"none", "out", "served"}, list : Seq(Rule)]]
        /\ read'[c].list = <<>>
        /\ \A e \in A!Consoles : e # c => read'[e] = read[e]
        /\ shown' \in [A!Consoles -> Seq(Rule)] /\ shown'[c] = got
        /\ \A e \in A!Consoles : e # c => shown'[e] = shown[e]
    <2>1. A!NoRead.list = <<>> /\ A!NoRead \in [stage : {"none", "out", "served"}, list : Seq(Rule)]
      BY DEF A!NoRead
    <2>. QED  BY <1>1, <1>2, <1>4, <2>1 DEF ListTypes
  <1>9. ListTypes'
    <2>1. writes' \subseteq Write
      BY <1>2, <1>5, <1>6 DEF ListTypes
    <2>. QED  BY <1>1, <1>2, <1>8, <2>1 DEF ListTypes
  <1>10. ListsHold'
    <2>1. Stored(<<>>, ids)
      BY DEF Stored, Distinct
    <2>2. \A e \in A!Consoles : Stored(shown'[e], ids) /\ Stored(read'[e].list, ids)
      BY <1>2, <1>4, <1>8, <2>1 DEF ListsHold
    <2>3. \A w \in writes : w.change \in Change /\ w.change.rule.id \in 0..ids
                            /\ (w.change.kind = "remove" => w.change.rule.id # 0)
      BY <1>2, KnownTyped DEF ListsHold
    <2>4. \A w \in writes : ToPut(Puts(w), ids)
      BY <1>2, <1>4, <1>5, <2>3, ChangedToPut DEF ToPut
    <2>5. \A v \in writes' : IF v.stage = "putting" THEN ToPut(v, ids) ELSE Stored(v.list, ids)
      BY <1>2, <1>5, <1>6, <2>4 DEF ListsHold
    <2>6. \A v \in writes' : v.change.rule.id \in 0..ids /\ (v.change.kind = "remove" => v.change.rule.id # 0)
      BY <1>5, <1>6, <2>3
    <2>. QED  BY <1>1, <1>2, <2>2, <2>5, <2>6 DEF ListsHold
  <1>11. WritesHold'
    <2>1. \A v \in writes' : v.pressed < presses
      BY <1>2, <1>5, <1>6 DEF WritesHold
    <2>2. \A v, w \in writes' : v.pressed = w.pressed => v = w
      BY <1>2, <1>5, <1>6 DEF WritesHold
    <2>3. ids' = ids /\ presses' = presses
      BY <1>1
    <2>4. \A v \in writes' : v.stage = "putting" =>
             Stored(v.base, ids) /\ v.list = A!Changed(v.base, v.change)
      <3>. HIDE <1>1, <1>7
      <3>. QED  BY <1>2, <1>4, <1>5, <1>6 DEF WritesHold
    <2>. QED  BY <2>1, <2>2, <2>3, <2>4 DEF WritesHold
  <1>12. SavesHold'
    <2>1. \A w \in writes' : Fresh(w) =>
            /\ w.who = "editor" /\ w.change.rule.of \in 1..count
            /\ w.draft = <<"draft", w.change.rule.of>>
            /\ editing # <<>> /\ editing[1].draft = w.draft => editing[1].mount = w.mount
      BY <1>2, <1>5, <1>6 DEF SavesHold, Fresh
    <2>2. \A v, w \in writes' : Fresh(v) /\ Fresh(w) /\ v.draft = w.draft => v = w
      BY <1>2, <1>5, <1>6 DEF SavesHold, Fresh
    <2>. QED  BY <1>3, <2>1, <2>2 DEF SavesHold, Fresh
  <1>13. Known' \subseteq Known
    <2>. SUFFICES ASSUME NEW r \in Known' PROVE r \in Known
      OBVIOUS
    <2>1. \A e \in A!Consoles : \A i \in DOMAIN read'[e].list :
             \E j \in DOMAIN read[e].list : read'[e].list[i] = read[e].list[j]
      <3>1. DOMAIN <<>> = {}
        OBVIOUS
      <3>. QED  BY <1>8, <3>1
    <2>2. \A e \in A!Consoles : \A i \in DOMAIN shown'[e] :
             \/ \E j \in DOMAIN read[c].list : shown'[e][i] = read[c].list[j]
             \/ \E j \in DOMAIN shown[e] : shown'[e][i] = shown[e][j]
      BY <1>8 DEF got
    <2>3. \A w \in writes : \A i \in DOMAIN Puts(w).list :
             Puts(w).list[i] = w.change.rule \/ \E j \in DOMAIN read[c].list : Puts(w).list[i] = read[c].list[j]
      BY <1>2, <1>4, <1>5, ChangedLeavesOthers, KnownTyped DEF got
    <2>4. \A v \in writes' : \A i \in DOMAIN v.list :
             \/ \E w \in writes : v.list[i] = w.change.rule
             \/ \E j \in DOMAIN read[c].list : v.list[i] = read[c].list[j]
             \/ \E w \in writes : \E j \in DOMAIN w.list : v.list[i] = w.list[j]
      BY <1>6, <2>3
    <2>5. \A v \in writes' : \E w \in writes : v.change.rule = w.change.rule
      BY <1>5, <1>6
    <2>. HIDE <1>1, <1>5, <1>6, <1>7, <1>8
    <2>6. UNCHANGED server
      BY <1>1
    <2>. QED  BY <2>1, <2>2, <2>4, <2>5, <2>6, KnownIs, KnownNext
  <1>14. OfHold'
    BY <1>3, <1>13, NothingNew
  <1>15. (lost = 0 => TracesHold)'
    <2>1. \A v \in writes' : Fresh(v) /\ v.stage # "taken" =>
            \E w \in writes : w.change = v.change /\ w.stage # "taken"
      BY <1>5, <1>6
    <2>2. \A w \in writes : Fresh(w) /\ w.stage = "taken" /\ w.draft \in DOMAIN drafts' =>
            \E v \in writes' : v.change = w.change /\ v.draft = w.draft /\ v.stage = "taken"
      BY <1>7
    <2>. QED  BY <1>1, <1>2, <1>3, <1>13, <2>1, <2>2, TracesStay
  <1>16. PanelTypes' /\ EditorHolds' /\ DraftsHold'
    BY <1>1, ScreenStands, ScreenFacts
  <1>. QED  BY <1>9, <1>10, <1>11, <1>12, <1>14, <1>15, <1>16 DEF RulesInv

LEMMA ReadsAre ==
  /\ A!NoRead.list = <<>> /\ A!NoRead \in [stage : {"none", "out", "served"}, list : Seq(Rule)]
  /\ A!Out.list = <<>> /\ A!Out \in [stage : {"none", "out", "served"}, list : Seq(Rule)]
  <1>1. <<>> \in Seq(Rule)
    OBVIOUS
  <1>. QED  BY <1>1 DEF A!NoRead, A!Out

\* Whatever is left of the writes when some of them are gone, and a read with them.
LEMMA WritesGo ==
  ASSUME RulesInv, UNCHANGED <<server, ids, presses>>, writes' \subseteq writes,
         lost' \in Nat,
         NEW c \in A!Consoles, NEW l, l = A!NoRead \/ l = A!Out,
         read' = read \/ read' = [read EXCEPT ![c] = l],
         NEW w \in writes, shown' = shown \/ (w.stage = "taken" /\ shown' = [shown EXCEPT ![c] = w.list])
  PROVE  /\ ListTypes' /\ ListsHold' /\ WritesHold' /\ Known' \subseteq Known
  <1>1. ListTypes /\ ListsHold /\ WritesHold
    BY DEF RulesInv
  <1>2. l \in [stage : {"none", "out", "served"}, list : Seq(Rule)] /\ l.list = <<>>
    BY ReadsAre
  <1>3. /\ read' \in [A!Consoles -> [stage : {"none", "out", "served"}, list : Seq(Rule)]]
        /\ \A e \in A!Consoles : read'[e].list = read[e].list \/ read'[e].list = <<>>
    BY <1>1, <1>2 DEF ListTypes
  <1>4. /\ shown' \in [A!Consoles -> Seq(Rule)]
        /\ \A e \in A!Consoles : shown'[e] = shown[e] \/ (w.stage = "taken" /\ shown'[e] = w.list)
    BY <1>1, KnownTyped DEF ListTypes
  <1>5. ListTypes'
    BY <1>1, <1>3, <1>4 DEF ListTypes
  <1>6. ListsHold'
    <2>1. Stored(<<>>, ids) /\ (w.stage = "taken" => Stored(w.list, ids))
      BY <1>1 DEF Stored, Distinct, ListsHold
    <2>2. \A e \in A!Consoles : Stored(shown'[e], ids) /\ Stored(read'[e].list, ids)
      BY <1>1, <1>3, <1>4, <2>1 DEF ListsHold
    <2>. QED  BY <1>1, <2>2 DEF ListsHold
  <1>7. WritesHold'
    <2>1. \A v \in writes' : v.stage = "putting" =>
             Stored(v.base, ids') /\ v.list = A!Changed(v.base, v.change)
      BY <1>1 DEF WritesHold
    <2>. QED  BY <1>1, <2>1 DEF WritesHold
  <1>8. Known' \subseteq Known
    <2>. SUFFICES ASSUME NEW r \in Known' PROVE r \in Known
      OBVIOUS
    <2>1. \A e \in A!Consoles : \A i \in DOMAIN read'[e].list :
             \E j \in DOMAIN read[e].list : read'[e].list[i] = read[e].list[j]
      <3>1. DOMAIN <<>> = {}
        OBVIOUS
      <3>. QED  BY <1>3, <3>1
    <2>2. \A e \in A!Consoles : \A i \in DOMAIN shown'[e] :
             \/ \E j \in DOMAIN shown[e] : shown'[e][i] = shown[e][j]
             \/ \E v \in writes : \E j \in DOMAIN v.list : shown'[e][i] = v.list[j]
      BY <1>4
    <2>. QED  BY <2>1, <2>2, KnownIs, KnownNext
  <1>. QED  BY <1>5, <1>6, <1>7, <1>8

\* A failure takes its writes with it, and what a trace of a draft then says is not asked.
LEMMA FailureKeeps ==
  ASSUME RulesInv, UNCHANGED <<server, ids, presses, shown>>, writes' \subseteq writes,
         lost' = lost + 1, UNCHANGED A!screen,
         NEW c \in A!Consoles, read' = read \/ read' = [read EXCEPT ![c] = A!NoRead]
  PROVE  RulesInv'
  <1>1. lost' \in Nat /\ lost' # 0
    BY DEF RulesInv, ListTypes
  <1>2. ListTypes' /\ ListsHold' /\ WritesHold' /\ Known' \subseteq Known
    <2>1. CASE writes # {}
      <3>1. PICK w : w \in writes
        BY <2>1
      <3>. QED  BY <1>1, <3>1, WritesGo
    <2>2. CASE writes = {}
      <3>1. writes' = {}
        BY <2>2
      <3>2. /\ read' \in [A!Consoles -> [stage : {"none", "out", "served"}, list : Seq(Rule)]]
            /\ \A e \in A!Consoles : read'[e].list = read[e].list \/ read'[e].list = <<>>
        BY ReadsAre DEF RulesInv, ListTypes
      <3>3. ListTypes'
        BY <1>1, <3>1, <3>2 DEF RulesInv, ListTypes
      <3>4. ListsHold'
        <4>1. Stored(<<>>, ids)
          BY DEF Stored, Distinct
        <4>2. \A e \in A!Consoles : Stored(read'[e].list, ids)
          BY <3>2, <4>1 DEF RulesInv, ListsHold
        <4>. QED  BY <3>1, <4>2 DEF RulesInv, ListsHold
      <3>5. WritesHold'
        BY <3>1 DEF WritesHold
      <3>6. Known' \subseteq Known
        <4>. SUFFICES ASSUME NEW r \in Known' PROVE r \in Known
          OBVIOUS
        <4>1. \A e \in A!Consoles : \A i \in DOMAIN read'[e].list :
                 \E j \in DOMAIN read[e].list : read'[e].list[i] = read[e].list[j]
          <5>1. DOMAIN <<>> = {}
            OBVIOUS
          <5>. QED  BY <3>2, <5>1
        <4>. QED  BY <2>2, <3>1, <4>1, KnownIs, KnownNext
      <3>. QED  BY <3>3, <3>4, <3>5, <3>6
    <2>. QED  BY <2>1, <2>2
  <1>3. UNCHANGED <<drafts, count, editing>>
    BY DEF A!screen
  <1>4. SavesHold'
    BY <1>3 DEF RulesInv, SavesHold, Fresh
  <1>5. OfHold'
    BY <1>2, <1>3, NothingNew
  <1>6. PanelTypes' /\ EditorHolds' /\ DraftsHold'
    BY ScreenStands, ScreenFacts
  <1>. QED  BY <1>1, <1>2, <1>4, <1>5, <1>6 DEF RulesInv

LEMMA ReadIsLost ==
  ASSUME RulesInv, NEW c \in A!Consoles, A!ReadFails(c)
  PROVE  RulesInv'
  <1>1. /\ lost' = lost + 1 /\ read' = [read EXCEPT ![c] = A!NoRead]
        /\ writes' \subseteq writes
        /\ UNCHANGED <<server, ids, shown, presses>> /\ UNCHANGED A!screen
    BY DEF A!ReadFails
  <1>. QED  BY <1>1, FailureKeeps

LEMMA WriteIsLost ==
  ASSUME RulesInv, NEW w \in writes, A!WriteFails(w)
  PROVE  RulesInv'
  <1>1. /\ lost' = lost + 1 /\ read' = read /\ writes' \subseteq writes
        /\ UNCHANGED <<server, ids, shown, presses>> /\ UNCHANGED A!screen
    BY DEF A!WriteFails
  <1>2. "here" \in A!Consoles
    BY DEF A!Consoles
  <1>. QED  BY <1>1, <1>2, FailureKeeps

LEMMA WriteEnds ==
  ASSUME RulesInv, NEW w \in writes, A!WriteDone(w)
  PROVE  RulesInv'
  <1>1. /\ w.stage = "taken" /\ writes' = writes \ {w}
        /\ read' = [read EXCEPT ![w.at] = A!Out]
        /\ UNCHANGED <<server, ids, count, panel, opened, presses, lost>>
        /\ shown' = shown \/ shown' = [shown EXCEPT ![w.at] = w.list]
        /\ \/ w.who = "editor" /\ A!forgetDraft(w.draft)
           \/ w.who # "editor" /\ drafts' = drafts
        /\ \/ editing' = <<>> /\ leaving' = FALSE
           \/ UNCHANGED <<editing, leaving>>
    BY DEF A!WriteDone
  <1>2. /\ ListTypes /\ PanelTypes /\ ListsHold /\ WritesHold /\ DraftsHold /\ SavesHold /\ EditorHolds
        /\ (lost = 0 => TracesHold)
    BY DEF RulesInv
  <1>3. w.at \in A!Consoles /\ lost' \in Nat
    BY <1>1, <1>2 DEF ListTypes, Write
  <1>4. ListTypes' /\ ListsHold' /\ WritesHold' /\ Known' \subseteq Known
    BY <1>1, <1>3, WritesGo
  <1>5. /\ DOMAIN drafts' \subseteq DOMAIN drafts
        /\ \A e \in DOMAIN drafts' : drafts'[e] = drafts[e]
        /\ DOMAIN drafts' \subseteq DraftIds
        /\ drafts' \in [DOMAIN drafts' -> [rule : Nat, says : A!Texts, from : A!Texts]]
        /\ w.who = "editor" => w.draft \notin DOMAIN drafts'
    <2>1. CASE w.who = "editor"
      BY <1>1, <2>1, Forgotten
    <2>2. CASE w.who # "editor"
      BY <1>1, <1>2, <2>2, ScreenFacts DEF PanelTypes
    <2>. QED  BY <2>1, <2>2
  <1>6. editing' = editing \/ editing' = <<>>
    BY <1>1
  <1>7. PanelTypes'
    <2>1. leaving' \in BOOLEAN
      <3>1. leaving \in BOOLEAN
        BY <1>2 DEF PanelTypes
      <3>2. leaving' = FALSE \/ leaving' = leaving
        BY <1>1
      <3>. QED  BY <3>1, <3>2, Zenon
    <2>2. editing' \in Seq([draft : DraftIds, opened : A!Texts, mount : Nat]) /\ Len(editing') <= 1
      BY <1>2, <1>6, ScreenFacts DEF PanelTypes
    <2>. QED  BY <1>1, <1>5, <2>1, <2>2, ScreenFacts DEF PanelTypes
  <1>8. EditorHolds' /\ DraftsHold'
    <2>1. EditorHolds'
      BY <1>1, <1>2 DEF EditorHolds
    <2>2. DraftsHold'
      BY <1>1, <1>2, <1>5, <1>6 DEF DraftsHold
    <2>. QED  BY <2>1, <2>2
  <1>9. SavesHold'
    BY <1>1, <1>2, <1>6 DEF SavesHold, Fresh
  <1>10. OfHold'
    BY <1>1, <1>4, NothingNew
  <1>11. (lost = 0 => TracesHold)'
    <2>1. \A v \in writes' : Fresh(v) /\ v.stage # "taken" =>
            \E x \in writes : x.change = v.change /\ x.stage # "taken"
      BY <1>1
    <2>2. \A v \in writes : Fresh(v) /\ v.stage = "taken" /\ v.draft \in DOMAIN drafts' =>
            \E x \in writes' : x.change = v.change /\ x.draft = v.draft /\ x.stage = "taken"
      <3>1. Fresh(w) => w.draft \notin DOMAIN drafts'
        BY <1>2, <1>5 DEF SavesHold
      <3>. QED  BY <1>1, <3>1
    <2>. QED  BY <1>1, <1>2, <1>4, <1>5, <2>1, <2>2, TracesStay
  <1>. QED  BY <1>4, <1>7, <1>8, <1>9, <1>10, <1>11 DEF RulesInv

\* The server takes a list: at most one of its rules gets a number, the one it was put for.
LEMMA ListIsTaken ==
  ASSUME RulesInv, NEW w \in writes, A!PutTaken(w)
  PROVE  RulesInv'
  <1>. DEFINE numbered == A!Numbered(w.list)
              one == [w.change.rule EXCEPT !.id = ids + 1]
              Done == [w EXCEPT !.stage = "taken", !.base = <<>>, !.list = numbered]
  <1>1. /\ w.stage = "putting" /\ server' = numbered
        /\ ids' = IF 0 \in A!Ids(w.list) THEN ids + 1 ELSE ids
        /\ writes' = (writes \ {w}) \cup {Done}
        /\ UNCHANGED <<shown, read, presses, lost>> /\ UNCHANGED A!screen
    BY DEF A!PutTaken
  <1>2. /\ ListTypes /\ PanelTypes /\ ListsHold /\ WritesHold /\ DraftsHold /\ SavesHold /\ OfHold
        /\ (lost = 0 => TracesHold)
        /\ ids \in Nat
    BY DEF RulesInv, ListTypes
  <1>3. UNCHANGED <<drafts, count, editing>>
    BY <1>1 DEF A!screen
  <1>4. /\ w \in Write /\ w.change \in Change /\ w.change.rule \in Rule /\ w.list \in Seq(Rule)
        /\ Distinct(w.list)
        /\ \A i \in DOMAIN w.list : w.list[i].id \in 0..ids
                                    /\ (w.list[i].id = 0 => w.list[i] = w.change.rule)
    BY <1>1, <1>2, KnownTyped DEF ListsHold, ToPut
  <1>5. /\ numbered \in Seq(Rule) /\ DOMAIN numbered = DOMAIN w.list
        /\ Stored(numbered, ids')
        /\ \A i \in DOMAIN numbered : numbered[i] = w.list[i] \/ (numbered[i] = one /\ w.change.rule.id = 0)
    <2>1. /\ numbered \in Seq(Rule) /\ DOMAIN numbered = DOMAIN w.list
          /\ Stored(numbered, IF 0 \in A!Ids(w.list) THEN ids + 1 ELSE ids)
          /\ \A i \in DOMAIN w.list : w.list[i].id # 0 => numbered[i] = w.list[i]
          /\ \A i \in DOMAIN w.list : w.list[i].id = 0 => numbered[i] = [w.list[i] EXCEPT !.id = ids + 1]
      BY <1>2, <1>4, NumberedIsStored
    <2>. HIDE DEF numbered
    <2>2. ASSUME NEW i \in DOMAIN w.list, w.list[i].id = 0
          PROVE  numbered[i] = one /\ w.change.rule.id = 0
      BY <1>4, <2>1, <2>2
    <2>. QED  BY <1>1, <2>1, <2>2
  <1>6. one \in Rule /\ one.id = ids + 1 /\ one.id # 0 /\ one.of = w.change.rule.of
    BY <1>2, <1>4 DEF Rule
  <1>. HIDE DEF numbered, one
  <1>7. /\ Done \in Write /\ Done.stage = "taken" /\ Done.list = numbered
        /\ Done.who = w.who /\ Done.at = w.at /\ Done.mount = w.mount
        /\ Done.change = w.change /\ Done.draft = w.draft /\ Done.pressed = w.pressed
    <2>1. <<>> \in Seq(Rule)
      OBVIOUS
    <2>. QED  BY <1>4, <1>5, <2>1 DEF Write
  <1>. HIDE DEF Done
  <1>8. \A v \in writes' : v = Done \/ v \in writes \ {w}
    BY <1>1
  <1>9. Done \in writes' /\ \A x \in writes \ {w} : x \in writes'
    BY <1>1
  <1>10. ids' \in Nat /\ ids' >= ids
    BY <1>1, <1>2
  <1>11. ListTypes'
    <2>1. writes' \subseteq Write
      BY <1>2, <1>7, <1>8 DEF ListTypes
    <2>. QED  BY <1>1, <1>2, <1>5, <1>10, <2>1 DEF ListTypes
  <1>12. ListsHold'
    <2>1. \A l : Stored(l, ids) => Stored(l, ids')
      BY <1>2, <1>10 DEF Stored
    <2>2. \A x \in writes : ToPut(x, ids) => ToPut(x, ids')
      BY <1>2, <1>10 DEF ToPut
    <2>4. \A v \in writes' : IF v.stage = "putting" THEN ToPut(v, ids') ELSE Stored(v.list, ids')
      BY <1>2, <1>5, <1>7, <1>8, <2>1, <2>2 DEF ListsHold
    <2>5. \A v \in writes' : v.change.rule.id \in 0..ids' /\ (v.change.kind = "remove" => v.change.rule.id # 0)
      <3>1. \A x \in writes : x.change.rule.id \in 0..ids' /\ (x.change.kind = "remove" => x.change.rule.id # 0)
        BY <1>2, <1>10 DEF ListsHold
      <3>. QED  BY <1>7, <1>8, <3>1
    <2>6. \A e \in A!Consoles : Stored(shown'[e], ids') /\ Stored(read'[e].list, ids')
      BY <1>1, <1>2, <2>1 DEF ListsHold
    <2>7. Stored(server', ids')
      BY <1>1, <1>5
    <2>. QED  BY <2>4, <2>5, <2>6, <2>7 DEF ListsHold
  <1>13. WritesHold'
    <2>1. \A v \in writes' : v.pressed < presses'
      BY <1>1, <1>2, <1>7, <1>8 DEF WritesHold
    <2>2. \A u, v \in writes' : u.pressed = v.pressed => u = v
      BY <1>2, <1>7, <1>8 DEF WritesHold
    <2>3. \A l : Stored(l, ids) => Stored(l, ids')
      BY <1>2, <1>10 DEF Stored
    <2>4. \A v \in writes' : v.stage = "putting" =>
             Stored(v.base, ids') /\ v.list = A!Changed(v.base, v.change)
      BY <1>2, <1>7, <1>8, <2>3 DEF WritesHold
    <2>. QED  BY <2>1, <2>2, <2>4 DEF WritesHold
  <1>14. SavesHold'
    <2>1. \A v \in writes' : Fresh(v) =>
            /\ v.who = "editor" /\ v.change.rule.of \in 1..count
            /\ v.draft = <<"draft", v.change.rule.of>>
            /\ editing # <<>> /\ editing[1].draft = v.draft => editing[1].mount = v.mount
      BY <1>2, <1>7, <1>8 DEF SavesHold, Fresh
    <2>2. \A u, v \in writes' : Fresh(u) /\ Fresh(v) /\ u.draft = v.draft => u = v
      BY <1>2, <1>7, <1>8 DEF SavesHold, Fresh
    <2>. QED  BY <1>3, <2>1, <2>2 DEF SavesHold, Fresh
  <1>15. Fresh(w) \/ w.change.rule.id # 0
    BY <1>2, <1>4 DEF Fresh, ListsHold, Change
  <1>16. \A r \in Known' : r \in Known \/ (r = one /\ Fresh(w))
    <2>. SUFFICES ASSUME NEW r \in Known' PROVE r \in Known \/ (r = one /\ Fresh(w))
      OBVIOUS
    <2>1. \A i \in DOMAIN numbered : numbered[i] \in Known \/ (numbered[i] = one /\ Fresh(w))
      BY <1>5, <1>15, KnownIs
    <2>2. \A v \in writes' : \A i \in DOMAIN v.list : v.list[i] \in Known \/ (v.list[i] = one /\ Fresh(w))
      BY <1>7, <1>8, <2>1, KnownIs
    <2>3. \A v \in writes' : v.change.rule \in Known
      BY <1>7, <1>8, KnownIs
    <2>4. server' = numbered /\ shown' = shown /\ read' = read
      BY <1>1
    <2>. QED  BY <2>1, <2>2, <2>3, <2>4, KnownIs, KnownNext
  <1>17. OfHold'
    <2>1. w.change.rule \in Known
      BY KnownIs
    <2>. QED  BY <1>2, <1>3, <1>6, <1>16, <2>1 DEF OfHold
  <1>18. (lost = 0 => TracesHold)'
    <2>. SUFFICES ASSUME TracesHold PROVE TracesHold'
      BY <1>1, <1>2
    <2>1. Fresh(w) => \A r \in Known : r.of = one.of => r.id = 0
      BY <1>1, <1>6 DEF TracesHold
    <2>2. \A r, s \in Known' : r.id # 0 /\ s.id # 0 /\ r.of = s.of /\ r.of # 0 => r.id = s.id
      BY <1>16, <2>1 DEF TracesHold
    <2>3. \A v \in writes' : Fresh(v) /\ v.stage # "taken" =>
             \A r \in Known' : r.of = v.change.rule.of => r.id = 0
      <3>. SUFFICES ASSUME NEW x \in writes \ {w}, Fresh(x), x.stage # "taken",
                           NEW r \in Known', r.of = x.change.rule.of
                    PROVE  r.id = 0
        BY <1>7, <1>8 DEF Fresh
      <3>1. Fresh(w) => w.change.rule.of # x.change.rule.of
        BY <1>2 DEF SavesHold
      <3>. QED  BY <1>6, <1>16, <3>1 DEF TracesHold
    <2>4. \A r \in Known' : r.id # 0 /\ <<"draft", r.of>> \in DOMAIN drafts =>
             \E v \in writes' : Fresh(v) /\ v.draft = <<"draft", r.of>> /\ v.stage = "taken"
      <3>. SUFFICES ASSUME NEW r \in Known', r.id # 0, <<"draft", r.of>> \in DOMAIN drafts
                    PROVE  \E v \in writes' : Fresh(v) /\ v.draft = <<"draft", r.of>> /\ v.stage = "taken"
        OBVIOUS
      <3>1. CASE r \in Known
        <4>1. PICK x \in writes : Fresh(x) /\ x.draft = <<"draft", r.of>> /\ x.stage = "taken"
          BY <3>1 DEF TracesHold
        <4>. QED  BY <1>1, <1>9, <4>1
      <3>2. CASE r = one /\ Fresh(w)
        <4>1. Fresh(Done) /\ Done.draft = <<"draft", r.of>> /\ Done.stage = "taken"
          BY <1>2, <1>6, <1>7, <3>2 DEF SavesHold, Fresh
        <4>. QED  BY <1>9, <4>1
      <3>. QED  BY <1>16, <3>1, <3>2
    <2>. QED  BY <1>3, <2>2, <2>3, <2>4 DEF TracesHold, Fresh
  <1>19. PanelTypes' /\ EditorHolds' /\ DraftsHold'
    BY <1>1, <1>10, ScreenStands
  <1>. QED  BY <1>11, <1>12, <1>13, <1>14, <1>17, <1>18, <1>19 DEF RulesInv

-----------------------------------------------------------------------------
(* All of it.                                                                *)

LEMMA RulesStutter == RulesInv /\ UNCHANGED A!vars => RulesInv'
  <1>. SUFFICES ASSUME RulesInv, UNCHANGED A!vars PROVE RulesInv'
    OBVIOUS
  <1>1. A!Still /\ UNCHANGED <<drafts, count, panel, editing, leaving, opened, ids>>
    BY DEF A!vars, A!Still
  <1>2. PanelTypes' /\ EditorHolds' /\ DraftsHold'
    BY <1>1 DEF RulesInv, PanelTypes, EditorHolds, DraftsHold
  <1>. QED  BY <1>1, <1>2, ScreenKeeps, ScreenFacts

LEMMA RulesStep == RulesInv /\ typed \in Nat /\ [A!Next]_(A!vars) => RulesInv'
  <1>. SUFFICES ASSUME RulesInv, typed \in Nat, A!Next PROVE RulesInv'
    BY RulesStutter
  <1>1. ASSUME NEW c \in A!Consoles, A!Served(c) PROVE RulesInv'
    BY <1>1, FileIsServed
  <1>2. ASSUME NEW c \in A!Consoles, A!ReadLands(c) PROVE RulesInv'
    BY <1>2, ListLands
  <1>3. ASSUME NEW c \in A!Consoles, A!ReadFails(c) PROVE RulesInv'
    BY <1>3, ReadIsLost
  <1>4. ASSUME NEW w \in writes, A!PutTaken(w) PROVE RulesInv'
    BY <1>4, ListIsTaken
  <1>5. ASSUME NEW w \in writes, A!WriteFails(w) PROVE RulesInv'
    BY <1>5, WriteIsLost
  <1>6. ASSUME NEW w \in writes, A!WriteDone(w) PROVE RulesInv'
    BY <1>6, WriteEnds
  <1>7. A!OpenPanel => RulesInv'
    BY PanelOpens
  <1>8. A!ClosePanel => RulesInv'
    BY PanelShuts
  <1>9. A!NewRule => RulesInv'
    BY RuleBegins
  <1>10. A!Back => RulesInv'
    BY ReaderGoesBack
  <1>11. A!KeepWriting => RulesInv'
    BY ReaderWrites
  <1>12. A!Discard => RulesInv'
    BY ReaderDiscards
  <1>13. A!Save => RulesInv'
    BY EditorSaves
  <1>14. ASSUME NEW r \in A!ToSet(shown["here"]), A!EditRule(r) PROVE RulesInv'
    BY <1>14, RuleOpens
  <1>15. ASSUME NEW r \in A!ToSet(shown["here"]), A!Switch(r) PROVE RulesInv'
    BY <1>15, SwitchAndPhone
  <1>16. ASSUME NEW r \in A!ToSet(shown["there"]), A!Phone(r) PROVE RulesInv'
    BY <1>16, SwitchAndPhone
  <1>17. ASSUME NEW t \in A!Texts, A!Type(t) PROVE RulesInv'
    BY <1>17, ReaderTypes
  <1>. QED
    BY <1>1, <1>2, <1>3, <1>4, <1>5, <1>6, <1>7, <1>8, <1>9, <1>10, <1>11, <1>12, <1>13, <1>14,
       <1>15, <1>16, <1>17
       DEF A!Next

\* What is typed is counted.
LEMMA TypingIsCounted == A!Spec => [](typed \in Nat)
  <1>1. A!Init => typed \in Nat
    BY DEF A!Init
  <1>2. typed \in Nat /\ [A!Next]_(A!vars) => (typed \in Nat)'
    <2>. SUFFICES ASSUME typed \in Nat, [A!Next]_(A!vars) PROVE typed' \in Nat
      OBVIOUS
    <2>1. typed' \in {typed, typed + 1}
      BY DEF A!Next, A!vars, A!screen, A!Served, A!ReadLands, A!ReadFails, A!PutTaken, A!WriteFails,
             A!WriteDone, A!OpenPanel, A!ClosePanel, A!EditRule, A!NewRule, A!Opens, A!Type, A!Back,
             A!KeepWriting, A!Discard, A!Save, A!Switch, A!Phone
    <2>. QED  BY <2>1
  <1>. QED  BY <1>1, <1>2, PTL DEF A!Spec

LEMMA RulesAlways == A!Spec => []RulesInv
  <1>. QED  BY RulesBegin, RulesStep, TypingIsCounted, PTL DEF A!Spec

\* One draft becomes one rule, however often Save is pressed and whatever the panel does
\* meanwhile, as long as no answer was lost; and the file's rules are numbered, each by a number
\* of its own (AlertsPanel's guarded writes, RuleEditor's save).
THEOREM DraftBecomesOneRule == A!Spec => []OneDraftOneRule
  <1>1. RulesInv => OneDraftOneRule
    <2>. SUFFICES ASSUME RulesInv PROVE A!TypeOK /\ A!OneDraftOneRule
      BY DEF OneDraftOneRule
    <2>1. /\ ListTypes /\ PanelTypes /\ ListsHold /\ EditorHolds /\ DraftsHold
          /\ (lost = 0 => TracesHold)
      BY DEF RulesInv
    <2>2. A!TypeOK
      <3>1. \A r \in A!ToSet(server) : r.id \in 1..ids /\ r.says \in A!Texts
        <4>. SUFFICES ASSUME NEW i \in DOMAIN server
                      PROVE  server[i].id \in 1..ids /\ server[i].says \in A!Texts
          BY DEF A!ToSet
        <4>1. server[i] \in Rule
          BY <2>1 DEF ListTypes
        <4>. QED  BY <2>1, <4>1 DEF ListsHold, Stored, Rule
      <3>2. \A i, j \in DOMAIN server : server[i].id = server[j].id => i = j
        BY <2>1 DEF ListsHold, Stored, Distinct
      <3>3. \A d \in DOMAIN drafts : drafts[d].says \in A!Texts /\ drafts[d].rule \in 0..ids
        BY <2>1, ScreenFacts DEF DraftsHold
      <3>4. \A w \in writes : w.stage \in {"reading", "putting", "taken"}
        BY <2>1 DEF ListTypes, Write
      <3>. QED  BY <2>1, <3>1, <3>2, <3>3, <3>4 DEF A!TypeOK, EditorHolds
    <2>3. A!OneDraftOneRule
      <3>. SUFFICES ASSUME lost = 0, NEW i \in DOMAIN server, NEW j \in DOMAIN server,
                           server[i].of # 0, server[i].of = server[j].of
                    PROVE  i = j
        BY DEF A!OneDraftOneRule
      <3>1. server[i] \in Known /\ server[j] \in Known
        BY KnownIs
      <3>2. server[i].id \in 1..ids /\ server[j].id \in 1..ids
        BY <2>1 DEF ListsHold, Stored
      <3>3. server[i].id # 0 /\ server[j].id # 0
        BY <3>2, ScreenFacts
      <3>4. server[i].id = server[j].id
        BY <2>1, <3>1, <3>3 DEF TracesHold
      <3>. QED  BY <2>1, <3>4 DEF ListsHold, Stored, Distinct
    <2>. QED  BY <2>2, <2>3
  <1>. QED  BY <1>1, RulesAlways, PTL

-----------------------------------------------------------------------------
(* What one step may touch.                                                  *)

\* Only the server taking a write's list makes it one that is taken.
LEMMA OnlyTaking ==
  ASSUME RulesInv, A!Next, NEW w \in writes, A!Took(w)
  PROVE  A!PutTaken(w)
  <1>1. WritesHold /\ ListTypes /\ w.stage = "putting"
    BY DEF RulesInv, A!Took
  <1>2. PICK v \in writes' : v.pressed = w.pressed /\ v.stage = "taken"
    BY DEF A!Took
  <1>3. v \notin writes
    BY <1>1, <1>2 DEF WritesHold
  <1>4. ~(writes' \subseteq writes)
    BY <1>2, <1>3
  <1>5. ~A!Still
    BY <1>4 DEF A!Still
  <1>6. /\ ~A!OpenPanel /\ ~A!ClosePanel /\ ~A!NewRule /\ ~A!Back /\ ~A!KeepWriting /\ ~A!Discard
        /\ (\A r : ~A!EditRule(r)) /\ (\A t : ~A!Type(t))
    BY <1>5 DEF A!OpenPanel, A!ClosePanel, A!NewRule, A!Back, A!KeepWriting, A!Discard, A!EditRule,
                A!Type, A!Opens
  <1>7. \A c : ~A!Served(c) /\ ~A!ReadFails(c)
    BY <1>4 DEF A!Served, A!ReadFails
  <1>8. \A u : ~A!WriteFails(u) /\ ~A!WriteDone(u)
    BY <1>4 DEF A!WriteFails, A!WriteDone
  <1>9. \A who, c, mount, change, d : ~A!Press(who, c, mount, change, d)
    <2>. SUFFICES ASSUME NEW who, NEW c, NEW mount, NEW change, NEW d,
                         A!Press(who, c, mount, change, d)
                  PROVE  FALSE
      OBVIOUS
    <2>. DEFINE new == [who |-> who, at |-> c, mount |-> mount, change |-> change,
                        draft |-> d, in |-> panel, stage |-> "reading",
                        base |-> <<>>, list |-> <<>>, pressed |-> presses, typed |-> typed]
    <2>1. writes' = writes \cup {new}
      BY DEF A!Press
    <2>2. new.stage = "reading"
      OBVIOUS
    <2>. HIDE DEF new
    <2>. QED  BY <1>2, <1>3, <2>1, <2>2
  <1>10. ~A!Save /\ \A r : ~A!Switch(r) /\ ~A!Phone(r)
    BY <1>9 DEF A!Save, A!Switch, A!Phone, A!Flicks
  <1>11. \A c : ~A!ReadLands(c)
    <2>. SUFFICES ASSUME NEW c, A!ReadLands(c) PROVE FALSE
      OBVIOUS
    <2>. DEFINE Puts(x) == [x EXCEPT !.stage = "putting", !.base = read[c].list,
                                     !.list = A!Changed(read[c].list, x.change)]
    <2>1. writes' = {IF x.at = c /\ x.stage = "reading" THEN Puts(x) ELSE x : x \in writes}
      BY DEF A!ReadLands, A!Newest
    <2>2. \A x \in writes : Puts(x).stage = "putting"
      <3>. SUFFICES ASSUME NEW x \in writes PROVE Puts(x).stage = "putting"
        OBVIOUS
      <3>1. x \in Write
        BY <1>1 DEF ListTypes
      <3>. QED  BY <3>1 DEF Write
    <2>. HIDE DEF Puts
    <2>. QED  BY <1>2, <1>3, <2>1, <2>2
  <1>12. ASSUME NEW u \in writes, A!PutTaken(u) PROVE u = w
    <2>. DEFINE Done == [u EXCEPT !.stage = "taken", !.base = <<>>, !.list = A!Numbered(u.list)]
    <2>1. writes' = (writes \ {u}) \cup {Done}
      BY <1>12 DEF A!PutTaken
    <2>2. Done.pressed = u.pressed
      BY <1>1 DEF ListTypes, Write
    <2>. HIDE DEF Done
    <2>3. u.pressed = w.pressed
      BY <1>2, <1>3, <2>1, <2>2
    <2>. QED  BY <1>1, <2>3 DEF WritesHold
  <1>. QED  BY <1>6, <1>7, <1>8, <1>10, <1>11, <1>12 DEF A!Next

\* Of every rule but its own a write leaves what the list it was built on says.
LEMMA TakenTouchesOne ==
  ASSUME RulesInv, A!Next, NEW w \in writes, A!Took(w), NEW id \in 1..ids, id # w.change.rule.id
  PROVE  A!Of(server', id) = A!Of(w.base, id)
  <1>1. /\ ids \in Nat /\ w.base \in Seq(Rule) /\ Stored(w.base, ids)
        /\ w.change \in Change /\ w.change.rule \in Rule
        /\ w.change.rule.id \in 0..ids /\ (w.change.kind = "remove" => w.change.rule.id # 0)
    BY KnownTyped DEF RulesInv, ListTypes, ListsHold, WritesHold, A!Took, Write
  <1>2. w.list = A!Changed(w.base, w.change)
    BY DEF RulesInv, WritesHold, A!Took
  <1>3. server' = A!Numbered(w.list)
    BY OnlyTaking DEF A!PutTaken
  <1>. DEFINE b == w.base
              l == w.list
              m == A!Numbered(l)
  <1>4. /\ l \in Seq(Rule) /\ Distinct(l)
        /\ \A i \in DOMAIN l : l[i].id \in 0..ids
        /\ \A i \in DOMAIN l : l[i] = w.change.rule \/ \E j \in DOMAIN b : l[i] = b[j]
        /\ \A j \in DOMAIN b : b[j].id # w.change.rule.id => \E i \in DOMAIN l : l[i] = b[j]
    <2>1. l = A!Changed(b, w.change)
      BY <1>2
    <2>2. /\ b \in Seq(Rule) /\ Stored(b, ids) /\ ids \in Nat /\ w.change \in Change
          /\ w.change.rule.id \in 0..ids /\ (w.change.kind = "remove" => w.change.rule.id # 0)
      BY <1>1
    <2>. HIDE DEF b, l
    <2>3. /\ l \in Seq(Rule) /\ Distinct(l)
          /\ \A i \in DOMAIN l : l[i].id \in 0..ids
      BY <2>1, <2>2, ChangedToPut
    <2>4. /\ \A i \in DOMAIN l : l[i] = w.change.rule \/ \E j \in DOMAIN b : l[i] = b[j]
          /\ \A j \in DOMAIN b : b[j].id # w.change.rule.id => \E i \in DOMAIN l : l[i] = b[j]
      BY <2>1, <2>2, ChangedLeavesOthers
    <2>. QED  BY <2>3, <2>4
  <1>. HIDE DEF l
  <1>5. /\ DOMAIN m = DOMAIN l
        /\ \A i \in DOMAIN l : l[i].id # 0 => m[i] = l[i]
        /\ \A i \in DOMAIN l : l[i].id = 0 => m[i].id = ids + 1
    <2>1. \A r \in Rule : [r EXCEPT !.id = ids + 1].id = ids + 1
      BY DEF Rule
    <2>2. \A i \in DOMAIN l : l[i] \in Rule
      BY <1>4
    <2>3. /\ DOMAIN m = DOMAIN l
          /\ \A i \in DOMAIN l : l[i].id # 0 => m[i] = l[i]
          /\ \A i \in DOMAIN l : l[i].id = 0 => m[i] = [l[i] EXCEPT !.id = ids + 1]
      BY <1>1, <1>4, NumberedIsStored
    <2>. HIDE DEF m
    <2>. QED  BY <2>1, <2>2, <2>3
  <1>. HIDE DEF m, b
  <1>6. ASSUME NEW i \in DOMAIN m, m[i].id = id
        PROVE  \E j \in DOMAIN b : m[i] = b[j]
    <2>1. l[i].id # 0
      BY <1>1, <1>5, <1>6
    <2>. QED  BY <1>4, <1>5, <1>6, <2>1
  <1>7. ASSUME NEW j \in DOMAIN b, b[j].id = id
        PROVE  \E i \in DOMAIN m : m[i] = b[j]
    <2>1. PICK i \in DOMAIN l : l[i] = b[j]
      BY <1>4, <1>7
    <2>2. b[j].id # 0
      BY <1>1, <1>7
    <2>. QED  BY <1>5, <2>1, <2>2
  <1>8. server' = m
    BY <1>3 DEF m, l
  <1>9. \A r : r \in A!Of(server', id) <=> r \in A!Of(b, id)
    BY <1>6, <1>7, <1>8 DEF A!Of, A!ToSet
  <1>. QED  BY <1>9 DEF b, A!Of

\* A save of what is being typed says all of it, unless something was typed since it was pressed.
SaidHold ==
  \A w \in writes :
    /\ w.typed \in Nat /\ w.typed <= typed
    /\ w.who = "editor" /\ w.typed = typed /\ A!Filled /\ w.draft = editing[1].draft =>
         w.change.rule.says = A!Draft.says

\* Nothing is written, and the editor goes, opens on what it has, or stays as it is.
LEMMA SaidStays ==
  ASSUME SaidHold, UNCHANGED <<writes, typed>>, UNCHANGED <<drafts, editing>> \/ ~A!Filled'
  PROVE  SaidHold'
  <1>1. CASE UNCHANGED <<drafts, editing>>
    BY <1>1 DEF SaidHold, A!Filled, A!Editor, A!Draft
  <1>2. CASE ~A!Filled'
    BY <1>2 DEF SaidHold
  <1>. QED  BY <1>1, <1>2

\* A write presses on what is said, or goes on as it was pressed.
LEMMA SaidWrites ==
  ASSUME SaidHold, UNCHANGED A!screen,
         \A v \in writes' :
            \/ \E w \in writes : /\ v.who = w.who /\ v.draft = w.draft /\ v.change = w.change
                                 /\ v.typed = w.typed
            \/ /\ v.typed = typed /\ typed \in Nat
               /\ v.who = "editor" => v.draft = editing[1].draft /\ v.change.rule.says = A!Draft.says
  PROVE  SaidHold'
  <1>1. UNCHANGED <<drafts, editing, typed>>
    BY DEF A!screen
  <1>2. (A!Filled' <=> A!Filled) /\ (A!Filled => A!Draft' = A!Draft)
    BY <1>1 DEF A!Filled, A!Editor, A!Draft
  <1>. SUFFICES ASSUME NEW v \in writes'
                PROVE  /\ v.typed \in Nat /\ v.typed <= typed
                       /\ v.who = "editor" /\ v.typed = typed /\ A!Filled /\ v.draft = editing[1].draft =>
                            v.change.rule.says = A!Draft.says
    BY <1>1, <1>2 DEF SaidHold
  <1>3. CASE \E w \in writes : /\ v.who = w.who /\ v.draft = w.draft /\ v.change = w.change
                               /\ v.typed = w.typed
    BY <1>3 DEF SaidHold
  <1>4. CASE v.typed = typed /\ typed \in Nat
             /\ (v.who = "editor" => v.draft = editing[1].draft /\ v.change.rule.says = A!Draft.says)
    BY <1>4
  <1>. QED  BY <1>3, <1>4

LEMMA SaidStep == RulesInv /\ typed \in Nat /\ SaidHold /\ [A!Next]_(A!vars) => SaidHold'
  <1>. SUFFICES ASSUME RulesInv, typed \in Nat, SaidHold, [A!Next]_(A!vars) PROVE SaidHold'
    OBVIOUS
  <1>1. \A w \in writes : w \in Write
    BY DEF RulesInv, ListTypes
  <1>2. ASSUME UNCHANGED A!vars PROVE SaidHold'
    BY <1>2, SaidStays DEF A!vars
  <1>3. A!OpenPanel \/ A!ClosePanel \/ A!KeepWriting => SaidHold'
    BY SaidStays DEF A!OpenPanel, A!ClosePanel, A!KeepWriting, A!Still, A!Filled, A!Editor
  <1>4. ASSUME NEW d, NEW made, A!Opens(d, made) PROVE SaidHold'
    <2>1. /\ UNCHANGED <<writes, typed>>
          /\ editing' = <<[draft |-> d, opened |-> drafts'[d].says, mount |-> opened + 1]>>
      BY <1>4 DEF A!Opens, A!Still
    <2>2. editing'[1].draft = d /\ editing'[1].opened = drafts'[d].says
      BY <2>1
    <2>3. ~A!Filled'
      BY <2>2 DEF A!Filled, A!Draft
    <2>. QED  BY <2>1, <2>3, SaidStays
  <1>5. ASSUME NEW t, A!Type(t) PROVE SaidHold'
    <2>1. writes' = writes /\ typed' = typed + 1
      BY <1>5 DEF A!Type, A!Still
    <2>2. \A w \in writes : w.typed \in Nat /\ w.typed <= typed
      BY DEF SaidHold
    <2>3. \A w \in writes' : w.typed \in Nat /\ w.typed <= typed' /\ w.typed # typed'
      BY <2>1, <2>2
    <2>. QED  BY <2>3 DEF SaidHold
  <1>6. A!Back \/ A!Discard => SaidHold'
    <2>1. A!leave => ~A!Filled'
      BY DEF A!leave, A!Filled, A!Editor
    <2>. QED  BY <2>1, SaidStays DEF A!Back, A!Discard, A!Still
  <1>7. ASSUME NEW who, NEW c, NEW mount, NEW change, NEW d, A!Press(who, c, mount, change, d),
               UNCHANGED A!screen,
               who = "editor" => d = editing[1].draft /\ change.rule.says = A!Draft.says
        PROVE  SaidHold'
    <2>. DEFINE new == [who |-> who, at |-> c, mount |-> mount, change |-> change,
                        draft |-> d, in |-> panel, stage |-> "reading",
                        base |-> <<>>, list |-> <<>>, pressed |-> presses, typed |-> typed]
    <2>1. writes' = writes \cup {new}
      BY <1>7 DEF A!Press
    <2>2. new.who = who /\ new.draft = d /\ new.change = change /\ new.typed = typed
      OBVIOUS
    <2>. HIDE DEF new
    <2>3. \A v \in writes' : v \in writes \/ v = new
      BY <2>1
    <2>. QED  BY <1>7, <2>2, <2>3, SaidWrites
  <1>8. A!Save => SaidHold'
    <2>. SUFFICES ASSUME A!Save PROVE SaidHold'
      OBVIOUS
    <2>. DEFINE change == [kind |-> "save", rule |-> [id |-> A!Draft.rule, says |-> A!Draft.says,
                             of |-> IF A!Draft.rule = 0 THEN editing[1].draft[2] ELSE 0]]
    <2>1. /\ A!Press("editor", "here", editing[1].mount, change, editing[1].draft)
          /\ UNCHANGED A!screen
      BY DEF A!Save
    <2>2. change.rule.says = A!Draft.says
      OBVIOUS
    <2>. HIDE DEF change
    <2>. QED  BY <1>7, <2>1, <2>2
  <1>9. ASSUME NEW r, A!Switch(r) \/ A!Phone(r) PROVE SaidHold'
    <2>1. "panel" # "editor" /\ "phone" # "editor"
      OBVIOUS
    <2>. QED  BY <1>7, <1>9, <2>1 DEF A!Switch, A!Phone, A!Flicks
  <1>10. ASSUME NEW c, A!Served(c) \/ A!ReadFails(c) PROVE SaidHold'
    <2>1. writes' \subseteq writes /\ UNCHANGED A!screen
      BY <1>10 DEF A!Served, A!ReadFails
    <2>. QED  BY <2>1, SaidWrites
  <1>11. ASSUME NEW c, A!ReadLands(c) PROVE SaidHold'
    <2>. DEFINE Puts(w) == [w EXCEPT !.stage = "putting", !.base = read[c].list,
                                     !.list = A!Changed(read[c].list, w.change)]
    <2>1. /\ writes' = {IF w.at = c /\ w.stage = "reading" THEN Puts(w) ELSE w : w \in writes}
          /\ UNCHANGED A!screen
      BY <1>11 DEF A!ReadLands, A!Newest
    <2>2. \A w \in writes : /\ Puts(w).who = w.who /\ Puts(w).draft = w.draft
                            /\ Puts(w).change = w.change /\ Puts(w).typed = w.typed
      BY <1>1 DEF Write
    <2>. HIDE DEF Puts
    <2>3. \A v \in writes' : \E w \in writes : v = w \/ v = Puts(w)
      BY <2>1
    <2>4. \A v \in writes' : \E w \in writes : /\ v.who = w.who /\ v.draft = w.draft
                                               /\ v.change = w.change /\ v.typed = w.typed
      BY <2>2, <2>3
    <2>. QED  BY <2>1, <2>4, SaidWrites
  <1>12. ASSUME NEW u \in writes, A!PutTaken(u) PROVE SaidHold'
    <2>. DEFINE Done == [u EXCEPT !.stage = "taken", !.base = <<>>, !.list = A!Numbered(u.list)]
    <2>1. writes' = (writes \ {u}) \cup {Done} /\ UNCHANGED A!screen
      BY <1>12 DEF A!PutTaken
    <2>2. /\ Done.who = u.who /\ Done.draft = u.draft /\ Done.change = u.change
          /\ Done.typed = u.typed
      BY <1>1 DEF Write
    <2>. HIDE DEF Done
    <2>. QED  BY <2>1, <2>2, SaidWrites
  <1>13. ASSUME NEW u \in writes, A!WriteFails(u) PROVE SaidHold'
    <2>1. writes' \subseteq writes /\ UNCHANGED A!screen
      BY <1>13 DEF A!WriteFails
    <2>. QED  BY <2>1, SaidWrites
  <1>14. ASSUME NEW u \in writes, A!WriteDone(u) PROVE SaidHold'
    <2>1. /\ writes' \subseteq writes /\ typed' = typed
          /\ editing' = <<>> \/ editing' = editing
          /\ A!forgetDraft(u.draft) \/ drafts' = drafts
      BY <1>14 DEF A!WriteDone
    <2>2. A!Filled' => A!Filled /\ A!Draft' = A!Draft /\ editing' = editing
      <3>. SUFFICES ASSUME A!Filled' PROVE A!Filled /\ A!Draft' = A!Draft /\ editing' = editing
        OBVIOUS
      <3>1. editing' = editing /\ editing # <<>>
        BY <2>1 DEF A!Filled, A!Editor
      <3>2. /\ editing[1].draft \in DOMAIN drafts'
            /\ drafts'[editing[1].draft].says # editing[1].opened
        BY <3>1 DEF A!Filled, A!Editor, A!Draft
      <3>3. /\ editing[1].draft \in DOMAIN drafts
            /\ drafts'[editing[1].draft] = drafts[editing[1].draft]
        BY <2>1, <3>2, Forgotten
      <3>. QED  BY <3>1, <3>2, <3>3 DEF A!Filled, A!Editor, A!Draft
    <2>. QED  BY <2>1, <2>2 DEF SaidHold
  <1>. QED
    BY <1>2, <1>3, <1>4, <1>5, <1>6, <1>8, <1>9, <1>10, <1>11, <1>12, <1>13, <1>14
       DEF A!Next, A!EditRule, A!NewRule

LEMMA SaidAlways == A!Spec => []SaidHold
  <1>1. A!Init => SaidHold
    BY DEF A!Init, SaidHold
  <1>. QED  BY <1>1, SaidStep, RulesAlways, TypingIsCounted, PTL DEF A!Spec

\* What was typed goes with the answer to the question, or with its own save: and what that save
\* did not take was typed after it was pressed.
LEMMA TypedGoesWithAnswer ==
  ASSUME RulesInv, typed \in Nat, SaidHold, A!Next, A!Filled, A!Gone(editing[1].draft)
  PROVE  leaving \/ A!SavedNow(editing[1].draft)
  <1>. DEFINE d == editing[1].draft
  <1>1. d \in DOMAIN drafts /\ d \notin DOMAIN drafts'
    BY DEF A!Gone
  <1>2. drafts' # drafts
    BY <1>1
  <1>. HIDE DEF d
  <1>3. \A e, made : ~A!Opens(e, made)
    BY <1>1 DEF A!Opens
  <1>4. (\A r : ~A!EditRule(r)) /\ ~A!NewRule
    BY <1>3 DEF A!EditRule, A!NewRule
  <1>5. \A t : ~A!Type(t)
    BY <1>1 DEF A!Type
  <1>6. ~A!Back
    BY <1>2 DEF A!Back
  <1>7. A!Discard => leaving
    BY DEF A!Discard
  <1>8. ~A!OpenPanel /\ ~A!ClosePanel /\ ~A!KeepWriting
    BY <1>2 DEF A!OpenPanel, A!ClosePanel, A!KeepWriting
  <1>9. ~(UNCHANGED A!screen)
    BY <1>2 DEF A!screen
  <1>10. /\ \A c : ~A!Served(c) /\ ~A!ReadLands(c) /\ ~A!ReadFails(c)
         /\ \A w : ~A!PutTaken(w) /\ ~A!WriteFails(w)
         /\ ~A!Save /\ \A r : ~A!Switch(r) /\ ~A!Phone(r)
    BY <1>9 DEF A!Served, A!ReadLands, A!ReadFails, A!PutTaken, A!WriteFails, A!Save, A!Switch, A!Phone
  <1>11. ASSUME NEW w \in writes, A!WriteDone(w) PROVE A!SavedNow(d)
    <2>1. w.who = "editor"
      BY <1>2, <1>11 DEF A!WriteDone
    <2>2. A!forgetDraft(w.draft) /\ w \notin writes' /\ w.stage = "taken"
      BY <1>11, <2>1 DEF A!WriteDone
    <2>3. w.draft = d
      BY <1>1, <2>2, Forgotten
    <2>4. w.change.rule.says = drafts[d].says \/ w.typed < typed
      <3>1. /\ w.typed \in Nat /\ w.typed <= typed
            /\ w.typed = typed => w.change.rule.says = drafts[d].says
        BY <2>1, <2>3 DEF SaidHold, A!Draft, d
      <3>. QED  BY <3>1
    <2>. QED  BY <2>1, <2>2, <2>3, <2>4 DEF A!SavedNow
  <1>. QED  BY <1>4, <1>5, <1>6, <1>7, <1>8, <1>10, <1>11 DEF A!Next, d

\* A write leaves every rule but its own as the list says that it was built on, so it undoes
\* nothing but what was put between that read and its own put; and what has been typed into the
\* editor on screen goes only with an answer to the question, or when its own save is done, and
\* then what the save did not take was typed after Save was pressed (AlertsPanel, RuleEditor).
THEOREM WritesKeepToTheirOwn == A!Spec => WritesTouchTheirOwn
  <1>1. RulesInv /\ [A!Next]_(A!vars) =>
           [\A w \in writes : A!Took(w) =>
              \A id \in 1..ids \ {w.change.rule.id} :
                 A!Of(server', id) = A!Of(server, id) \/ A!Of(server, id) # A!Of(w.base, id)]_(A!vars)
    BY TakenTouchesOne
  <1>2. RulesInv /\ typed \in Nat /\ SaidHold /\ [A!Next]_(A!vars) =>
           [(A!Filled /\ A!Gone(editing[1].draft)) => (leaving \/ A!SavedNow(editing[1].draft))]_(A!vars)
    BY TypedGoesWithAnswer
  <1>3. A!Spec => A!OneRuleAtATime
    BY <1>1, RulesAlways, PTL DEF A!Spec, A!OneRuleAtATime
  <1>4. A!Spec => A!NothingTypedIsLost
    BY <1>2, RulesAlways, SaidAlways, TypingIsCounted, PTL DEF A!Spec, A!NothingTypedIsLost
  <1>. QED  BY <1>3, <1>4 DEF WritesTouchTheirOwn

-----------------------------------------------------------------------------
(* What goes through a sieve.                                                *)

LEMMA SievedMembers ==
  ASSUME NEW S, NEW s \in Seq(S), NEW keep
  PROVE  /\ F!Sieved(s, keep) \in Seq(S)
         /\ F!ToSet(F!Sieved(s, keep)) = F!ToSet(s) \cap keep
  <1>. DEFINE t == Sieved(s, keep)
  <1>1. F!Sieved(s, keep) = t
    BY DEF F!Sieved, Sieved
  <1>2. t \in Seq(S) /\ \E at : Spots(at, s, Len(s), keep, t)
    BY SievedPlaces
  <1>3. PICK at : Spots(at, s, Len(s), keep, t)
    BY <1>2
  <1>. HIDE DEF t
  <1>4. DOMAIN s = 1..Len(s) /\ DOMAIN t = 1..Len(t)
    BY <1>2
  <1>5. ASSUME NEW e \in F!ToSet(t)  PROVE e \in F!ToSet(s) \cap keep
    BY <1>3, <1>4, <1>5 DEF F!ToSet, Spots
  <1>6. ASSUME NEW e \in F!ToSet(s), e \in keep  PROVE e \in F!ToSet(t)
    <2>1. PICK k \in 1..Len(s) : s[k] = e
      BY <1>4, <1>6 DEF F!ToSet
    <2>2. PICK i \in 1..Len(t) : at[i] = k
      BY <1>3, <1>6, <2>1 DEF Spots
    <2>3. t[i] = e
      BY <1>3, <2>1, <2>2 DEF Spots
    <2>. QED  BY <1>4, <2>2, <2>3 DEF F!ToSet
  <1>. QED  BY <1>1, <1>2, <1>5, <1>6

\* What a sieve lets through first is the first that may go through.
LEMMA SievedFirst ==
  ASSUME NEW S, NEW s \in Seq(S), NEW keep
  PROVE  /\ F!Sieved(s, keep) # <<>> <=> \E i \in DOMAIN s : s[i] \in keep
         /\ F!Sieved(s, keep) # <<>> =>
              \E i \in DOMAIN s : /\ s[i] \in keep /\ F!Sieved(s, keep)[1] = s[i]
                                  /\ \A j \in 1..i - 1 : s[j] \notin keep
  <1>. DEFINE t == Sieved(s, keep)
  <1>1. F!Sieved(s, keep) = t
    BY DEF F!Sieved, Sieved
  <1>2. t \in Seq(S) /\ \E at : Spots(at, s, Len(s), keep, t)
    BY SievedPlaces
  <1>3. PICK at : Spots(at, s, Len(s), keep, t)
    BY <1>2
  <1>. HIDE DEF t
  <1>4. DOMAIN s = 1..Len(s) /\ Len(s) \in Nat /\ Len(t) \in Nat /\ (t # <<>> <=> Len(t) >= 1)
    BY <1>2
  <1>5. ASSUME NEW i \in DOMAIN s, s[i] \in keep  PROVE t # <<>>
    <2>1. \E n \in 1..Len(t) : at[n] = i
      BY <1>3, <1>4, <1>5 DEF Spots
    <2>. QED  BY <1>4, <2>1
  <1>6. ASSUME t # <<>>
        PROVE  \E i \in DOMAIN s : /\ s[i] \in keep /\ t[1] = s[i]
                                   /\ \A j \in 1..i - 1 : s[j] \notin keep
    <2>1. 1 \in 1..Len(t) /\ at[1] \in DOMAIN s /\ s[at[1]] \in keep /\ t[1] = s[at[1]]
      BY <1>3, <1>4, <1>6 DEF Spots
    <2>2. ASSUME NEW j \in 1..at[1] - 1, s[j] \in keep  PROVE FALSE
      <3>1. j \in 1..Len(s) /\ j < at[1]
        BY <1>4, <2>1
      <3>2. PICK n \in 1..Len(t) : at[n] = j
        BY <1>3, <2>2, <3>1 DEF Spots
      <3>3. n = 1 \/ at[1] < at[n]
        BY <1>3, <1>4, <2>1, <3>2 DEF Spots
      <3>. QED  BY <1>4, <2>1, <3>1, <3>2, <3>3
    <2>. QED  BY <2>1, <2>2
  <1>. QED  BY <1>1, <1>5, <1>6

-----------------------------------------------------------------------------
(* The types of the form.                                                    *)

SimpleBoxes ==
  [type : {"threshold"}, way : Ways, value : F!Texts]
  \cup [type : {"band"}, way : Ways, low : F!Texts, high : F!Texts]
  \cup [type : {"pattern"}, way : Ways, regex : Patterns]
  \cup [type : {"oneOf"}, way : Ways, values : Seq(STRING)]
  \cup [type : {"silence"}, after : F!Texts]
  \cup [type : {"outlier"}, method : {"tukey", "sigma"}, k : F!Texts, window : F!Texts]
  \cup [type : {"pulse"}, metric : {"count", "duty"}, way : Ways, value : F!Texts, window : F!Texts]
  \cup [type : {"distributionShift", "shapeChange"}, window : F!Texts]

\* What the rules hold that the form may have to carry as it is.
Shown == UNION {{r.condition} \cup F!ToSet(r.clear) : r \in Rules}
Sources == Shown \cup UNION {F!ToSet(c.of) : c \in {h \in Shown : h.type \in F!Joiners}}
Carried == {F!Opaque(s) : s \in Sources}

Boxes == SimpleBoxes \cup Carried
Conditions == Boxes \cup [type : F!Joiners, of : Seq(Boxes)]

Hooks == [url : STRING, headers : Seq([name : STRING, value : STRING])]
Publications == [type : {"publish"}, topic : Seq(STRING), retain : BOOLEAN]
Undrawn == UNION {F!ToSet(r.actions) : r \in Rules}

Sheets ==
  [name : STRING, filter : Seq(STRING), condition : Conditions, clear : Seq(Conditions),
   for : F!Texts, screen : BOOLEAN, sound : BOOLEAN, webhook : Seq(Hooks),
   publish : Seq(Publications), extra : Seq(Undrawn)]

-----------------------------------------------------------------------------
(* A condition as boxes.                                                     *)

LEMMA TextsRead ==
  /\ Reads \in [DOMAIN Reads -> Int] /\ "" \notin DOMAIN Reads
  /\ \A n \in F!Amounts : /\ Text(n) \in DOMAIN Reads /\ Text(n) \in F!Texts
                          /\ F!numberOf(Text(n)) = n /\ Text(n) # "" /\ n \in Int
  /\ \A n \in F!OrNot(F!Amounts) : F!absent(n) \in F!Texts /\ F!numberOf(F!absent(n)) = n
  /\ \A t \in F!Texts : F!numberOf(t) \in Int
  /\ "" \in F!Texts /\ F!numberOf("") = 0 /\ "60" \in F!Texts /\ F!Texts \subseteq STRING
  /\ \A m : F!defaultK(m) \in F!Texts /\ F!numberOf(F!defaultK(m)) = Reads[F!defaultK(m)]
  <1>1. F!RuleDraftAssumption
    BY EditorsAssumption
  <1>2. /\ Reads \in [DOMAIN Reads -> Int] /\ DOMAIN Reads \subseteq STRING \ {"", Junk}
        /\ \A n \in F!Amounts : Text(n) \in DOMAIN Reads /\ Reads[Text(n)] = n
        /\ {"1.5", "3", "60"} \subseteq DOMAIN Reads
    BY <1>1 DEF F!RuleDraftAssumption
  <1>3. \A n \in F!Amounts : /\ Text(n) \in DOMAIN Reads /\ Text(n) \in F!Texts
                          /\ F!numberOf(Text(n)) = n /\ Text(n) # "" /\ n \in Int
    BY <1>2 DEF F!Texts, F!numberOf
  <1>4. \A t \in F!Texts : F!numberOf(t) \in Int
    <2>1. \A t \in DOMAIN Reads : Reads[t] \in Int
      BY <1>2
    <2>2. 0 \in Int
      OBVIOUS
    <2>. QED  BY <2>1, <2>2, Zenon DEF F!numberOf
  <1>5. "" \in F!Texts /\ F!numberOf("") = 0 /\ "60" \in F!Texts /\ F!Texts \subseteq STRING
    <2>1. "" \in STRING /\ Junk \in STRING
      BY <1>1 DEF F!RuleDraftAssumption
    <2>2. F!numberOf("") = 0
      BY <1>2, Zenon DEF F!numberOf
    <2>. QED  BY <1>2, <2>1, <2>2 DEF F!Texts
  <1>6. \A m : F!defaultK(m) \in F!Texts /\ F!numberOf(F!defaultK(m)) = Reads[F!defaultK(m)]
    BY <1>2 DEF F!Texts, F!numberOf, F!defaultK
  <1>7. \A n \in F!OrNot(F!Amounts) : F!absent(n) \in F!Texts /\ F!numberOf(F!absent(n)) = n
    BY <1>3, <1>5 DEF F!OrNot, F!absent
  <1>. QED  BY <1>2, <1>3, <1>4, <1>5, <1>6, <1>7

\* What a reader chooses comes with its boxes, empty.
LEMMA BlankBox ==
  ASSUME NEW t
  PROVE  /\ t \in F!SIMPLE_TYPES => F!blankCondition(t) \in SimpleBoxes
         /\ t \in F!Joiners => F!blankCondition(t) \in [type : F!Joiners, of : Seq(Boxes)]
  <1>1. "gt" \in Ways /\ "" \in Patterns
    BY EditorsAssumption DEF F!RuleDraftAssumption
  <1>2. CASE t \in F!Joiners
    <2>1. F!blankCondition(t) = [type |-> t, of |-> <<>>] /\ t \notin F!SIMPLE_TYPES
      BY <1>2 DEF F!blankCondition, F!Joiners, F!SIMPLE_TYPES
    <2>. QED  BY <1>2, <2>1
  <1>3. CASE t \in F!SIMPLE_TYPES
    <2>1. t \notin F!Joiners
      BY <1>3 DEF F!Joiners, F!SIMPLE_TYPES
    <2>2. /\ "" \in F!Texts /\ "60" \in F!Texts /\ F!defaultK("tukey") \in F!Texts
          /\ <<>> \in Seq(STRING)
      <3>1. "" \in F!Texts /\ "60" \in F!Texts /\ F!defaultK("tukey") \in F!Texts
        BY TextsRead, Zenon
      <3>2. <<>> \in Seq(STRING)
        BY EmptySeq
      <3>. QED  BY <3>1, <3>2
    <2>3. F!blankCondition(t) \in SimpleBoxes
      <3>1. CASE t = "threshold"
        BY <1>1, <2>2, <3>1 DEF F!blankCondition, SimpleBoxes
      <3>2. CASE t = "band"
        BY <1>1, <2>2, <3>2 DEF F!blankCondition, SimpleBoxes
      <3>3. CASE t = "pattern"
        BY <1>1, <2>2, <3>3 DEF F!blankCondition, SimpleBoxes
      <3>4. CASE t = "oneOf"
        BY <1>1, <2>2, <3>4 DEF F!blankCondition, SimpleBoxes
      <3>5. CASE t = "silence"
        BY <1>1, <2>2, <3>5 DEF F!blankCondition, SimpleBoxes
      <3>6. CASE t = "outlier"
        BY <1>1, <2>2, <3>6 DEF F!blankCondition, SimpleBoxes
      <3>7. CASE t = "pulse"
        BY <1>1, <2>2, <3>7 DEF F!blankCondition, SimpleBoxes
      <3>8. CASE t \in {"distributionShift", "shapeChange"}
        BY <1>1, <2>2, <3>8 DEF F!blankCondition, SimpleBoxes
      <3>. QED  BY <1>3, <3>1, <3>2, <3>3, <3>4, <3>5, <3>6, <3>7, <3>8 DEF F!SIMPLE_TYPES
    <2>. QED  BY <2>1, <2>3
  <1>. QED  BY <1>2, <1>3

\* A condition the form has boxes for goes into them, and comes back as it was said.
LEMMA SimpleThereAndBack ==
  ASSUME NEW c \in F!Simple
  PROVE  F!simpleDraft(c) \in SimpleBoxes /\ F!simpleOf(F!simpleDraft(c)) = F!SimpleSaid(c)
  <1>. DEFINE d == F!simpleDraft(c)
              Am == F!Amounts
              N == F!OrNot(F!Amounts)
  <1>1. CASE c \in [type : {"threshold"}, way : Ways, value : Am]
    <2>1. c.type = "threshold" /\ c.value \in Am /\ d = [c EXCEPT !.value = Text(@)]
      BY <1>1 DEF F!simpleDraft
    <2>2. d \in [type : {"threshold"}, way : Ways, value : F!Texts]
      BY <1>1, <2>1, TextsRead
    <2>3. F!simpleOf(d) = [d EXCEPT !.value = F!numberOf(@)] /\ F!SimpleSaid(c) = c
      BY <2>1, <2>2 DEF F!simpleOf, F!SimpleSaid
    <2>4. [d EXCEPT !.value = F!numberOf(@)] = c
      BY <1>1, <2>1, <2>2, TextsRead
    <2>. QED  BY <2>2, <2>3, <2>4 DEF SimpleBoxes
  <1>2. CASE c \in [type : {"band"}, way : Ways, low : Am, high : Am]
    <2>1. c.type = "band" /\ c.low \in Am /\ c.high \in Am /\ d = [c EXCEPT !.low = Text(@), !.high = Text(@)]
      BY <1>2 DEF F!simpleDraft
    <2>2. d \in [type : {"band"}, way : Ways, low : F!Texts, high : F!Texts]
      BY <1>2, <2>1, TextsRead
    <2>3. F!simpleOf(d) = [d EXCEPT !.low = F!numberOf(@), !.high = F!numberOf(@)] /\ F!SimpleSaid(c) = c
      BY <2>1, <2>2 DEF F!simpleOf, F!SimpleSaid
    <2>4. [d EXCEPT !.low = F!numberOf(@), !.high = F!numberOf(@)] = c
      BY <1>2, <2>1, <2>2, TextsRead
    <2>. QED  BY <2>2, <2>3, <2>4 DEF SimpleBoxes
  <1>3. CASE c \in [type : {"pattern"}, way : Ways, regex : Patterns]
    BY <1>3 DEF F!simpleDraft, F!simpleOf, F!SimpleSaid, SimpleBoxes
  <1>4. CASE c \in [type : {"oneOf"}, way : Ways, values : Seq(STRING)]
    BY <1>4 DEF F!simpleDraft, F!simpleOf, F!SimpleSaid, SimpleBoxes
  <1>5. CASE c \in [type : {"silence"}, after : Am]
    <2>1. c.type = "silence" /\ c.after \in Am /\ d = [c EXCEPT !.after = Text(@)]
      BY <1>5 DEF F!simpleDraft
    <2>2. d \in [type : {"silence"}, after : F!Texts]
      BY <1>5, <2>1, TextsRead
    <2>3. F!simpleOf(d) = [d EXCEPT !.after = F!numberOf(@)] /\ F!SimpleSaid(c) = c
      BY <2>1, <2>2 DEF F!simpleOf, F!SimpleSaid
    <2>4. [d EXCEPT !.after = F!numberOf(@)] = c
      BY <1>5, <2>1, <2>2, TextsRead
    <2>. QED  BY <2>2, <2>3, <2>4 DEF SimpleBoxes
  <1>6. CASE c \in [type : {"outlier"}, method : {"tukey", "sigma"}, k : N, window : N]
    <2>1. /\ c.type = "outlier" /\ c.k \in N /\ c.window \in N
          /\ d = [c EXCEPT !.k = F!kOr(@, c.method), !.window = F!absent(@)]
      BY <1>6 DEF F!simpleDraft
    <2>2. F!kOr(c.k, c.method) \in F!Texts
      BY <2>1, TextsRead DEF F!kOr, F!OrNot
    <2>3. d \in [type : {"outlier"}, method : {"tukey", "sigma"}, k : F!Texts, window : F!Texts]
      BY <1>6, <2>1, <2>2, TextsRead
    <2>4. F!simpleOf(d) = [d EXCEPT !.k = F!numberOf(@), !.window = F!numberOf(@)]
      BY <2>1, <2>3 DEF F!simpleOf
    <2>5. d.k = F!kOr(c.k, c.method) /\ d.window = F!absent(c.window) /\ d.method = c.method
      BY <1>6, <2>1
    <2>6. CASE c.k = 0
      <3>1. F!SimpleSaid(c) = [c EXCEPT !.k = Reads[F!defaultK(c.method)]]
        BY <2>1, <2>6 DEF F!SimpleSaid
      <3>2. F!numberOf(d.k) = Reads[F!defaultK(c.method)] /\ F!numberOf(d.window) = c.window
        BY <2>1, <2>5, <2>6, TextsRead DEF F!kOr
      <3>3. [d EXCEPT !.k = F!numberOf(@), !.window = F!numberOf(@)] = [c EXCEPT !.k = Reads[F!defaultK(c.method)]]
        BY <1>6, <2>1, <2>3, <2>5, <3>2
      <3>. QED  BY <2>3, <2>4, <3>1, <3>3 DEF SimpleBoxes
    <2>7. CASE c.k # 0
      <3>1. F!SimpleSaid(c) = c
        BY <2>1, <2>7 DEF F!SimpleSaid
      <3>2. F!numberOf(d.k) = c.k /\ F!numberOf(d.window) = c.window
        BY <2>1, <2>5, <2>7, TextsRead DEF F!kOr, F!OrNot
      <3>3. [d EXCEPT !.k = F!numberOf(@), !.window = F!numberOf(@)] = c
        BY <1>6, <2>1, <2>3, <2>5, <3>2
      <3>. QED  BY <2>3, <2>4, <3>1, <3>3 DEF SimpleBoxes
    <2>. QED  BY <2>6, <2>7
  <1>7. CASE c \in [type : {"pulse"}, metric : {"count", "duty"}, way : Ways, value : Am, window : N]
    <2>1. /\ c.type = "pulse" /\ c.value \in Am /\ c.window \in N
          /\ d = [c EXCEPT !.value = Text(@), !.window = F!absent(@)]
      BY <1>7 DEF F!simpleDraft
    <2>2. d \in [type : {"pulse"}, metric : {"count", "duty"}, way : Ways, value : F!Texts, window : F!Texts]
      BY <1>7, <2>1, TextsRead
    <2>3. F!simpleOf(d) = [d EXCEPT !.value = F!numberOf(@), !.window = F!numberOf(@)] /\ F!SimpleSaid(c) = c
      BY <2>1, <2>2 DEF F!simpleOf, F!SimpleSaid
    <2>4. [d EXCEPT !.value = F!numberOf(@), !.window = F!numberOf(@)] = c
      BY <1>7, <2>1, <2>2, TextsRead
    <2>. QED  BY <2>2, <2>3, <2>4 DEF SimpleBoxes
  <1>8. CASE c \in [type : {"distributionShift", "shapeChange"}, window : N]
    <2>1. /\ c.type \in {"distributionShift", "shapeChange"} /\ c.window \in N
          /\ d = [c EXCEPT !.window = F!absent(@)]
      BY <1>8 DEF F!simpleDraft
    <2>2. d \in [type : {"distributionShift", "shapeChange"}, window : F!Texts]
      BY <1>8, <2>1, TextsRead
    <2>3. F!simpleOf(d) = [d EXCEPT !.window = F!numberOf(@)] /\ F!SimpleSaid(c) = c
      BY <2>1, <2>2 DEF F!simpleOf, F!SimpleSaid
    <2>4. [d EXCEPT !.window = F!numberOf(@)] = c
      BY <1>8, <2>1, <2>2, TextsRead
    <2>. QED  BY <2>2, <2>3, <2>4 DEF SimpleBoxes
  <1>. HIDE DEF d
  <1>. QED  BY <1>1, <1>2, <1>3, <1>4, <1>5, <1>6, <1>7, <1>8 DEF F!Simple, d

\* What a condition comes to once it is a sheet's.
LEMMA PartThereAndBack ==
  ASSUME NEW c, F!IsPart(c), c \in Sources
  PROVE  F!simpleDraft(c) \in Boxes /\ F!simpleOf(F!simpleDraft(c)) = F!SimpleSaid(c)
  <1>1. CASE c.type \in F!SIMPLE_TYPES
    <2>1. c \in F!Simple
      BY <1>1 DEF F!IsPart
    <2>. QED  BY <2>1, SimpleThereAndBack DEF Boxes
  <1>2. CASE c.type \notin F!SIMPLE_TYPES
    <2>1. F!simpleDraft(c) = F!Opaque(c)
      BY <1>2 DEF F!simpleDraft, F!SIMPLE_TYPES
    <2>2. F!simpleOf(F!Opaque(c)) = c
      BY DEF F!simpleOf, F!Opaque
    <2>3. F!SimpleSaid(c) = c
      BY <1>2 DEF F!SimpleSaid, F!SIMPLE_TYPES
    <2>. QED  BY <2>1, <2>2, <2>3 DEF Boxes, Carried
  <1>. QED  BY <1>1, <1>2

\* A composite's child that is drawn as it lies deeper, or as what it is.
Child(x) == IF x.type \in F!Joiners THEN F!Opaque(x) ELSE F!simpleDraft(x)

LEMMA ChildThereAndBack ==
  ASSUME NEW x, F!IsPart(x), x \in Sources
  PROVE  Child(x) \in Boxes /\ F!simpleOf(Child(x)) = F!SimpleSaid(x)
  <1>1. CASE x.type \in F!Joiners
    <2>1. F!simpleOf(F!Opaque(x)) = x
      BY DEF F!simpleOf, F!Opaque
    <2>2. F!SimpleSaid(x) = x
      BY <1>1 DEF F!SimpleSaid, F!Joiners
    <2>. QED  BY <1>1, <2>1, <2>2 DEF Child, Boxes, Carried
  <1>2. CASE x.type \notin F!Joiners
    BY <1>2, PartThereAndBack DEF Child
  <1>. QED  BY <1>1, <1>2

LEMMA BoxTypes ==
  ASSUME NEW b \in Boxes
  PROVE  b.type \in F!SIMPLE_TYPES \cup {"opaque"} /\ b.type \notin F!Joiners
         /\ (b.type # "opaque" => b \in SimpleBoxes)
  <1>1. CASE b \in SimpleBoxes
    <2>1. b.type \in F!SIMPLE_TYPES
      BY <1>1 DEF SimpleBoxes, F!SIMPLE_TYPES
    <2>2. b.type \notin F!Joiners
      BY <2>1 DEF F!SIMPLE_TYPES, F!Joiners
    <2>. QED  BY <1>1, <2>1, <2>2
  <1>2. CASE b \in Carried
    <2>1. b.type = "opaque"
      BY <1>2 DEF Carried, F!Opaque
    <2>. QED  BY <2>1 DEF F!Joiners
  <1>. QED  BY <1>1, <1>2 DEF Boxes

LEMMA ConditionThereAndBack ==
  ASSUME NEW c \in Shown, F!IsCondition(c)
  PROVE  F!conditionDraft(c) \in Conditions /\ F!conditionOf(F!conditionDraft(c)) = F!Said(c)
  <1>1. c \in Sources
    BY DEF Sources
  <1>2. CASE c.type \in F!Joiners
    <2>. DEFINE s == c.of
                d == F!conditionDraft(c)
    <2>1. /\ c \in [type : F!Joiners, of : Seq(F!ToSet(s))]
          /\ \A x \in F!ToSet(s) : F!IsPart(x)
      BY <1>2 DEF F!IsCondition, F!IsComposite
    <2>2. s \in Seq(F!ToSet(s)) /\ DOMAIN s = 1..Len(s) /\ Len(s) \in Nat
      BY <2>1
    <2>3. \A i \in DOMAIN s : s[i] \in Sources /\ F!IsPart(s[i])
      BY <1>2, <2>1 DEF Sources, F!ToSet
    <2>4. \A i \in DOMAIN s : Child(s[i]) \in Boxes /\ F!simpleOf(Child(s[i])) = F!SimpleSaid(s[i])
      BY <2>3, ChildThereAndBack
    <2>5. d = [c EXCEPT !.of = [i \in DOMAIN s |-> Child(s[i])]]
      BY <1>2 DEF F!conditionDraft, Child
    <2>6. [i \in DOMAIN s |-> Child(s[i])] \in Seq(Boxes)
      BY <2>2, <2>4
    <2>7. d \in [type : F!Joiners, of : Seq(Boxes)] /\ d.of = [i \in DOMAIN s |-> Child(s[i])] /\ d.type = c.type
      BY <2>1, <2>5, <2>6
    <2>8. F!conditionOf(d) = [d EXCEPT !.of = [i \in DOMAIN d.of |-> F!simpleOf(d.of[i])]]
      BY <1>2, <2>7 DEF F!conditionOf
    <2>9. [i \in DOMAIN d.of |-> F!simpleOf(d.of[i])] = [i \in DOMAIN s |-> F!SimpleSaid(s[i])]
      BY <2>4, <2>7
    <2>10. F!Said(c) = [c EXCEPT !.of = [i \in DOMAIN s |-> F!SimpleSaid(s[i])]]
      BY <1>2 DEF F!Said
    <2>11. F!conditionOf(d) = F!Said(c)
      BY <2>1, <2>5, <2>7, <2>8, <2>9, <2>10
    <2>. QED  BY <2>7, <2>11 DEF Conditions
  <1>3. CASE c.type \notin F!Joiners
    <2>1. F!conditionDraft(c) = F!simpleDraft(c) /\ F!IsPart(c) /\ F!Said(c) = F!SimpleSaid(c)
      BY <1>3 DEF F!conditionDraft, F!IsCondition, F!Said
    <2>2. F!simpleDraft(c) \in Boxes /\ F!simpleOf(F!simpleDraft(c)) = F!SimpleSaid(c)
      BY <1>1, <2>1, PartThereAndBack
    <2>3. F!conditionOf(F!simpleDraft(c)) = F!simpleOf(F!simpleDraft(c))
      BY <2>2, BoxTypes DEF F!conditionOf
    <2>. QED  BY <2>1, <2>2, <2>3 DEF Conditions
  <1>. QED  BY <1>2, <1>3

-----------------------------------------------------------------------------
(* The boxes of a condition, changed one at a time.                          *)

LEMMA PicksTyped ==
  /\ Lines \subseteq Seq(STRING) /\ Names \subseteq STRING /\ Filters \subseteq Seq(STRING)
  /\ Addresses \subseteq STRING /\ Headers \subseteq STRING /\ Secrets \subseteq STRING
  /\ Topics \subseteq Seq(STRING) /\ "" \in STRING /\ Prefix \in Seq(STRING) /\ Widest \in Int
  BY EditorsAssumption DEF F!RuleDraftAssumption

\* Whatever is typed or chosen in a box, the condition still has the boxes of its type.
LEMMA BoxedStays ==
  ASSUME NEW c \in Boxes, NEW e \in F!Boxed(c)
  PROVE  e \in SimpleBoxes
  <1>0. \A m : F!defaultK(m) \in F!Texts
    BY TextsRead, Zenon
  <1>1. \/ \E b \in DOMAIN c \cap {"value", "low", "high", "after", "k", "window"} :
              \E t \in F!Texts : e = [c EXCEPT ![b] = t]
        \/ "way" \in DOMAIN c /\ \E w \in Ways : e = [c EXCEPT !["way"] = w]
        \/ "regex" \in DOMAIN c /\ \E x \in Patterns : e = [c EXCEPT !["regex"] = x]
        \/ "values" \in DOMAIN c /\ \E l \in Lines : e = [c EXCEPT !["values"] = l]
        \/ "metric" \in DOMAIN c /\ \E m \in {"count", "duty"} : e = [c EXCEPT !["metric"] = m]
        \/ "method" \in DOMAIN c /\ \E m \in {"tukey", "sigma"} : \E d :
              d = [c EXCEPT !["method"] = m] /\ e = [d EXCEPT !.k = F!defaultK(d.method)]
    BY DEF F!Boxed, F!Put
  <1>2. ASSUME c \in Carried  PROVE FALSE
    <2>1. DOMAIN c = {"type", "source"}
      BY <1>2 DEF Carried, F!Opaque
    <2>. QED  BY <1>1, <2>1
  <1>3. CASE c \in [type : {"threshold"}, way : Ways, value : F!Texts]
    <2>1. DOMAIN c = {"type", "way", "value"}
      BY <1>3
    <2>2. e \in [type : {"threshold"}, way : Ways, value : F!Texts]
      BY <1>1, <1>3, <2>1
    <2>. QED  BY <2>2 DEF SimpleBoxes
  <1>4. CASE c \in [type : {"band"}, way : Ways, low : F!Texts, high : F!Texts]
    <2>1. DOMAIN c = {"type", "way", "low", "high"}
      BY <1>4
    <2>2. e \in [type : {"band"}, way : Ways, low : F!Texts, high : F!Texts]
      BY <1>1, <1>4, <2>1
    <2>. QED  BY <2>2 DEF SimpleBoxes
  <1>5. CASE c \in [type : {"pattern"}, way : Ways, regex : Patterns]
    <2>1. DOMAIN c = {"type", "way", "regex"}
      BY <1>5
    <2>2. e \in [type : {"pattern"}, way : Ways, regex : Patterns]
      BY <1>1, <1>5, <2>1
    <2>. QED  BY <2>2 DEF SimpleBoxes
  <1>6. CASE c \in [type : {"oneOf"}, way : Ways, values : Seq(STRING)]
    <2>1. DOMAIN c = {"type", "way", "values"}
      BY <1>6
    <2>2. e \in [type : {"oneOf"}, way : Ways, values : Seq(STRING)]
      BY <1>1, <1>6, <2>1, PicksTyped
    <2>. QED  BY <2>2 DEF SimpleBoxes
  <1>7. CASE c \in [type : {"silence"}, after : F!Texts]
    <2>1. DOMAIN c = {"type", "after"}
      BY <1>7
    <2>2. e \in [type : {"silence"}, after : F!Texts]
      BY <1>1, <1>7, <2>1
    <2>. QED  BY <2>2 DEF SimpleBoxes
  <1>8. CASE c \in [type : {"outlier"}, method : {"tukey", "sigma"}, k : F!Texts, window : F!Texts]
    <2>1. DOMAIN c = {"type", "method", "k", "window"}
      BY <1>8
    <2>2. e \in [type : {"outlier"}, method : {"tukey", "sigma"}, k : F!Texts, window : F!Texts]
      <3>1. \/ \E t \in F!Texts : e = [c EXCEPT !.k = t] \/ e = [c EXCEPT !.window = t]
            \/ \E m \in {"tukey", "sigma"} : \E k \in F!Texts : e = [c EXCEPT !.method = m, !.k = k]
        <4>1. ASSUME NEW m \in {"tukey", "sigma"}, NEW d,
                     d = [c EXCEPT !["method"] = m], e = [d EXCEPT !.k = F!defaultK(d.method)]
              PROVE  \E k \in F!Texts : e = [c EXCEPT !.method = m, !.k = k]
          <5>1. PICK k \in F!Texts : k = F!defaultK(d.method)
            BY <1>0, Zenon
          <5>. QED  BY <1>8, <4>1, <5>1
        <4>. QED  BY <1>1, <2>1, <4>1
      <3>. QED  BY <1>8, <3>1
    <2>. QED  BY <2>2 DEF SimpleBoxes
  <1>9. CASE c \in [type : {"pulse"}, metric : {"count", "duty"}, way : Ways, value : F!Texts, window : F!Texts]
    <2>1. DOMAIN c = {"type", "metric", "way", "value", "window"}
      BY <1>9
    <2>2. e \in [type : {"pulse"}, metric : {"count", "duty"}, way : Ways, value : F!Texts, window : F!Texts]
      BY <1>1, <1>9, <2>1
    <2>. QED  BY <2>2 DEF SimpleBoxes
  <1>10. CASE c \in [type : {"distributionShift", "shapeChange"}, window : F!Texts]
    <2>1. DOMAIN c = {"type", "window"}
      BY <1>10
    <2>2. e \in [type : {"distributionShift", "shapeChange"}, window : F!Texts]
      BY <1>1, <1>10, <2>1
    <2>. QED  BY <2>2 DEF SimpleBoxes
  <1>. QED  BY <1>2, <1>3, <1>4, <1>5, <1>6, <1>7, <1>8, <1>9, <1>10 DEF Boxes, SimpleBoxes

LEMMA PutKeeps ==
  ASSUME NEW S, NEW s \in Seq(S), NEW x \in S
  PROVE  /\ Append(s, x) \in Seq(S)
         /\ \A i \in DOMAIN s : s[i] \in S /\ [s EXCEPT ![i] = x] \in Seq(S)
  OBVIOUS

LEMMA RemoveKeeps ==
  ASSUME NEW S, NEW s \in Seq(S), NEW i \in DOMAIN s
  PROVE  F!RemoveAt(s, i) \in Seq(S)
  <1>1. i \in 1..Len(s) /\ Len(s) \in Nat
    OBVIOUS
  <1>2. SubSeq(s, 1, i - 1) \in Seq(S) /\ SubSeq(s, i + 1, Len(s)) \in Seq(S)
    BY <1>1
  <1>. QED  BY <1>2 DEF F!RemoveAt

\* A list of children stays one whichever of them is added, taken out or changed.
LEMMA ChildrenStay ==
  ASSUME NEW s \in Seq(Boxes), NEW e \in F!Children(s)
  PROVE  e \in Seq(Boxes)
  <1>. DEFINE boxed(i) == F!Boxed(s[i]) \cup {F!blankCondition(t) : t \in F!SIMPLE_TYPES}
  <1>1. \/ e = Append(s, F!blankCondition("threshold"))
        \/ \E i \in DOMAIN s : e = F!RemoveAt(s, i)
        \/ \E i \in DOMAIN s : \E b \in boxed(i) : e = [s EXCEPT ![i] = b]
    <2>1. \/ e = Append(s, F!blankCondition("threshold"))
          \/ \E i \in DOMAIN s : e = F!RemoveAt(s, i)
          \/ e \in UNION {{[s EXCEPT ![i] = b] : b \in boxed(i)} : i \in DOMAIN s}
      BY DEF F!Children
    <2>2. e \in UNION {{[s EXCEPT ![i] = b] : b \in boxed(i)} : i \in DOMAIN s}
            => \E i \in DOMAIN s : \E b \in boxed(i) : e = [s EXCEPT ![i] = b]
      <3>. HIDE DEF boxed
      <3>. QED  BY Zenon
    <2>. QED  BY <2>1, <2>2
  <1>2. "threshold" \in F!SIMPLE_TYPES
    BY DEF F!SIMPLE_TYPES
  <1>3. \A t \in F!SIMPLE_TYPES : F!blankCondition(t) \in Boxes
    BY BlankBox DEF Boxes
  <1>4. \A i \in DOMAIN s : \A b \in boxed(i) : b \in Boxes
    <2>1. \A i \in DOMAIN s : s[i] \in Boxes
      OBVIOUS
    <2>. QED  BY <1>3, <2>1, BoxedStays DEF Boxes
  <1>. HIDE DEF boxed
  <1>5. CASE e = Append(s, F!blankCondition("threshold"))
    BY <1>2, <1>3, <1>5
  <1>6. ASSUME NEW i \in DOMAIN s, e = F!RemoveAt(s, i)  PROVE e \in Seq(Boxes)
    BY <1>6, RemoveKeeps
  <1>7. ASSUME NEW i \in DOMAIN s, NEW x \in Boxes, e = [s EXCEPT ![i] = x]  PROVE e \in Seq(Boxes)
    BY <1>7
  <1>. QED  BY <1>1, <1>4, <1>5, <1>6, <1>7

LEMMA ConditionStays ==
  ASSUME NEW c \in Conditions, NEW e \in F!ConditionFields(c)
  PROVE  e \in Conditions
  <1>1. \/ \E t \in F!SIMPLE_TYPES \cup F!Joiners : e = F!retypeCondition(c, t)
        \/ c.type \in F!Joiners /\ \E l \in F!Children(c.of) : e = [c EXCEPT !.of = l]
        \/ c.type \notin F!Joiners /\ e \in F!Boxed(c)
    BY DEF F!ConditionFields
  <1>2. /\ c.type \in F!Joiners => c \in [type : F!Joiners, of : Seq(Boxes)]
        /\ c.type \notin F!Joiners => c \in Boxes
    BY BoxTypes DEF Conditions
  <1>3. ASSUME NEW t \in F!SIMPLE_TYPES \cup F!Joiners, e = F!retypeCondition(c, t)
        PROVE  e \in Conditions
    <2>1. CASE t \in F!Joiners /\ c.type \in F!Joiners
      BY <1>2, <1>3, <2>1 DEF F!retypeCondition, Conditions
    <2>2. CASE ~(t \in F!Joiners /\ c.type \in F!Joiners)
      <3>1. e = F!blankCondition(t)
        BY <1>3, <2>2 DEF F!retypeCondition
      <3>. QED  BY <3>1, BlankBox DEF Conditions, Boxes
    <2>. QED  BY <2>1, <2>2
  <1>4. ASSUME c.type \in F!Joiners, NEW l \in F!Children(c.of), e = [c EXCEPT !.of = l]
        PROVE  e \in Conditions
    <2>1. c \in [type : F!Joiners, of : Seq(Boxes)] /\ l \in Seq(Boxes)
      BY <1>2, <1>4, ChildrenStay
    <2>. QED  BY <1>4, <2>1 DEF Conditions
  <1>5. c.type \notin F!Joiners /\ e \in F!Boxed(c) => e \in Conditions
    BY <1>2, BoxedStays DEF Conditions, Boxes
  <1>. QED  BY <1>1, <1>3, <1>4, <1>5

-----------------------------------------------------------------------------
(* A rule as a sheet.                                                        *)

LEMMA RulesTyped ==
  ASSUME NEW r \in Rules
  PROVE  /\ r.name \in STRING /\ r.filter \in Seq(STRING) /\ F!IsCondition(r.condition)
         /\ r.clear \in Seq(F!ToSet(r.clear)) /\ Len(r.clear) <= 1
         /\ \A c \in F!ToSet(r.clear) : F!IsCondition(c)
         /\ r.for \in Seq(F!Amounts) /\ Len(r.for) <= 1
         /\ r.actions \in Seq(F!ToSet(r.actions)) /\ \A a \in F!ToSet(r.actions) : F!IsChannel(a)
  <1>1. F!IsRule(r)
    BY EditorsAssumption DEF F!RuleDraftAssumption
  <1>. QED  BY <1>1 DEF F!IsRule

\* The first channel of a kind, where there is one.
LEMMA FirstChannel ==
  ASSUME NEW r \in Rules, NEW type
  PROVE  /\ F!Has(r, type) <=> \E i \in DOMAIN r.actions : r.actions[i].type = type
         /\ F!Has(r, type) => \E i \in DOMAIN r.actions :
              /\ r.actions[i].type = type /\ F!Actions(r, type)[1] = r.actions[i]
              /\ \A j \in 1..i - 1 : r.actions[j].type # type
  <1>. DEFINE s == r.actions
              keep == {a \in F!ToSet(s) : a.type = type}
  <1>1. s \in Seq(F!ToSet(s))
    BY RulesTyped
  <1>2. F!Actions(r, type) = F!Sieved(s, keep)
    BY DEF F!Actions
  <1>3. \A i \in DOMAIN s : s[i] \in keep <=> s[i].type = type
    BY DEF F!ToSet
  <1>4. \A i \in DOMAIN s : \A j \in 1..i - 1 : j \in DOMAIN s
    BY <1>1
  <1>. HIDE DEF keep, s
  <1>5. /\ F!Sieved(s, keep) # <<>> <=> \E i \in DOMAIN s : s[i] \in keep
        /\ F!Sieved(s, keep) # <<>> =>
             \E i \in DOMAIN s : /\ s[i] \in keep /\ F!Sieved(s, keep)[1] = s[i]
                                 /\ \A j \in 1..i - 1 : s[j] \notin keep
    BY <1>1, SievedFirst
  <1>. QED  BY <1>2, <1>3, <1>4, <1>5 DEF F!Has, s

\* What the form does not draw: all but the first of each kind it knows.
IsDrawn(r, i) == /\ r.actions[i].type \in {"screen", "sound", "webhook", "publish"}
                 /\ \A j \in 1..i - 1 : r.actions[j].type # r.actions[i].type

LEMMA ExtraMembers ==
  ASSUME NEW r \in Rules
  PROVE  /\ F!Extra(r) \in Seq(F!ToSet(r.actions))
         /\ F!ToSet(F!Extra(r)) = {r.actions[i] : i \in {j \in DOMAIN r.actions : ~IsDrawn(r, j)}}
  <1>. DEFINE s == r.actions
              out == {i \in DOMAIN s : ~IsDrawn(r, i)}
              places == [i \in DOMAIN s |-> i]
              kept == F!Sieved(places, out)
  <1>1. s \in Seq(F!ToSet(s)) /\ DOMAIN s = 1..Len(s) /\ Len(s) \in Nat
    BY RulesTyped
  <1>2. F!Extra(r) = [n \in DOMAIN kept |-> s[kept[n]]]
    BY DEF F!Extra, IsDrawn
  <1>3. places \in Seq(DOMAIN s) /\ F!ToSet(places) = DOMAIN s
    <2>1. places \in Seq(DOMAIN s) /\ DOMAIN places = DOMAIN s
      BY <1>1
    <2>2. \A i \in DOMAIN s : places[i] = i
      OBVIOUS
    <2>. HIDE DEF places
    <2>3. {places[i] : i \in DOMAIN places} = DOMAIN s
      BY <2>1, <2>2
    <2>. QED  BY <2>1, <2>3 DEF F!ToSet
  <1>. HIDE DEF places
  <1>4. kept \in Seq(DOMAIN s) /\ F!ToSet(kept) = out
    BY <1>3, SievedMembers
  <1>. HIDE DEF kept, out
  <1>5. DOMAIN kept = 1..Len(kept) /\ Len(kept) \in Nat /\ \A n \in DOMAIN kept : kept[n] \in DOMAIN s
    BY <1>4
  <1>6. \A i \in DOMAIN s : s[i] \in F!ToSet(s)
    BY DEF F!ToSet
  <1>7. F!Extra(r) \in Seq(F!ToSet(s))
    BY <1>2, <1>5, <1>6
  <1>8. F!ToSet(F!Extra(r)) = {s[i] : i \in out}
    BY <1>2, <1>4 DEF F!ToSet
  <1>. QED  BY <1>7, <1>8 DEF out

\* Names with an empty box each are rows of headers.
LEMMA HeaderRows ==
  ASSUME NEW S, NEW l \in Seq(S), S \subseteq STRING
  PROVE  [n \in DOMAIN l |-> [name |-> l[n], value |-> ""]] \in Seq([name : STRING, value : STRING])
  <1>. DEFINE row(n) == [name |-> l[n], value |-> ""]
              T == [name : STRING, value : STRING]
  <1>2. "" \in STRING
    BY PicksTyped
  <1>3. DOMAIN l = 1..Len(l) /\ Len(l) \in Nat /\ \A n \in DOMAIN l : l[n] \in S
    OBVIOUS
  <1>4. \A n \in DOMAIN l : row(n) \in T
    BY <1>2, <1>3
  <1>. HIDE DEF row, T
  <1>5. [n \in DOMAIN l |-> row(n)] \in Seq(T)
    BY <1>3, <1>4
  <1>. QED  BY <1>5 DEF row, T

\* A rule makes a sheet.
LEMMA RuleMakesSheet ==
  ASSUME NEW r \in Rules
  PROVE  F!draftOf(r) \in Sheets /\ Len(F!draftOf(r).clear) <= 1
         /\ Len(F!draftOf(r).webhook) <= 1 /\ Len(F!draftOf(r).publish) <= 1
  <1>. DEFINE d == F!draftOf(r)
              clear == [i \in DOMAIN r.clear |-> F!conditionDraft(r.clear[i])]
              hook == F!webhookDraft(F!Actions(r, "webhook")[1])
              published == F!Actions(r, "publish")[1]
  <1>1. r.condition \in Shown /\ \A c \in F!ToSet(r.clear) : c \in Shown
    BY DEF Shown
  <1>2. F!conditionDraft(r.condition) \in Conditions
    BY <1>1, RulesTyped, ConditionThereAndBack
  <1>3. clear \in Seq(Conditions) /\ Len(clear) <= 1
    <2>1. r.clear \in Seq(F!ToSet(r.clear)) /\ Len(r.clear) <= 1 /\ DOMAIN r.clear = 1..Len(r.clear) /\ Len(r.clear) \in Nat
      BY RulesTyped
    <2>2. \A i \in DOMAIN r.clear : r.clear[i] \in F!ToSet(r.clear)
      BY DEF F!ToSet
    <2>3. \A i \in DOMAIN r.clear : F!conditionDraft(r.clear[i]) \in Conditions
      BY <1>1, <2>2, RulesTyped, ConditionThereAndBack
    <2>. QED  BY <2>1, <2>3
  <1>4. (IF r.for = <<>> THEN "" ELSE Text(r.for[1])) \in F!Texts
    <2>1. r.for \in Seq(F!Amounts)
      BY RulesTyped
    <2>2. CASE r.for # <<>>
      <3>1. r.for[1] \in F!Amounts
        BY <2>1, <2>2
      <3>. QED  BY <2>2, <3>1, TextsRead
    <2>3. "" \in F!Texts
      BY TextsRead, Zenon
    <2>. QED  BY <2>2, <2>3
  <1>5. ASSUME F!Has(r, "webhook")  PROVE hook \in Hooks
    <2>1. PICK i \in DOMAIN r.actions : r.actions[i].type = "webhook" /\ F!Actions(r, "webhook")[1] = r.actions[i]
      BY <1>5, FirstChannel
    <2>. DEFINE a == r.actions[i]
    <2>2. F!IsChannel(a)
      BY RulesTyped DEF F!ToSet
    <2>3. a \in [type : {"webhook"}, url : STRING, names : Seq(STRING \ {""})]
      BY <2>1, <2>2 DEF F!IsChannel
    <2>4. hook = [url |-> a.url, headers |-> [n \in DOMAIN a.names |-> [name |-> a.names[n], value |-> ""]]]
      BY <2>1 DEF F!webhookDraft
    <2>5. a.names \in Seq(STRING \ {""}) /\ a.url \in STRING
      BY <2>3
    <2>6. [n \in DOMAIN a.names |-> [name |-> a.names[n], value |-> ""]] \in Seq([name : STRING, value : STRING])
      <3>1. STRING \ {""} \subseteq STRING
        BY Zenon
      <3>. HIDE DEF a
      <3>. QED  BY <2>5, <3>1, HeaderRows, Zenon
    <2>. HIDE DEF hook, a
    <2>. QED  BY <2>4, <2>5, <2>6 DEF Hooks
  <1>6. ASSUME F!Has(r, "publish")  PROVE published \in Publications
    <2>1. PICK i \in DOMAIN r.actions : r.actions[i].type = "publish" /\ published = r.actions[i]
      BY <1>6, FirstChannel
    <2>2. F!IsChannel(r.actions[i])
      BY RulesTyped DEF F!ToSet
    <2>. QED  BY <2>1, <2>2 DEF F!IsChannel, Publications
  <1>7. F!Extra(r) \in Seq(Undrawn)
    <2>1. F!ToSet(r.actions) \subseteq Undrawn
      BY DEF Undrawn
    <2>. QED  BY <2>1, ExtraMembers
  <1>8. d = [name |-> r.name, filter |-> r.filter, condition |-> F!conditionDraft(r.condition),
             clear |-> clear, for |-> IF r.for = <<>> THEN "" ELSE Text(r.for[1]),
             screen |-> F!Has(r, "screen"), sound |-> F!Has(r, "sound"),
             webhook |-> IF F!Has(r, "webhook") THEN <<hook>> ELSE <<>>,
             publish |-> IF F!Has(r, "publish") THEN <<published>> ELSE <<>>,
             extra |-> F!Extra(r)]
    BY DEF F!draftOf
  <1>9. F!Has(r, "screen") \in BOOLEAN /\ F!Has(r, "sound") \in BOOLEAN
    BY DEF F!Has
  <1>10. r.name \in STRING /\ r.filter \in Seq(STRING)
    BY RulesTyped
  <1>. HIDE DEF d, clear, hook, published
  <1>11. (IF F!Has(r, "webhook") THEN <<hook>> ELSE <<>>) \in Seq(Hooks)
         /\ Len(IF F!Has(r, "webhook") THEN <<hook>> ELSE <<>>) <= 1
    BY <1>5
  <1>12. (IF F!Has(r, "publish") THEN <<published>> ELSE <<>>) \in Seq(Publications)
         /\ Len(IF F!Has(r, "publish") THEN <<published>> ELSE <<>>) <= 1
    BY <1>6
  <1>13. d \in Sheets
    BY <1>2, <1>3, <1>4, <1>7, <1>8, <1>9, <1>10, <1>11, <1>12, Zenon DEF Sheets
  <1>14. d.clear = clear /\ d.webhook = (IF F!Has(r, "webhook") THEN <<hook>> ELSE <<>>)
         /\ d.publish = (IF F!Has(r, "publish") THEN <<published>> ELSE <<>>)
    BY <1>8
  <1>. QED  BY <1>3, <1>11, <1>12, <1>13, <1>14 DEF d

-----------------------------------------------------------------------------
(* What the form holds, whatever is done to it.                              *)

SheetTypes ==
  /\ draft \in Sheets /\ rule \in Seq(Rules) /\ Len(rule) <= 1
  /\ touched \subseteq {"name", "filter", "for", "condition", "clear", "actions"}
  /\ Len(draft.clear) <= 1 /\ Len(draft.webhook) <= 1 /\ Len(draft.publish) <= 1

\* A part nobody has touched is as the rule made it.
AsMade(d) ==
  /\ "name" \in touched \/ draft.name = d.name
  /\ "filter" \in touched \/ draft.filter = d.filter
  /\ "for" \in touched \/ draft.for = d.for
  /\ "condition" \in touched \/ draft.condition = d.condition
  /\ "clear" \in touched \/ draft.clear = d.clear
  /\ "actions" \in touched \/ /\ draft.screen = d.screen /\ draft.sound = d.sound
                              /\ draft.webhook = d.webhook /\ draft.publish = d.publish
  /\ draft.extra = d.extra

UntouchedStands == rule # <<>> => AsMade(F!draftOf(rule[1]))

FormInv == SheetTypes /\ UntouchedStands

\* A list of at most one.
LEMMA ShortList ==
  ASSUME NEW S, NEW l, l = <<>> \/ \E x \in S : l = <<x>>
  PROVE  l \in Seq(S) /\ Len(l) <= 1
  <1>1. CASE l = <<>>
    BY <1>1
  <1>2. ASSUME NEW x \in S, l = <<x>>  PROVE l \in Seq(S) /\ Len(l) <= 1
    BY <1>2
  <1>. QED  BY <1>1, <1>2

LEMMA FormOpens == F!Init => FormInv
  <1>. SUFFICES ASSUME F!Init  PROVE FormInv
    OBVIOUS
  <1>1. touched = {}
    BY DEF F!Init
  <1>2. CASE rule = <<>> /\ draft = F!blankDraft
    <2>1. F!blankCondition("threshold") \in Conditions
      BY BlankBox DEF F!SIMPLE_TYPES, Conditions, Boxes
    <2>2. "" \in F!Texts /\ "" \in STRING
      BY TextsRead, PicksTyped, Zenon
    <2>3. <<>> \in Seq(Conditions) /\ <<>> \in Seq(Hooks) /\ <<>> \in Seq(Publications) /\ <<>> \in Seq(Undrawn)
          /\ <<>> \in Seq(Rules) /\ Len(<<>>) <= 1 /\ <<"">> \in Seq(STRING)
      BY <2>2, ShortList, Zenon
    <2>4. draft = [name |-> "", filter |-> <<"">>, condition |-> F!blankCondition("threshold"), clear |-> <<>>,
                   for |-> "", screen |-> TRUE, sound |-> FALSE, webhook |-> <<>>, publish |-> <<>>,
                   extra |-> <<>>]
      BY <1>2 DEF F!blankDraft
    <2>5. draft \in Sheets
      BY <2>1, <2>2, <2>3, <2>4, Zenon DEF Sheets
    <2>6. draft.clear = <<>> /\ draft.webhook = <<>> /\ draft.publish = <<>>
      BY <2>4
    <2>7. Len(draft.clear) <= 1 /\ Len(draft.webhook) <= 1 /\ Len(draft.publish) <= 1 /\ Len(rule) <= 1
      BY <1>2, <2>3, <2>6, Zenon
    <2>. QED  BY <1>1, <1>2, <2>3, <2>5, <2>7 DEF FormInv, SheetTypes, UntouchedStands
  <1>3. ASSUME NEW r \in Rules, rule = <<r>>, draft = F!draftOf(r)  PROVE FormInv
    <2>1. rule \in Seq(Rules) /\ Len(rule) = 1 /\ rule[1] = r
      BY <1>3
    <2>2. SheetTypes
      BY <1>1, <1>3, <2>1, RuleMakesSheet DEF SheetTypes
    <2>3. UntouchedStands
      BY <1>3, <2>1, Zenon DEF UntouchedStands, AsMade
    <2>. QED  BY <2>2, <2>3 DEF FormInv
  <1>. QED  BY <1>2, <1>3 DEF F!Init

\* What one edit must keep to.
LEMMA EditKeeps ==
  ASSUME FormInv, NEW part_ \in {"name", "filter", "for", "condition", "clear", "actions"}, NEW d \in Sheets,
         F!Edit(part_, d), Len(d.clear) <= 1, Len(d.webhook) <= 1, Len(d.publish) <= 1,
         part_ # "name" => d.name = draft.name, part_ # "filter" => d.filter = draft.filter,
         part_ # "for" => d.for = draft.for, part_ # "condition" => d.condition = draft.condition,
         part_ # "clear" => d.clear = draft.clear,
         part_ # "actions" => /\ d.screen = draft.screen /\ d.sound = draft.sound
                              /\ d.webhook = draft.webhook /\ d.publish = draft.publish,
         d.extra = draft.extra
  PROVE  FormInv'
  <1>1. draft' = d /\ touched' = touched \cup {part_} /\ rule' = rule
    BY DEF F!Edit
  <1>2. SheetTypes'
    BY <1>1 DEF FormInv, SheetTypes
  <1>3. UntouchedStands'
    <2>. SUFFICES ASSUME rule # <<>>  PROVE UntouchedStands'
      BY <1>1 DEF UntouchedStands
    <2>. DEFINE o == F!draftOf(rule[1])
    <2>1. F!draftOf(rule'[1]) = o
      BY <1>1
    <2>2. AsMade(o)
      BY DEF FormInv, UntouchedStands
    <2>. HIDE DEF o
    <2>3. /\ "name" \in touched' \/ draft'.name = o.name
          /\ "filter" \in touched' \/ draft'.filter = o.filter
          /\ "for" \in touched' \/ draft'.for = o.for
          /\ "condition" \in touched' \/ draft'.condition = o.condition
          /\ "clear" \in touched' \/ draft'.clear = o.clear
          /\ draft'.extra = o.extra
      BY <1>1, <2>2 DEF AsMade
    <2>4. "actions" \in touched' \/ /\ draft'.screen = o.screen /\ draft'.sound = o.sound
                                    /\ draft'.webhook = o.webhook /\ draft'.publish = o.publish
      BY <1>1, <2>2, Zenon DEF AsMade
    <2>. QED  BY <2>1, <2>3, <2>4, Zenon DEF UntouchedStands, AsMade
  <1>. QED  BY <1>2, <1>3 DEF FormInv

\* A list of rows stays one whichever of them is added, taken out or written in.
LEMMA RowsStay ==
  ASSUME NEW s \in Seq([name : STRING, value : STRING]), NEW e \in F!Rows(s)
  PROVE  e \in Seq([name : STRING, value : STRING])
  <1>. DEFINE Row == [name : STRING, value : STRING]
              put(i) == F!Put(s[i], {"name"}, Headers) \cup F!Put(s[i], {"value"}, Secrets)
  <1>0. s \in Seq(Row)
    OBVIOUS
  <1>1. \/ e = Append(s, [name |-> "", value |-> ""])
        \/ \E i \in DOMAIN s : e = F!RemoveAt(s, i)
        \/ \E i \in DOMAIN s : \E h \in put(i) : e = [s EXCEPT ![i] = h]
    <2>1. \/ e = Append(s, [name |-> "", value |-> ""])
          \/ \E i \in DOMAIN s : e = F!RemoveAt(s, i)
          \/ e \in UNION {{[s EXCEPT ![i] = h] : h \in put(i)} : i \in DOMAIN s}
      BY DEF F!Rows
    <2>2. e \in UNION {{[s EXCEPT ![i] = h] : h \in put(i)} : i \in DOMAIN s}
            => \E i \in DOMAIN s : \E h \in put(i) : e = [s EXCEPT ![i] = h]
      <3>. HIDE DEF put
      <3>. QED  BY Zenon
    <2>. QED  BY <2>1, <2>2
  <1>2. [name |-> "", value |-> ""] \in Row
    BY PicksTyped
  <1>3. \A i \in DOMAIN s : s[i] \in Row
    BY <1>2, PutKeeps, Zenon
  <1>4. ASSUME NEW i \in DOMAIN s, NEW h \in put(i)  PROVE h \in Row
    <2>1. \/ \E n \in Headers : h = [s[i] EXCEPT !["name"] = n]
          \/ \E v \in Secrets : h = [s[i] EXCEPT !["value"] = v]
      BY <1>3, <1>4 DEF F!Put
    <2>. QED  BY <1>3, <2>1, PicksTyped
  <1>. HIDE DEF Row, put
  <1>5. ASSUME e = Append(s, [name |-> "", value |-> ""])  PROVE e \in Seq(Row)
    BY <1>0, <1>2, <1>5, PutKeeps, Zenon
  <1>6. ASSUME NEW i \in DOMAIN s, e = F!RemoveAt(s, i)  PROVE e \in Seq(Row)
    BY <1>0, <1>6, RemoveKeeps, Zenon
  <1>7. ASSUME NEW i \in DOMAIN s, NEW x \in Row, e = [s EXCEPT ![i] = x]  PROVE e \in Seq(Row)
    BY <1>0, <1>7, PutKeeps, Zenon
  <1>8. e \in Seq(Row)
    BY <1>1, <1>4, <1>5, <1>6, <1>7, Zenon
  <1>. QED  BY <1>8 DEF Row

\* A webhook keeps its shape whichever row of it is written in.
LEMMA HookStays ==
  ASSUME NEW w \in Hooks, NEW e \in F!EditedWebhook(w)
  PROVE  e \in Hooks
  <1>. DEFINE Row == [name : STRING, value : STRING]
  <1>1. w \in [url : STRING, headers : Seq(Row)] /\ w.headers \in Seq(Row)
    BY DEF Hooks
  <1>2. \/ \E u \in Addresses : e = [w EXCEPT !.url = u]
        \/ \E l \in F!Rows(w.headers) : e = [w EXCEPT !.headers = l]
    BY DEF F!EditedWebhook
  <1>3. ASSUME NEW u \in Addresses, e = [w EXCEPT !.url = u]  PROVE e \in Hooks
    BY <1>1, <1>3, PicksTyped DEF Hooks
  <1>4. ASSUME NEW l \in F!Rows(w.headers), e = [w EXCEPT !.headers = l]  PROVE e \in Hooks
    <2>1. l \in Seq(Row)
      BY <1>1, RowsStay, Zenon
    <2>. QED  BY <1>1, <1>4, <2>1 DEF Hooks
  <1>. QED  BY <1>2, <1>3, <1>4

LEMMA FormKept == FormInv /\ [F!Next]_(F!vars) => FormInv'
  <1>. SUFFICES ASSUME FormInv, [F!Next]_(F!vars)  PROVE FormInv'
    OBVIOUS
  <1>1. /\ draft \in Sheets /\ Len(draft.clear) <= 1 /\ Len(draft.webhook) <= 1 /\ Len(draft.publish) <= 1
    BY DEF FormInv, SheetTypes
  <1>2. /\ draft.condition \in Conditions /\ draft.clear \in Seq(Conditions)
        /\ draft.webhook \in Seq(Hooks) /\ draft.publish \in Seq(Publications)
    BY <1>1 DEF Sheets
  <1>3. CASE F!EditCondition
    <2>1. PICK c \in F!ConditionFields(draft.condition) : F!Edit("condition", [draft EXCEPT !.condition = c])
      BY <1>3 DEF F!EditCondition
    <2>2. c \in Conditions
      BY <1>2, <2>1, ConditionStays
    <2>3. [draft EXCEPT !.condition = c] \in Sheets
      BY <1>1, <2>2 DEF Sheets
    <2>. QED  BY <1>1, <2>1, <2>3, EditKeeps DEF Sheets
  <1>4. CASE F!EditClear
    <2>1. PICK c : /\ c \in (IF draft.clear = <<>> THEN {<<F!blankCondition("threshold")>>}
                             ELSE {<<>>} \cup {<<x>> : x \in F!ConditionFields(draft.clear[1])})
                   /\ F!Edit("clear", [draft EXCEPT !.clear = c])
      BY <1>4 DEF F!EditClear
    <2>2. c \in Seq(Conditions) /\ Len(c) <= 1
      <3>1. F!blankCondition("threshold") \in Conditions
        BY BlankBox DEF F!SIMPLE_TYPES, Conditions, Boxes
      <3>2. ASSUME draft.clear # <<>>, NEW x \in F!ConditionFields(draft.clear[1])  PROVE x \in Conditions
        <4>1. draft.clear[1] \in Conditions
          BY <1>2, <3>2
        <4>. QED  BY <3>2, <4>1, ConditionStays
      <3>3. \/ c = <<>>
            \/ \E x \in Conditions : c = <<x>>
        BY <2>1, <3>1, <3>2
      <3>. QED  BY <3>3, ShortList, Zenon
    <2>3. [draft EXCEPT !.clear = c] \in Sheets
      BY <1>1, <2>2 DEF Sheets
    <2>. QED  BY <1>1, <2>1, <2>2, <2>3, EditKeeps DEF Sheets
  <1>5. CASE F!EditWords
    <2>1. ASSUME NEW n \in Names, F!Edit("name", [draft EXCEPT !.name = n])  PROVE FormInv'
      <3>1. [draft EXCEPT !.name = n] \in Sheets
        BY <1>1, PicksTyped DEF Sheets
      <3>. QED  BY <1>1, <2>1, <3>1, EditKeeps DEF Sheets
    <2>2. ASSUME NEW f \in Filters, F!Edit("filter", [draft EXCEPT !.filter = f])  PROVE FormInv'
      <3>1. [draft EXCEPT !.filter = f] \in Sheets
        BY <1>1, PicksTyped DEF Sheets
      <3>. QED  BY <1>1, <2>2, <3>1, EditKeeps DEF Sheets
    <2>3. ASSUME NEW t \in F!Texts, F!Edit("for", [draft EXCEPT !.for = t])  PROVE FormInv'
      <3>1. [draft EXCEPT !.for = t] \in Sheets
        BY <1>1 DEF Sheets
      <3>. QED  BY <1>1, <2>3, <3>1, EditKeeps DEF Sheets
    <2>4. ASSUME F!Edit("actions", [draft EXCEPT !.screen = ~@])  PROVE FormInv'
      <3>1. [draft EXCEPT !.screen = ~@] \in Sheets
        BY <1>1 DEF Sheets
      <3>. QED  BY <1>1, <2>4, <3>1, EditKeeps DEF Sheets
    <2>5. ASSUME F!Edit("actions", [draft EXCEPT !.sound = ~@])  PROVE FormInv'
      <3>1. [draft EXCEPT !.sound = ~@] \in Sheets
        BY <1>1 DEF Sheets
      <3>. QED  BY <1>1, <2>5, <3>1, EditKeeps DEF Sheets
    <2>. QED  BY <1>5, <2>1, <2>2, <2>3, <2>4, <2>5 DEF F!EditWords
  <1>6. CASE F!EditWebhook
    <2>1. PICK w : /\ w \in (IF draft.webhook = <<>> THEN {<<[url |-> "", headers |-> <<>>]>>}
                             ELSE {<<>>} \cup {<<x>> : x \in F!EditedWebhook(draft.webhook[1])})
                   /\ F!Edit("actions", [draft EXCEPT !.webhook = w])
      BY <1>6 DEF F!EditWebhook
    <2>2. w \in Seq(Hooks) /\ Len(w) <= 1
      <3>1. [url |-> "", headers |-> <<>>] \in Hooks
        <4>1. <<>> \in Seq([name : STRING, value : STRING])
          BY ShortList, Zenon
        <4>. QED  BY <4>1, PicksTyped, Zenon DEF Hooks
      <3>2. ASSUME draft.webhook # <<>>, NEW x \in F!EditedWebhook(draft.webhook[1])  PROVE x \in Hooks
        <4>1. draft.webhook[1] \in Hooks
          BY <1>2, <3>2
        <4>. QED  BY <3>2, <4>1, HookStays
      <3>3. \/ w = <<>>
            \/ \E x \in Hooks : w = <<x>>
        BY <2>1, <3>1, <3>2
      <3>. QED  BY <3>3, ShortList, Zenon
    <2>3. [draft EXCEPT !.webhook = w] \in Sheets
      BY <1>1, <2>2 DEF Sheets
    <2>. QED  BY <1>1, <2>1, <2>2, <2>3, EditKeeps DEF Sheets
  <1>7. CASE F!EditPublish
    <2>1. PICK p : /\ p \in (IF draft.publish = <<>> THEN {<<[type |-> "publish", topic |-> <<>>, retain |-> FALSE]>>}
                             ELSE {<<>>} \cup {<<[draft.publish[1] EXCEPT !.topic = t]>> : t \in Topics}
                                         \cup {<<[draft.publish[1] EXCEPT !.retain = ~@]>>})
                   /\ F!Edit("actions", [draft EXCEPT !.publish = p])
      BY <1>7 DEF F!EditPublish
    <2>2. p \in Seq(Publications) /\ Len(p) <= 1
      <3>1. [type |-> "publish", topic |-> <<>>, retain |-> FALSE] \in Publications
        BY DEF Publications
      <3>2. ASSUME draft.publish # <<>>
            PROVE  /\ \A t \in Topics : [draft.publish[1] EXCEPT !.topic = t] \in Publications
                   /\ [draft.publish[1] EXCEPT !.retain = ~@] \in Publications
        <4>1. draft.publish[1] \in Publications
          BY <1>2, <3>2
        <4>. QED  BY <4>1, PicksTyped DEF Publications
      <3>3. \/ p = <<>>
            \/ \E x \in Publications : p = <<x>>
        BY <2>1, <3>1, <3>2
      <3>. QED  BY <3>3, ShortList, Zenon
    <2>3. [draft EXCEPT !.publish = p] \in Sheets
      BY <1>1, <2>2 DEF Sheets
    <2>. QED  BY <1>1, <2>1, <2>2, <2>3, EditKeeps DEF Sheets
  <1>8. CASE UNCHANGED F!vars
    BY <1>8 DEF FormInv, SheetTypes, UntouchedStands, AsMade, F!vars
  <1>. QED  BY <1>3, <1>4, <1>5, <1>6, <1>7, <1>8 DEF F!Next

LEMMA FormAlways == F!Spec => []FormInv
  BY FormOpens, FormKept, PTL DEF F!Spec

-----------------------------------------------------------------------------
(* The channels a sheet is sent with.                                        *)

\* Of finitely many places one is the last.
LEMMA LastPlace ==
  ASSUME NEW N \in Nat, NEW I \in SUBSET (1..N), I # {}
  PROVE  \E m \in I : \A j \in I : j <= m
  <1>. DEFINE T == {n \in Nat : \A J \in SUBSET (1..n) : J # {} => \E m \in J : \A j \in J : j <= m}
  <1>1. 0 \in T
    <2>1. \A J \in SUBSET (1..0) : J = {}
      OBVIOUS
    <2>. QED  BY <2>1
  <1>2. ASSUME NEW n \in Nat, n \in T  PROVE n + 1 \in T
    <2>. SUFFICES ASSUME NEW J \in SUBSET (1..n + 1), J # {}
                  PROVE  \E m \in J : \A j \in J : j <= m
      OBVIOUS
    <2>1. CASE n + 1 \in J
      BY <2>1
    <2>2. CASE n + 1 \notin J
      <3>1. J \in SUBSET (1..n)
        BY <2>2
      <3>. QED  BY <1>2, <3>1
    <2>. QED  BY <2>1, <2>2
  <1>. HIDE DEF T
  <1>3. N \in T
    BY <1>1, <1>2, Numbers
  <1>. QED  BY <1>3 DEF T

\* The headers of a webhook that is sent: a map of the names there are, to what a row of that
\* name says.
LEMMA HookSent ==
  ASSUME NEW w \in Hooks
  PROVE  \E H : /\ F!webhookOf(w) = [type |-> "webhook", url |-> w.url, headers |-> H]
                /\ H = [n \in {h.name : h \in {g \in F!ToSet(w.headers) : g.name # ""}} |-> H[n]]
                /\ \A n \in {h.name : h \in {g \in F!ToSet(w.headers) : g.name # ""}} :
                     \E h \in F!ToSet(w.headers) : h.name = n /\ H[n] = h.value
  <1>. DEFINE rows == {g \in F!ToSet(w.headers) : g.name # ""}
              named == F!Named(w)
              last(n) == CHOOSE i \in DOMAIN named : /\ named[i].name = n
                                                     /\ \A j \in i + 1..Len(named) : named[j].name # n
              H == [n \in {named[i].name : i \in DOMAIN named} |-> named[last(n)].value]
  <1>1. F!webhookOf(w) = [type |-> "webhook", url |-> w.url, headers |-> H]
    BY DEF F!webhookOf
  <1>2. w.headers \in Seq([name : STRING, value : STRING])
    BY DEF Hooks
  <1>3. named \in Seq([name : STRING, value : STRING]) /\ F!ToSet(named) = F!ToSet(w.headers) \cap rows
    <2>1. named = F!Sieved(w.headers, rows)
      BY DEF F!Named
    <2>. HIDE DEF named, rows
    <2>. QED  BY <1>2, <2>1, SievedMembers, Zenon
  <1>. HIDE DEF named
  <1>4. DOMAIN named = 1..Len(named) /\ Len(named) \in Nat
    <2>. DEFINE Row == [name : STRING, value : STRING]
    <2>1. named \in Seq(Row)
      BY <1>3
    <2>. HIDE DEF Row
    <2>. QED  BY <2>1, LenProperties
  <1>5. F!ToSet(named) = rows
    BY <1>3
  <1>6. {named[i].name : i \in DOMAIN named} = {h.name : h \in rows}
    <2>. HIDE DEF rows
    <2>. QED  BY <1>5 DEF F!ToSet
  <1>7. ASSUME NEW n \in {named[i].name : i \in DOMAIN named}
        PROVE  last(n) \in DOMAIN named /\ named[last(n)].name = n
    <2>. DEFINE I == {i \in DOMAIN named : named[i].name = n}
    <2>1. I \in SUBSET (1..Len(named)) /\ I # {}
      BY <1>4, <1>7
    <2>2. PICK m \in I : \A j \in I : j <= m
      BY <1>4, <2>1, LastPlace
    <2>3. \A j \in m + 1..Len(named) : named[j].name # n
      BY <1>4, <2>2
    <2>. QED  BY <2>2, <2>3
  <1>8. \A n \in {h.name : h \in rows} : \E h \in F!ToSet(w.headers) : h.name = n /\ H[n] = h.value
    <2>. TAKE n \in {h.name : h \in rows}
    <2>1. n \in {named[i].name : i \in DOMAIN named}
      BY <1>6
    <2>2. last(n) \in DOMAIN named /\ named[last(n)].name = n
      BY <1>7, <2>1
    <2>3. named[last(n)] \in F!ToSet(w.headers)
      BY <1>5, <2>2 DEF F!ToSet
    <2>4. H[n] = named[last(n)].value
      BY <2>1
    <2>. QED  BY <2>2, <2>3, <2>4
  <1>9. H = [n \in {h.name : h \in rows} |-> H[n]]
    <2>. HIDE DEF last, rows
    <2>1. DOMAIN H = {h.name : h \in rows} /\ H = [n \in DOMAIN H |-> H[n]]
      BY <1>6
    <2>. HIDE DEF H, rows
    <2>. QED  BY <2>1
  <1>. HIDE DEF H, last
  <1>. QED  BY <1>1, <1>8, <1>9 DEF rows

LEMMA JoinedMembers ==
  ASSUME NEW S, NEW s \in Seq(S), NEW t \in Seq(S)
  PROVE  s \o t \in Seq(S) /\ F!ToSet(s \o t) = F!ToSet(s) \cup F!ToSet(t)
  <1>1. /\ s \o t \in Seq(S) /\ Len(s \o t) = Len(s) + Len(t) /\ Len(s) \in Nat /\ Len(t) \in Nat
        /\ \A i \in 1..Len(s) : (s \o t)[i] = s[i]
        /\ \A i \in 1..Len(t) : (s \o t)[i + Len(s)] = t[i]
    OBVIOUS
  <1>2. DOMAIN s = 1..Len(s) /\ DOMAIN t = 1..Len(t) /\ DOMAIN (s \o t) = 1..Len(s) + Len(t)
    BY <1>1
  <1>3. ASSUME NEW i \in DOMAIN (s \o t)
        PROVE  (s \o t)[i] \in F!ToSet(s) \cup F!ToSet(t)
    <2>1. CASE i <= Len(s)
      <3>1. i \in DOMAIN s /\ (s \o t)[i] = s[i]
        BY <1>1, <1>2, <2>1
      <3>. QED  BY <3>1 DEF F!ToSet
    <2>2. CASE i > Len(s)
      <3>1. i - Len(s) \in DOMAIN t /\ (s \o t)[(i - Len(s)) + Len(s)] = t[i - Len(s)] /\ (i - Len(s)) + Len(s) = i
        BY <1>1, <1>2, <2>2
      <3>. QED  BY <3>1 DEF F!ToSet
    <2>. QED  BY <1>1, <1>2, <2>1, <2>2
  <1>4. \A i \in DOMAIN s : s[i] \in F!ToSet(s \o t)
    <2>. TAKE i \in DOMAIN s
    <2>1. i \in DOMAIN (s \o t) /\ (s \o t)[i] = s[i]
      BY <1>1, <1>2
    <2>. QED  BY <2>1 DEF F!ToSet
  <1>5. \A i \in DOMAIN t : t[i] \in F!ToSet(s \o t)
    <2>. TAKE i \in DOMAIN t
    <2>1. i + Len(s) \in DOMAIN (s \o t) /\ (s \o t)[i + Len(s)] = t[i]
      BY <1>1, <1>2
    <2>. QED  BY <2>1 DEF F!ToSet
  <1>6. \A e \in F!ToSet(s \o t) : e \in F!ToSet(s) \cup F!ToSet(t)
    BY <1>3 DEF F!ToSet
  <1>7. \A e \in F!ToSet(s) \cup F!ToSet(t) : e \in F!ToSet(s \o t)
    <2>1. \A e \in F!ToSet(s) : \E i \in DOMAIN s : e = s[i]
      BY DEF F!ToSet
    <2>2. \A e \in F!ToSet(t) : \E i \in DOMAIN t : e = t[i]
      BY DEF F!ToSet
    <2>. QED  BY <1>4, <1>5, <2>1, <2>2
  <1>. QED  BY <1>1, <1>6, <1>7

\* What a sheet is sent with, channel by channel.
Screens(d) == IF d.screen THEN {[type |-> "screen"]} ELSE {}
Sounds(d)  == IF d.sound THEN {[type |-> "sound"]} ELSE {}
Posts(d)   == {F!webhookOf(w) : w \in F!ToSet(d.webhook)}
Sent(d)    == Screens(d) \cup Sounds(d) \cup Posts(d) \cup F!ToSet(d.publish) \cup F!ToSet(d.extra)

LEMMA ChannelsSent ==
  ASSUME NEW d \in Sheets
  PROVE  /\ F!ToSet(F!ruleOf(d).actions) = Sent(d)
         /\ \A i \in DOMAIN F!ruleOf(d).actions : F!ruleOf(d).actions[i] \in Sent(d)
  <1>. DEFINE a == IF d.screen THEN <<[type |-> "screen"]>> ELSE <<>>
              b == IF d.sound THEN <<[type |-> "sound"]>> ELSE <<>>
              c == [i \in DOMAIN d.webhook |-> F!webhookOf(d.webhook[i])]
              S == Sent(d)
  <1>1. F!ruleOf(d).actions = a \o b \o c \o d.publish \o d.extra
    BY DEF F!ruleOf
  <1>2. d.webhook \in Seq(Hooks) /\ d.publish \in Seq(Publications) /\ d.extra \in Seq(Undrawn)
    BY DEF Sheets
  <1>3. Screens(d) \subseteq S /\ Sounds(d) \subseteq S /\ Posts(d) \subseteq S
        /\ F!ToSet(d.publish) \subseteq S /\ F!ToSet(d.extra) \subseteq S
    BY DEF Sent
  <1>. HIDE DEF S
  <1>4. a \in Seq(S) /\ F!ToSet(a) = Screens(d)
    <2>1. CASE d.screen
      BY <1>3, <2>1 DEF Screens, F!ToSet
    <2>2. CASE ~d.screen
      BY <1>3, <2>2 DEF Screens, F!ToSet
    <2>. QED  BY <2>1, <2>2
  <1>5. b \in Seq(S) /\ F!ToSet(b) = Sounds(d)
    <2>1. CASE d.sound
      BY <1>3, <2>1 DEF Sounds, F!ToSet
    <2>2. CASE ~d.sound
      BY <1>3, <2>2 DEF Sounds, F!ToSet
    <2>. QED  BY <2>1, <2>2
  <1>6. c \in Seq(S) /\ F!ToSet(c) = Posts(d)
    <2>1. DOMAIN d.webhook = 1..Len(d.webhook) /\ Len(d.webhook) \in Nat
      BY <1>2
    <2>2. \A i \in DOMAIN d.webhook : F!webhookOf(d.webhook[i]) \in Posts(d)
      BY DEF Posts, F!ToSet
    <2>3. c \in Seq(S)
      BY <1>3, <2>1, <2>2
    <2>4. F!ToSet(c) = Posts(d)
      BY DEF Posts, F!ToSet
    <2>. QED  BY <2>3, <2>4
  <1>. HIDE DEF a, b, c
  <1>7. d.publish \in Seq(S) /\ d.extra \in Seq(S)
    <2>1. ASSUME NEW X, NEW l \in Seq(X), F!ToSet(l) \subseteq S  PROVE l \in Seq(S)
      <3>1. DOMAIN l = 1..Len(l) /\ Len(l) \in Nat /\ \A i \in DOMAIN l : l[i] \in S
        BY <2>1 DEF F!ToSet
      <3>2. l = [i \in 1..Len(l) |-> l[i]]
        BY <2>1
      <3>. QED  BY <3>1, <3>2
    <2>. QED  BY <1>2, <1>3, <2>1
  <1>. DEFINE ab == a \o b
  <1>8. ab \in Seq(S) /\ F!ToSet(ab) = F!ToSet(a) \cup F!ToSet(b)
    BY <1>4, <1>5, JoinedMembers
  <1>. HIDE DEF ab
  <1>. DEFINE abc == ab \o c
  <1>9. abc \in Seq(S) /\ F!ToSet(abc) = F!ToSet(ab) \cup F!ToSet(c)
    BY <1>6, <1>8, JoinedMembers
  <1>. HIDE DEF abc
  <1>. DEFINE abcp == abc \o d.publish
  <1>10. abcp \in Seq(S) /\ F!ToSet(abcp) = F!ToSet(abc) \cup F!ToSet(d.publish)
    BY <1>7, <1>9, JoinedMembers
  <1>. HIDE DEF abcp
  <1>11. F!ToSet(abcp \o d.extra) = F!ToSet(abcp) \cup F!ToSet(d.extra)
    BY <1>7, <1>10, JoinedMembers
  <1>12. F!ToSet(F!ruleOf(d).actions) = S
    <2>1. F!ruleOf(d).actions = abcp \o d.extra
      BY <1>1, Zenon DEF ab, abc, abcp
    <2>. QED  BY <1>4, <1>5, <1>6, <1>8, <1>9, <1>10, <1>11, <2>1, Zenon DEF S, Sent
  <1>. QED  BY <1>12 DEF S, F!ToSet

LEMMA MemberOf ==
  ASSUME NEW S, NEW s \in Seq(S)
  PROVE  \A i \in DOMAIN s : s[i] \in S
  OBVIOUS

\* Rows made of names: of each name one, and its box empty.
BlankRows(l, blank) == [n \in DOMAIN l |-> [name |-> l[n], value |-> blank]]
NamesIn(rows, blank) == {h.name : h \in {g \in F!ToSet(rows) : g.name # blank}}

LEMMA RowsOfNames ==
  ASSUME NEW S, NEW l \in Seq(S), NEW blank, blank \notin S
  PROVE  /\ NamesIn(BlankRows(l, blank), blank) = F!ToSet(l)
         /\ \A h \in F!ToSet(BlankRows(l, blank)) : h.value = blank
  <1>. DEFINE rows == BlankRows(l, blank)
              row(n) == [name |-> l[n], value |-> blank]
              named == {g \in F!ToSet(rows) : g.name # blank}
  <1>1. \A n \in DOMAIN l : l[n] \in S
    BY MemberOf
  <1>2. \A n : row(n).name = l[n] /\ row(n).value = blank
    OBVIOUS
  <1>3. DOMAIN rows = DOMAIN l /\ \A n \in DOMAIN l : rows[n] = row(n)
    BY DEF BlankRows
  <1>. HIDE DEF row, rows
  <1>4. \A h \in F!ToSet(rows) : \E n \in DOMAIN l : h = row(n)
    BY <1>3 DEF F!ToSet
  <1>5. \A n \in DOMAIN l : row(n) \in F!ToSet(rows)
    BY <1>3 DEF F!ToSet
  <1>6. \A h \in F!ToSet(rows) : h.name \in F!ToSet(l) /\ h.value = blank
    BY <1>2, <1>4 DEF F!ToSet
  <1>7. ASSUME NEW x \in F!ToSet(l)
        PROVE  \E h \in named : h.name = x
    <2>1. PICK n \in DOMAIN l : x = l[n]
      BY <1>7 DEF F!ToSet
    <2>2. row(n) \in F!ToSet(rows) /\ row(n).name = x /\ x # blank
      BY <1>1, <1>2, <1>5, <2>1
    <2>. QED  BY <2>2
  <1>8. \A h \in named : h.name \in F!ToSet(l)
    BY <1>6
  <1>. HIDE DEF named
  <1>9. {h.name : h \in named} = F!ToSet(l)
    BY <1>7, <1>8
  <1>. QED  BY <1>6, <1>9 DEF named, NamesIn, rows

\* A webhook somebody opened and did not write in is sent as it was said.
LEMMA HookThereAndBack ==
  ASSUME NEW a \in [type : {"webhook"}, url : STRING, names : Seq(STRING \ {""})]
  PROVE  /\ F!webhookOf(F!webhookDraft(a)) = F!SaidAction(a)
         /\ F!SaidAction(F!SaidAction(a)) = F!SaidAction(a)
  <1>. DEFINE S == STRING \ {""}
              rows == [n \in DOMAIN a.names |-> [name |-> a.names[n], value |-> ""]]
              w == F!webhookDraft(a)
              said == [type |-> "webhook", url |-> a.url, headers |-> [n \in F!ToSet(a.names) |-> ""]]
  <1>1. a.names \in Seq(S) /\ a.url \in STRING /\ a.type = "webhook" /\ "names" \in DOMAIN a
    OBVIOUS
  <1>2. w = [url |-> a.url, headers |-> rows]
    BY DEF F!webhookDraft
  <1>3. F!SaidAction(a) = said
    BY <1>1 DEF F!SaidAction
  <1>4. F!SaidAction(said) = said
    <2>1. DOMAIN said = {"type", "url", "headers"}
      OBVIOUS
    <2>2. "names" \notin DOMAIN said
      BY <2>1
    <2>. HIDE DEF said
    <2>. QED  BY <2>2 DEF F!SaidAction
  <1>5. w \in Hooks /\ w.url = a.url /\ w.headers = rows
    <2>1. S \subseteq STRING
      BY Zenon
    <2>2. rows \in Seq([name : STRING, value : STRING])
      <3>. HIDE DEF S
      <3>. QED  BY <1>1, <2>1, HeaderRows, Zenon
    <2>. HIDE DEF rows, w
    <2>. QED  BY <1>1, <1>2, <2>2 DEF Hooks
  <1>6. "" \notin S
    BY Zenon
  <1>. HIDE DEF rows, S
  <1>. DEFINE names == {h.name : h \in {g \in F!ToSet(w.headers) : g.name # ""}}
  <1>7. /\ {h.name : h \in {g \in F!ToSet(rows) : g.name # ""}} = F!ToSet(a.names)
        /\ \A h \in F!ToSet(rows) : h.value = ""
    <2>. DEFINE l == a.names
                blank == ""
    <2>1. l \in Seq(S) /\ blank \notin S
      BY <1>1, <1>6
    <2>2. rows = BlankRows(l, blank)
      BY DEF BlankRows, rows
    <2>. HIDE DEF l, blank, rows
    <2>3. NamesIn(rows, blank) = F!ToSet(l) /\ \A h \in F!ToSet(rows) : h.value = blank
      BY <2>1, <2>2, RowsOfNames
    <2>. QED  BY <2>3 DEF l, blank, NamesIn
  <1>9. names = F!ToSet(a.names)
    BY <1>5, <1>7
  <1>10. PICK H : /\ F!webhookOf(w) = [type |-> "webhook", url |-> w.url, headers |-> H]
                  /\ H = [n \in names |-> H[n]]
                  /\ \A n \in names : \E h \in F!ToSet(w.headers) : h.name = n /\ H[n] = h.value
    BY <1>5, HookSent
  <1>. HIDE DEF names, w
  <1>11. \A n \in names : H[n] = ""
    BY <1>5, <1>7, <1>10
  <1>12. H = [n \in F!ToSet(a.names) |-> ""]
    BY <1>9, <1>10, <1>11
  <1>. QED  BY <1>3, <1>4, <1>5, <1>10, <1>12 DEF w

\* A sheet as a rule made it is sent to the channels the rule came with.
LEMMA OpenedChannels ==
  ASSUME NEW r \in Rules
  PROVE  {F!SaidAction(a) : a \in Sent(F!draftOf(r))} = {F!SaidAction(a) : a \in F!ToSet(r.actions)}
  <1>. DEFINE d == F!draftOf(r)
              S == {F!SaidAction(a) : a \in Sent(d)}
              hook == F!webhookDraft(F!Actions(r, "webhook")[1])
              published == F!Actions(r, "publish")[1]
              first(i) == \A j \in 1..i - 1 : r.actions[j].type # r.actions[i].type
  <1>1. /\ d.screen = F!Has(r, "screen") /\ d.sound = F!Has(r, "sound")
        /\ d.webhook = (IF F!Has(r, "webhook") THEN <<hook>> ELSE <<>>)
        /\ d.publish = (IF F!Has(r, "publish") THEN <<published>> ELSE <<>>)
        /\ d.extra = F!Extra(r)
    BY DEF F!draftOf
  <1>. HIDE DEF d
  <1>2. DOMAIN r.actions = 1..Len(r.actions) /\ Len(r.actions) \in Nat
    <2>1. r.actions \in Seq(F!ToSet(r.actions))
      BY RulesTyped
    <2>. QED  BY <2>1, LenProperties
  <1>3. \A i \in DOMAIN r.actions : r.actions[i] \in F!ToSet(r.actions) /\ F!IsChannel(r.actions[i])
    BY RulesTyped DEF F!ToSet
  <1>4. \A i, j \in DOMAIN r.actions :
           r.actions[i].type = r.actions[j].type /\ first(i) /\ first(j) => i = j
    <2>. TAKE i, j \in DOMAIN r.actions
    <2>. HAVE r.actions[i].type = r.actions[j].type /\ first(i) /\ first(j)
    <2>1. ~(i < j) /\ ~(j < i)
      BY <1>2
    <2>. QED  BY <1>2, <2>1
  <1>5. \A type : F!Has(r, type) =>
           \E i \in DOMAIN r.actions : /\ r.actions[i].type = type /\ first(i)
                                       /\ F!Actions(r, type)[1] = r.actions[i]
    BY FirstChannel
  <1>6. \A i \in DOMAIN r.actions : F!Has(r, r.actions[i].type)
    BY FirstChannel
  <1>7. \A i \in DOMAIN r.actions : first(i) => F!Actions(r, r.actions[i].type)[1] = r.actions[i]
    <2>. TAKE i \in DOMAIN r.actions
    <2>. HAVE first(i)
    <2>1. PICK j \in DOMAIN r.actions : /\ r.actions[j].type = r.actions[i].type /\ first(j)
                                        /\ F!Actions(r, r.actions[i].type)[1] = r.actions[j]
      BY <1>5, <1>6
    <2>. HIDE DEF first
    <2>2. i = j
      BY <1>4, <2>1
    <2>. QED  BY <2>1, <2>2
  <1>8. \A i \in DOMAIN r.actions :
          /\ r.actions[i].type \in {"screen", "sound"} => r.actions[i] = [type |-> r.actions[i].type]
          /\ r.actions[i].type = "webhook" => r.actions[i] \in [type : {"webhook"}, url : STRING, names : Seq(STRING \ {""})]
    <2>. TAKE i \in DOMAIN r.actions
    <2>1. F!IsChannel(r.actions[i])
      BY <1>3
    <2>. DEFINE a == r.actions[i]
    <2>2. a.type \in {"screen", "sound"} => a \in [type : {"screen", "sound"}]
      BY <2>1 DEF F!IsChannel
    <2>3. a.type = "webhook" => a \in [type : {"webhook"}, url : STRING, names : Seq(STRING \ {""})]
      BY <2>1 DEF F!IsChannel
    <2>4. ASSUME a.type \in {"screen", "sound"}  PROVE a = [type |-> a.type]
      <3>1. a \in [type : {"screen", "sound"}]
        BY <2>2, <2>4
      <3>. HIDE DEF a
      <3>. QED  BY <3>1
    <2>. QED  BY <2>3, <2>4
  <1>9. \A i \in DOMAIN r.actions : IsDrawn(r, i) <=>
          r.actions[i].type \in {"screen", "sound", "webhook", "publish"} /\ first(i)
    BY DEF IsDrawn
  <1>10. ASSUME NEW i \in DOMAIN r.actions, r.actions[i].type = "webhook", first(i)
         PROVE  F!webhookOf(hook) = F!SaidAction(r.actions[i]) /\ F!SaidAction(F!webhookOf(hook)) = F!SaidAction(r.actions[i])
    <2>1. hook = F!webhookDraft(r.actions[i])
      BY <1>7, <1>10
    <2>2. r.actions[i] \in [type : {"webhook"}, url : STRING, names : Seq(STRING \ {""})]
      BY <1>8, <1>10
    <2>. HIDE DEF hook, first
    <2>. QED  BY <2>1, <2>2, HookThereAndBack, Zenon
  <1>11. F!ToSet(d.webhook) = IF F!Has(r, "webhook") THEN {hook} ELSE {}
    <2>. HIDE DEF hook
    <2>. QED  BY <1>1 DEF F!ToSet
  <1>12. F!ToSet(d.publish) = IF F!Has(r, "publish") THEN {published} ELSE {}
    <2>. HIDE DEF published
    <2>. QED  BY <1>1 DEF F!ToSet
  <1>13. F!ToSet(d.extra) = {r.actions[i] : i \in {j \in DOMAIN r.actions : ~IsDrawn(r, j)}}
    BY <1>1, ExtraMembers
  <1>. HIDE DEF hook, published, first
  <1>14. ASSUME NEW i \in DOMAIN r.actions  PROVE F!SaidAction(r.actions[i]) \in S
    <2>1. CASE ~IsDrawn(r, i)
      <3>1. r.actions[i] \in Sent(d)
        BY <1>13, <2>1 DEF Sent
      <3>. QED  BY <3>1
    <2>2. CASE IsDrawn(r, i) /\ r.actions[i].type = "screen"
      <3>1. r.actions[i] = [type |-> "screen"] /\ d.screen
        BY <1>1, <1>6, <1>8, <2>2
      <3>2. r.actions[i] \in Sent(d)
        BY <3>1 DEF Sent, Screens
      <3>. QED  BY <3>2
    <2>3. CASE IsDrawn(r, i) /\ r.actions[i].type = "sound"
      <3>1. r.actions[i] = [type |-> "sound"] /\ d.sound
        BY <1>1, <1>6, <1>8, <2>3
      <3>2. r.actions[i] \in Sent(d)
        BY <3>1 DEF Sent, Sounds
      <3>. QED  BY <3>2
    <2>4. CASE IsDrawn(r, i) /\ r.actions[i].type = "publish"
      <3>1. r.actions[i] = published /\ F!Has(r, "publish")
        BY <1>6, <1>7, <1>9, <2>4 DEF published
      <3>2. r.actions[i] \in Sent(d)
        BY <1>12, <3>1 DEF Sent
      <3>. QED  BY <3>2
    <2>5. CASE IsDrawn(r, i) /\ r.actions[i].type = "webhook"
      <3>1. F!SaidAction(F!webhookOf(hook)) = F!SaidAction(r.actions[i]) /\ F!Has(r, "webhook")
        BY <1>6, <1>9, <1>10, <2>5
      <3>2. F!webhookOf(hook) \in Sent(d)
        BY <1>11, <3>1 DEF Sent, Posts
      <3>3. F!SaidAction(F!webhookOf(hook)) \in S
        BY <3>2
      <3>. QED  BY <3>1, <3>3
    <2>. QED  BY <1>9, <2>1, <2>2, <2>3, <2>4, <2>5
  <1>. DEFINE T == {F!SaidAction(a) : a \in F!ToSet(r.actions)}
  <1>15. ASSUME NEW i \in DOMAIN r.actions  PROVE F!SaidAction(r.actions[i]) \in T
    BY <1>3
  <1>16. ASSUME NEW a \in Sent(d)  PROVE F!SaidAction(a) \in T
    <2>1. CASE a \in Screens(d)
      <3>1. a = [type |-> "screen"] /\ F!Has(r, "screen")
        BY <1>1, <2>1 DEF Screens
      <3>2. PICK i \in DOMAIN r.actions : r.actions[i].type = "screen"
        BY <1>5, <3>1
      <3>3. a = r.actions[i]
        BY <1>8, <3>1, <3>2
      <3>. QED  BY <1>15, <3>3
    <2>2. CASE a \in Sounds(d)
      <3>1. a = [type |-> "sound"] /\ F!Has(r, "sound")
        BY <1>1, <2>2 DEF Sounds
      <3>2. PICK i \in DOMAIN r.actions : r.actions[i].type = "sound"
        BY <1>5, <3>1
      <3>3. a = r.actions[i]
        BY <1>8, <3>1, <3>2
      <3>. QED  BY <1>15, <3>3
    <2>3. CASE a \in Posts(d)
      <3>1. a = F!webhookOf(hook) /\ F!Has(r, "webhook")
        BY <1>11, <2>3 DEF Posts
      <3>2. PICK i \in DOMAIN r.actions : r.actions[i].type = "webhook" /\ first(i)
        BY <1>5, <3>1
      <3>3. F!SaidAction(a) = F!SaidAction(r.actions[i])
        BY <1>10, <3>1, <3>2
      <3>. QED  BY <1>15, <3>3
    <2>4. CASE a \in F!ToSet(d.publish)
      <3>1. a = published /\ F!Has(r, "publish")
        BY <1>12, <2>4
      <3>2. PICK i \in DOMAIN r.actions : a = r.actions[i]
        BY <1>5, <3>1 DEF published
      <3>. QED  BY <1>15, <3>2
    <2>5. CASE a \in F!ToSet(d.extra)
      <3>1. PICK i \in DOMAIN r.actions : a = r.actions[i]
        BY <1>13, <2>5
      <3>. QED  BY <1>15, <3>1
    <2>. QED  BY <1>16, <2>1, <2>2, <2>3, <2>4, <2>5 DEF Sent
  <1>17. \A a \in F!ToSet(r.actions) : \E i \in DOMAIN r.actions : a = r.actions[i]
    BY DEF F!ToSet
  <1>18. \A x \in S : x \in T
    BY <1>16
  <1>19. \A x \in T : x \in S
    BY <1>14, <1>17
  <1>20. S = T
    <2>. HIDE DEF S, T
    <2>. QED  BY <1>18, <1>19
  <1>. QED  BY <1>20 DEF d

-----------------------------------------------------------------------------
(* What an untouched sheet says again.                                       *)

\* A list of at most one that is not empty.
LEMMA LoneMember ==
  ASSUME NEW S, NEW l \in Seq(S), l # <<>>, Len(l) <= 1
  PROVE  l[1] \in S /\ l = <<l[1]>>
  <1>1. Len(l) \in Nat /\ Len(l) # 0
    BY EmptySeq
  <1>2. Len(l) = 1
    BY <1>1
  <1>. QED  BY <1>2

\* How long a rule waits goes into its box and comes back.
LEMMA WaitThereAndBack ==
  ASSUME NEW r \in Rules
  PROVE  F!seconds(F!draftOf(r).for) = r.for
  <1>1. r.for \in Seq(F!Amounts) /\ Len(r.for) <= 1
    BY RulesTyped
  <1>2. F!draftOf(r).for = IF r.for = <<>> THEN "" ELSE Text(r.for[1])
    BY DEF F!draftOf
  <1>3. CASE r.for = <<>>
    BY <1>2, <1>3 DEF F!seconds
  <1>4. CASE r.for # <<>>
    <2>1. r.for[1] \in F!Amounts /\ r.for = <<r.for[1]>>
      BY <1>1, <1>4, LoneMember, Zenon
    <2>2. F!numberOf(Text(r.for[1])) = r.for[1] /\ Text(r.for[1]) # ""
      BY <2>1, TextsRead
    <2>3. F!seconds(F!draftOf(r).for) = <<r.for[1]>>
      BY <1>2, <1>4, <2>2 DEF F!seconds
    <2>. QED  BY <2>1, <2>3
  <1>. QED  BY <1>3, <1>4

\* What a sheet says of everything but the channels.
LEMMA RuleParts ==
  ASSUME NEW d
  PROVE  /\ F!ruleOf(d).name = d.name /\ F!ruleOf(d).filter = d.filter
         /\ F!ruleOf(d).condition = F!conditionOf(d.condition)
         /\ F!ruleOf(d).clear = [i \in DOMAIN d.clear |-> F!conditionOf(d.clear[i])]
         /\ F!ruleOf(d).for = F!seconds(d.for)
  BY DEF F!ruleOf

\* Each part of a rule nobody has touched goes back as it was said.
LEMMA OpenedKept == FormInv => F!OpenedIsKept
  <1>. SUFFICES ASSUME FormInv, rule # <<>>  PROVE F!OpenedIsKept
    BY DEF F!OpenedIsKept
  <1>. DEFINE r == rule[1]
              o == F!draftOf(r)
              back == F!ruleOf(draft)
  <1>1. r \in Rules /\ AsMade(o)
    <2>1. rule \in Seq(Rules)
      BY DEF FormInv, SheetTypes
    <2>2. r \in Rules
      BY <2>1
    <2>. QED  BY <2>2 DEF FormInv, UntouchedStands
  <1>2. draft \in Sheets /\ o \in Sheets
    BY <1>1, RuleMakesSheet DEF FormInv, SheetTypes
  <1>3. /\ back.name = draft.name /\ back.filter = draft.filter
        /\ back.condition = F!conditionOf(draft.condition)
        /\ back.clear = [i \in DOMAIN draft.clear |-> F!conditionOf(draft.clear[i])]
        /\ back.for = F!seconds(draft.for)
    BY RuleParts
  <1>4. /\ o.name = r.name /\ o.filter = r.filter
        /\ o.condition = F!conditionDraft(r.condition)
        /\ o.clear = [i \in DOMAIN r.clear |-> F!conditionDraft(r.clear[i])]
    BY DEF F!draftOf
  <1>5. F!ToSet(back.actions) = Sent(draft)
    BY <1>2, ChannelsSent
  <1>6. {F!SaidAction(a) : a \in Sent(o)} = {F!SaidAction(a) : a \in F!ToSet(r.actions)}
    BY <1>1, OpenedChannels
  <1>7. F!seconds(o.for) = r.for
    BY <1>1, WaitThereAndBack
  <1>8. F!conditionOf(F!conditionDraft(r.condition)) = F!Said(r.condition)
    <2>1. r.condition \in Shown /\ F!IsCondition(r.condition)
      BY <1>1, RulesTyped DEF Shown
    <2>. QED  BY <2>1, ConditionThereAndBack
  <1>9. [i \in DOMAIN o.clear |-> F!conditionOf(o.clear[i])] = [i \in DOMAIN r.clear |-> F!Said(r.clear[i])]
    <2>1. ASSUME NEW i \in DOMAIN r.clear
          PROVE  F!conditionOf(F!conditionDraft(r.clear[i])) = F!Said(r.clear[i])
      <3>1. r.clear[i] \in F!ToSet(r.clear)
        BY DEF F!ToSet
      <3>2. r.clear[i] \in Shown /\ F!IsCondition(r.clear[i])
        BY <1>1, <3>1, RulesTyped DEF Shown
      <3>. QED  BY <3>2, ConditionThereAndBack
    <2>. QED  BY <1>4, <2>1
  <1>. HIDE DEF o, back
  <1>10. /\ "name" \in touched \/ back.name = r.name
         /\ "filter" \in touched \/ back.filter = r.filter
         /\ "for" \in touched \/ back.for = r.for
         /\ "condition" \in touched \/ back.condition = F!Said(r.condition)
    BY <1>1, <1>3, <1>4, <1>7, <1>8 DEF AsMade
  <1>11. "clear" \in touched \/ back.clear = [i \in DOMAIN r.clear |-> F!Said(r.clear[i])]
    BY <1>1, <1>3, <1>9 DEF AsMade
  <1>12. ASSUME "actions" \notin touched
         PROVE  {F!SaidAction(a) : a \in F!ToSet(back.actions)} = {F!SaidAction(a) : a \in F!ToSet(r.actions)}
    <2>1. /\ draft.screen = o.screen /\ draft.sound = o.sound /\ draft.webhook = o.webhook
          /\ draft.publish = o.publish /\ draft.extra = o.extra
      BY <1>1, <1>12 DEF AsMade
    <2>2. Sent(draft) = Sent(o)
      BY <2>1, Zenon DEF Sent, Screens, Sounds, Posts
    <2>. QED  BY <1>5, <1>6, <2>2
  <1>. QED  BY <1>10, <1>11, <1>12, Zenon DEF F!OpenedIsKept, back

-----------------------------------------------------------------------------
(* What the server is asked to take.                                         *)

\* What can be saved has none of the seven faults.
LEMMA NoFaults ==
  ASSUME NEW d, NEW p, F!savable(d, p)
  PROVE  /\ d.name \notin {"", "long"} /\ ~F!filterFault(d.filter, p)
         /\ F!wholeSeconds(d.for) /\ (d.for # "" => ~F!alreadyADuration(d.condition))
         /\ ~F!conditionFault(d.condition)
         /\ (d.clear # <<>> => ~F!conditionFault(d.clear[1]))
         /\ (d.webhook # <<>> => ~F!webhookFault(d.webhook[1]))
         /\ (d.publish # <<>> => ~F!publishFault(d.publish[1], d.filter, p))
  <1>. DEFINE fault(x) == CASE x = "name"      -> d.name \in {"", "long"}
                            [] x = "filter"    -> F!filterFault(d.filter, p)
                            [] x = "for"       -> ~F!wholeSeconds(d.for) \/ (d.for # "" /\ F!alreadyADuration(d.condition))
                            [] x = "condition" -> F!conditionFault(d.condition)
                            [] x = "clear"     -> d.clear # <<>> /\ F!conditionFault(d.clear[1])
                            [] x = "webhook"   -> d.webhook # <<>> /\ F!webhookFault(d.webhook[1])
                            [] x = "publish"   -> d.publish # <<>> /\ F!publishFault(d.publish[1], d.filter, p)
              parts == {"name", "filter", "for", "condition", "clear", "webhook", "publish"}
  <1>1. {x \in parts : fault(x)} = {}
    BY DEF F!savable, F!faultsIn
  <1>2. \A x \in parts : ~fault(x)
    <2>. HIDE DEF fault, parts
    <2>. QED  BY <1>1
  <1>. QED  BY <1>2

\* A box the browser judges as the server does, and one whose wait the server's int holds.
Alike(b) == ~(b.type = "pattern" /\ b.regex = "dialect")
Held(b)  == ~(b.type = "silence" /\ F!TooWide(b.after))

\* What is sent of the boxes of a condition is of its type, and the server's if it is the form's
\* and the two judge it alike.
LEMMA BoxesSent ==
  ASSUME NEW b \in SimpleBoxes
  PROVE  /\ F!simpleOf(b).type = b.type
         /\ ~F!simpleFault(b) /\ Alike(b) => ~F!FaultItself(F!simpleOf(b))
         /\ ~F!simpleFault(b) /\ Held(b) /\ b.type = "silence" => F!simpleOf(b).after <= Widest
  <1>. DEFINE s == F!simpleOf(b)
  <1>1. \A t \in DOMAIN Reads : F!numberOf(t) = Reads[t] /\ Reads[t] \in Int /\ t # ""
    BY TextsRead, Zenon DEF F!numberOf
  <1>2. F!numberOf("") = 0
    BY TextsRead, Zenon
  <1>3. \A t : ~F!windowFault(t) => ~F!OutsideTheWindow(F!numberOf(t))
    <2>. TAKE t
    <2>. HAVE ~F!windowFault(t)
    <2>1. CASE t = ""
      BY <1>2, <2>1 DEF F!OutsideTheWindow
    <2>2. CASE t # ""
      <3>1. t \in DOMAIN Reads /\ Reads[t] \in F!MIN_WINDOW..F!MAX_WINDOW
        BY <2>2 DEF F!windowFault, F!whole, F!finite
      <3>2. F!numberOf(t) = Reads[t]
        BY <1>1, <3>1
      <3>3. F!MIN_WINDOW = 40 /\ F!MAX_WINDOW = 4000
        BY DEF F!MIN_WINDOW, F!MAX_WINDOW
      <3>4. ~(Reads[t] < F!MIN_WINDOW \/ Reads[t] > F!MAX_WINDOW)
        <4>. DEFINE n == Reads[t]
        <4>1. n \in 40..4000
          BY <3>1, <3>3
        <4>. HIDE DEF n
        <4>2. ~(n < 40 \/ n > 4000)
          BY <4>1
        <4>. QED  BY <3>3, <4>2 DEF n
      <3>. QED  BY <3>2, <3>4 DEF F!OutsideTheWindow
    <2>. QED  BY <2>1, <2>2
  <1>4. \A t, m : ~F!kFault(m, t) =>
           F!numberOf(t) = 0 \/ F!numberOf(t) \in IF m = "tukey" THEN 1..10 ELSE 2..20
    <2>. TAKE t, m
    <2>. HAVE ~F!kFault(m, t)
    <2>1. CASE t = ""
      BY <1>2, <2>1
    <2>2. CASE t # ""
      <3>1. t \in DOMAIN Reads /\ Reads[t] \in IF m = "tukey" THEN 1..10 ELSE 2..20
        BY <2>2 DEF F!kFault, F!finite
      <3>. QED  BY <1>1, <3>1
    <2>. QED  BY <2>1, <2>2
  <1>5. CASE b \in [type : {"threshold"}, way : Ways, value : F!Texts]
    <2>1. b.type = "threshold" /\ s = [b EXCEPT !.value = F!numberOf(@)]
      BY <1>5 DEF F!simpleOf
    <2>2. s.type = "threshold"
      BY <1>5, <2>1
    <2>. QED  BY <2>1, <2>2 DEF F!FaultItself
  <1>6. CASE b \in [type : {"band"}, way : Ways, low : F!Texts, high : F!Texts]
    <2>1. b.type = "band" /\ s = [b EXCEPT !.low = F!numberOf(@), !.high = F!numberOf(@)]
      BY <1>6 DEF F!simpleOf
    <2>2. s.type = "band"
      BY <1>6, <2>1
    <2>. QED  BY <2>1, <2>2 DEF F!FaultItself
  <1>7. CASE b \in [type : {"pattern"}, way : Ways, regex : Patterns]
    <2>1. b.type = "pattern" /\ s = b
      BY <1>7 DEF F!simpleOf
    <2>. QED  BY <2>1 DEF F!FaultItself, F!simpleFault, F!Compiles, F!browserCompiles, Alike
  <1>8. CASE b \in [type : {"oneOf"}, way : Ways, values : Seq(STRING)]
    <2>1. b.type = "oneOf" /\ s = [b EXCEPT !.values = F!listOf(@)]
      BY <1>8 DEF F!simpleOf
    <2>2. s.type = "oneOf"
      BY <1>8, <2>1
    <2>. QED  BY <2>1, <2>2 DEF F!FaultItself
  <1>9. CASE b \in [type : {"silence"}, after : F!Texts]
    <2>1. b.type = "silence" /\ s = [b EXCEPT !.after = F!numberOf(@)]
      BY <1>9 DEF F!simpleOf
    <2>2. s.type = "silence" /\ s.after = F!numberOf(b.after)
      BY <1>9, <2>1
    <2>3. ASSUME ~F!simpleFault(b)  PROVE ~F!FaultItself(s)
      <3>1. b.after \in DOMAIN Reads /\ Reads[b.after] >= 2
        BY <2>1, <2>3 DEF F!simpleFault, F!whole, F!finite
      <3>2. s.after = Reads[b.after] /\ Reads[b.after] \in Int
        BY <1>1, <2>2, <3>1
      <3>3. ~(s.after <= 0)
        BY <3>1, <3>2
      <3>. QED  BY <2>2, <3>3 DEF F!FaultItself
    <2>4. ASSUME ~F!simpleFault(b), Held(b)  PROVE s.after <= Widest
      <3>1. b.after \in DOMAIN Reads /\ ~(Reads[b.after] > Widest)
        BY <2>1, <2>4 DEF F!simpleFault, F!whole, F!finite, Held, F!TooWide
      <3>2. s.after = Reads[b.after] /\ Reads[b.after] \in Int /\ Widest \in Int
        BY <1>1, <2>2, <3>1, PicksTyped
      <3>. QED  BY <3>1, <3>2
    <2>. QED  BY <2>1, <2>2, <2>3, <2>4
  <1>10. CASE b \in [type : {"outlier"}, method : {"tukey", "sigma"}, k : F!Texts, window : F!Texts]
    <2>1. b.type = "outlier" /\ s = [b EXCEPT !.k = F!numberOf(@), !.window = F!numberOf(@)]
      BY <1>10 DEF F!simpleOf
    <2>2. s.type = "outlier" /\ s.k = F!numberOf(b.k) /\ s.window = F!numberOf(b.window) /\ s.method = b.method
      BY <1>10, <2>1
    <2>3. ASSUME ~F!simpleFault(b)  PROVE ~F!FaultItself(s)
      <3>1. ~F!windowFault(b.window) /\ ~F!kFault(b.method, b.k)
        BY <2>1, <2>3 DEF F!simpleFault
      <3>2. ~F!OutsideTheWindow(s.window)
        BY <1>3, <2>2, <3>1
      <3>3. s.k = 0 \/ s.k \in IF s.method = "tukey" THEN 1..10 ELSE 2..20
        BY <1>4, <2>2, <3>1
      <3>. QED  BY <2>2, <3>2, <3>3 DEF F!FaultItself
    <2>. QED  BY <2>1, <2>2, <2>3
  <1>11. CASE b \in [type : {"pulse"}, metric : {"count", "duty"}, way : Ways, value : F!Texts, window : F!Texts]
    <2>1. b.type = "pulse" /\ s = [b EXCEPT !.value = F!numberOf(@), !.window = F!numberOf(@)]
      BY <1>11 DEF F!simpleOf
    <2>2. s.type = "pulse" /\ s.value = F!numberOf(b.value) /\ s.window = F!numberOf(b.window) /\ s.metric = b.metric
      BY <1>11, <2>1
    <2>3. ASSUME ~F!simpleFault(b)  PROVE ~F!FaultItself(s)
      <3>1. /\ ~F!windowFault(b.window) /\ b.value \in DOMAIN Reads
            /\ ~(Reads[b.value] < 0) /\ ~(b.metric = "duty" /\ Reads[b.value] > 2)
        BY <2>1, <2>3 DEF F!simpleFault, F!finite
      <3>2. ~F!OutsideTheWindow(s.window) /\ s.value = Reads[b.value]
        BY <1>1, <1>3, <2>2, <3>1
      <3>. QED  BY <2>2, <3>1, <3>2 DEF F!FaultItself
    <2>. QED  BY <2>1, <2>2, <2>3
  <1>12. CASE b \in [type : {"distributionShift", "shapeChange"}, window : F!Texts]
    <2>1. b.type \in {"distributionShift", "shapeChange"} /\ s = [b EXCEPT !.window = F!numberOf(@)]
      BY <1>12 DEF F!simpleOf
    <2>2. s.type = b.type /\ s.window = F!numberOf(b.window)
      BY <1>12, <2>1
    <2>3. ASSUME ~F!simpleFault(b)  PROVE ~F!FaultItself(s)
      <3>1. ~F!windowFault(b.window)
        BY <2>1, <2>3 DEF F!simpleFault
      <3>2. ~F!OutsideTheWindow(s.window)
        BY <1>3, <2>2, <3>1
      <3>. QED  BY <2>1, <2>2, <3>2 DEF F!FaultItself
    <2>. QED  BY <2>1, <2>2, <2>3
  <1>. HIDE DEF s
  <1>. QED  BY <1>5, <1>6, <1>7, <1>8, <1>9, <1>10, <1>11, <1>12 DEF SimpleBoxes, s

\* A condition none of whose children has children is itself and these.
LEMMA WithinShallow ==
  ASSUME NEW c, c.type \in F!Joiners => \A x \in F!ToSet(c.of) : x.type \notin F!Joiners
  PROVE  F!Within(c) \subseteq {c} \cup IF c.type \in F!Joiners THEN F!ToSet(c.of) ELSE {}
  <1>. DEFINE W == {c} \cup IF c.type \in F!Joiners THEN F!ToSet(c.of) ELSE {}
              below(above) == above \cup (UNION {F!ToSet(x.of) : x \in {y \in above : y.type \in F!Joiners}})
              parts == CHOOSE g : g = [n \in 0..F!MAX_DEPTH |-> IF n = 0 THEN {c} ELSE below(g[n - 1])]
              f == [n \in 0..F!MAX_DEPTH |-> IF n = 0 THEN {c} ELSE W]
  <1>1. F!Within(c) = parts[F!MAX_DEPTH]
    BY DEF F!Within
  <1>2. below({c}) = W
    OBVIOUS
  <1>3. \A Upper : Upper \subseteq W => below(Upper) \subseteq W
    <2>. TAKE Upper
    <2>. HAVE Upper \subseteq W
    <2>1. \A y \in Upper : y.type \in F!Joiners => y = c
      OBVIOUS
    <2>. QED  BY <2>1
  <1>4. below(W) = W
    <2>1. W \subseteq below(W)
      OBVIOUS
    <2>. QED  BY <1>3, <2>1
  <1>5. F!MAX_DEPTH = 64
    BY DEF F!MAX_DEPTH
  <1>. HIDE DEF W, below
  <1>6. f = [n \in 0..F!MAX_DEPTH |-> IF n = 0 THEN {c} ELSE below(f[n - 1])]
    <2>1. ASSUME NEW n \in 0..F!MAX_DEPTH, n # 0  PROVE f[n] = below(f[n - 1])
      <3>1. n - 1 \in 0..F!MAX_DEPTH
        BY <1>5, <2>1
      <3>2. f[n - 1] = IF n - 1 = 0 THEN {c} ELSE W
        BY <3>1
      <3>3. f[n] = W
        BY <2>1
      <3>. HIDE DEF f
      <3>. QED  BY <1>2, <1>4, <3>2, <3>3
    <2>2. 0 \in 0..F!MAX_DEPTH /\ f[0] = {c}
      BY <1>5
    <2>3. f = [n \in 0..F!MAX_DEPTH |-> f[n]]
      OBVIOUS
    <2>. HIDE DEF f
    <2>. QED  BY <2>1, <2>2, <2>3
  <1>. HIDE DEF f
  <1>7. parts = [n \in 0..F!MAX_DEPTH |-> IF n = 0 THEN {c} ELSE below(parts[n - 1])]
    BY <1>6
  <1>. HIDE DEF parts
  <1>. DEFINE T == {n \in Nat : n <= F!MAX_DEPTH => parts[n] \subseteq W}
  <1>8. 0 \in T
    <2>1. parts[0] = {c}
      BY <1>5, <1>7
    <2>. QED  BY <2>1 DEF W
  <1>9. ASSUME NEW n \in Nat, n \in T  PROVE n + 1 \in T
    <2>. SUFFICES ASSUME n + 1 <= F!MAX_DEPTH  PROVE parts[n + 1] \subseteq W
      OBVIOUS
    <2>1. n + 1 \in 0..F!MAX_DEPTH /\ n + 1 # 0 /\ (n + 1) - 1 = n /\ parts[n] \subseteq W
      BY <1>5, <1>9
    <2>2. parts[n + 1] = below(parts[n])
      BY <1>7, <2>1
    <2>. QED  BY <1>3, <2>1, <2>2
  <1>10. F!MAX_DEPTH \in T
    <2>. HIDE DEF T
    <2>. QED  BY <1>5, <1>8, <1>9, Numbers
  <1>. QED  BY <1>1, <1>5, <1>10 DEF W

\* What is sent of a sheet's condition, part by part, where none of it is carried unread: the
\* joiner, or what is sent of a box the form has judged.
LEMMA PartsSent ==
  ASSUME NEW d \in Conditions, ~F!conditionFault(d), \A x \in F!Leaves(d) : x.type # "opaque",
         NEW x \in F!Within(F!conditionOf(d))
  PROVE  \/ d.type \in F!Joiners /\ x.type = d.type
         \/ \E b \in F!Leaves(d) : /\ b \in SimpleBoxes /\ ~F!simpleFault(b)
                                   /\ x = F!simpleOf(b) /\ x.type = b.type
                                   /\ d.type \in F!Joiners => \E i \in DOMAIN d.of : d.of[i] = b
                                   /\ d.type \notin F!Joiners => b = d
  <1>. DEFINE c == F!conditionOf(d)
  <1>1. CASE d.type \notin F!Joiners
    <2>1. F!Leaves(d) = {d}
      BY <1>1 DEF F!Leaves
    <2>2. d \in SimpleBoxes
      BY <1>1, <2>1, BoxTypes DEF Conditions
    <2>3. c = F!simpleOf(d) /\ ~F!simpleFault(d)
      BY <1>1 DEF F!conditionOf, F!conditionFault
    <2>4. c.type = d.type
      BY <2>2, <2>3, BoxesSent
    <2>5. x \in F!Within(c)
      OBVIOUS
    <2>. HIDE DEF c
    <2>6. x = c
      BY <1>1, <2>4, <2>5, WithinShallow
    <2>. QED  BY <1>1, <2>1, <2>2, <2>3, <2>4, <2>6
  <1>2. CASE d.type \in F!Joiners
    <2>1. d \in [type : F!Joiners, of : Seq(Boxes)]
      BY <1>2, BoxTypes DEF Conditions
    <2>. DEFINE s == d.of
    <2>2. s \in Seq(Boxes)
      BY <2>1
    <2>3. \A i \in DOMAIN s : s[i] \in Boxes /\ s[i] \in F!Leaves(d)
      BY <1>2, <2>2, MemberOf DEF F!Leaves, F!ToSet
    <2>4. \A i \in DOMAIN s : s[i] \in SimpleBoxes
      BY <2>3, BoxTypes
    <2>5. \A i \in DOMAIN s : ~F!simpleFault(s[i])
      BY <1>2 DEF F!conditionFault
    <2>6. c = [d EXCEPT !.of = [i \in DOMAIN s |-> F!simpleOf(s[i])]]
      BY <1>2 DEF F!conditionOf
    <2>7. c.type = d.type /\ c.of = [i \in DOMAIN s |-> F!simpleOf(s[i])]
      BY <2>1, <2>6
    <2>8. x \in F!Within(c)
      OBVIOUS
    <2>. HIDE DEF c
    <2>9. \A y \in F!ToSet(c.of) : \E i \in DOMAIN s : y = F!simpleOf(s[i])
      BY <2>7 DEF F!ToSet
    <2>10. \A y \in F!ToSet(c.of) : \E i \in DOMAIN s : y = F!simpleOf(s[i]) /\ y.type = s[i].type
      BY <2>4, <2>9, BoxesSent
    <2>11. \A i \in DOMAIN s : s[i].type \notin F!Joiners
      BY <2>3, BoxTypes
    <2>12. F!Within(c) \subseteq {c} \cup F!ToSet(c.of)
      BY <1>2, <2>7, <2>10, <2>11, WithinShallow
    <2>13. CASE x = c
      BY <1>2, <2>7, <2>13
    <2>14. CASE x \in F!ToSet(c.of)
      <3>1. PICK i \in DOMAIN s : x = F!simpleOf(s[i]) /\ x.type = s[i].type
        BY <2>10, <2>14
      <3>. QED  BY <1>2, <2>3, <2>4, <2>5, <3>1
    <2>. QED  BY <2>8, <2>12, <2>13, <2>14
  <1>. QED  BY <1>1, <1>2

\* It is the server's, where the two judge its boxes alike.
LEMMA ConditionSent ==
  ASSUME NEW d \in Conditions, ~F!conditionFault(d),
         \A x \in F!Leaves(d) : x.type # "opaque" /\ Alike(x)
  PROVE  /\ ~F!Fault(F!conditionOf(d))
         /\ F!AlreadyADuration(F!conditionOf(d)) => F!alreadyADuration(d)
  <1>1. ASSUME NEW x \in F!Within(F!conditionOf(d))
        PROVE  ~F!FaultItself(x) /\ (x.type \in F!Momentary => F!alreadyADuration(d))
    <2>1. CASE d.type \in F!Joiners /\ x.type = d.type
      BY <2>1 DEF F!FaultItself, F!Joiners, F!Momentary
    <2>2. ASSUME NEW b \in F!Leaves(d), b \in SimpleBoxes, ~F!simpleFault(b), x = F!simpleOf(b),
                 x.type = b.type, d.type \in F!Joiners => \E i \in DOMAIN d.of : d.of[i] = b,
                 d.type \notin F!Joiners => b = d
          PROVE  ~F!FaultItself(x) /\ (x.type \in F!Momentary => F!alreadyADuration(d))
      <3>1. ~F!FaultItself(x)
        BY <2>2, BoxesSent
      <3>2. x.type \in F!Momentary => F!alreadyADuration(d)
        BY <2>2 DEF F!alreadyADuration
      <3>. QED  BY <3>1, <3>2
    <2>. QED  BY <2>1, <2>2, PartsSent
  <1>. QED  BY <1>1 DEF F!Fault, F!AlreadyADuration

\* And every wait in it is read, where the server's int holds those that were typed.
LEMMA ConditionBinds ==
  ASSUME NEW d \in Conditions, ~F!conditionFault(d),
         \A x \in F!Leaves(d) : x.type # "opaque" /\ Held(x)
  PROVE  F!Binds(F!conditionOf(d))
  <1>1. ASSUME NEW x \in F!Within(F!conditionOf(d)), x.type = "silence"
        PROVE  x.after <= Widest
    <2>1. "silence" \notin F!Joiners
      BY DEF F!Joiners
    <2>2. PICK b \in F!Leaves(d) : b \in SimpleBoxes /\ ~F!simpleFault(b) /\ x = F!simpleOf(b) /\ x.type = b.type
      BY <1>1, <2>1, PartsSent
    <2>. QED  BY <1>1, <2>2, BoxesSent
  <1>. QED  BY <1>1 DEF F!Binds

-----------------------------------------------------------------------------
\* Two ways to say that a filter or a topic holds a wildcard.
LEMMA WildcardsAlike ==
  ASSUME NEW t
  PROVE  F!HasWildcard(t) <=> F!ToSet(t) \cap F!Wildcards # {}
  BY DEF F!HasWildcard, F!Wildcards, F!ToSet

\* A filter that reaches into the server's tree by its own words does so by the form's.
LEMMA CoversAlike ==
  ASSUME NEW f \in Seq(STRING), F!Covers(f)
  PROVE  F!covers(f, Prefix)
  <1>. DEFINE p == Prefix
  <1>0. p \in Seq(STRING)
    BY PicksTyped
  <1>2. PICK n \in 0..Len(p) : /\ n < Len(f) /\ \A j \in 1..n : f[j] = "+" \/ f[j] = p[j]
                               /\ n = Len(p) \/ f[n + 1] = "#"
    BY DEF F!Covers
  <1>. HIDE DEF p
  <1>1. DOMAIN p = 1..Len(p) /\ Len(p) \in Nat /\ Len(f) \in Nat
    BY <1>0
  <1>3. CASE n = Len(p)
    <2>1. Len(f) > Len(p) /\ \A j \in DOMAIN p : f[j] = "+" \/ f[j] = p[j]
      BY <1>1, <1>2, <1>3
    <2>. QED  BY <2>1 DEF F!covers, p
  <1>4. CASE n # Len(p)
    <2>. DEFINE i == n + 1
    <2>1. i \in 1..Len(p) /\ i <= Len(f) /\ i - 1 = n
      <3>. DEFINE k == Len(p)
                  m == Len(f)
      <3>1. k \in Nat /\ m \in Nat /\ n \in 0..k /\ n < m /\ n # k
        BY <1>1, <1>2, <1>4
      <3>. HIDE DEF k, m
      <3>2. n + 1 \in 1..k /\ n + 1 <= m /\ (n + 1) - 1 = n
        BY <3>1
      <3>. QED  BY <3>2 DEF k, m
    <2>2. f[i] = "#" /\ \A j \in 1..i - 1 : f[j] = "+" \/ f[j] = p[j]
      BY <1>2, <1>4, <2>1
    <2>. HIDE DEF i
    <2>. QED  BY <1>1, <2>1, <2>2 DEF F!covers, p
  <1>. QED  BY <1>3, <1>4

\* A channel that is sent is one the server takes, if the form has eyes for it and goes by the
\* server's prefix.
LEMMA ChannelTaken ==
  ASSUME NEW d \in Sheets, Len(d.webhook) <= 1, Len(d.publish) <= 1, NEW a \in Sent(d), NEW p,
         d.webhook # <<>> => ~F!webhookFault(d.webhook[1]),
         d.publish # <<>> => ~F!publishFault(d.publish[1], d.filter, p),
         \A w \in F!ToSet(d.webhook) :
           w.url # "mended" /\ \A h \in F!ToSet(w.headers) : h.value # "huge" /\ "c1" \notin {h.name, h.value},
         \A b \in F!ToSet(d.publish) : "uncarried" \notin F!ToSet(b.topic),
         p = Prefix \/ \A b \in F!ToSet(d.publish) : b.topic = <<>> \/ F!Inside(b.topic),
         \A x \in F!ToSet(d.extra) : ~F!ActionFault(x, d.filter)
  PROVE  ~F!ActionFault(a, d.filter)
  <1>1. CASE a \in Screens(d) \cup Sounds(d)
    <2>1. a.type \in {"screen", "sound"}
      BY <1>1 DEF Screens, Sounds
    <2>. QED  BY <2>1 DEF F!ActionFault
  <1>2. CASE a \in Posts(d)
    <2>1. PICK i \in DOMAIN d.webhook : a = F!webhookOf(d.webhook[i])
      BY <1>2 DEF Posts, F!ToSet
    <2>. DEFINE w == d.webhook[i]
                rows == {g \in F!ToSet(w.headers) : g.name # ""}
                names == {h.name : h \in rows}
    <2>2. d.webhook \in Seq(Hooks)
      BY DEF Sheets
    <2>3. w \in Hooks /\ d.webhook # <<>> /\ i = 1
      <3>. DEFINE l == d.webhook
      <3>1. l \in Seq(Hooks) /\ i \in DOMAIN l /\ Len(l) <= 1
        BY <2>2
      <3>. HIDE DEF l
      <3>2. l[i] \in Hooks /\ l # <<>> /\ i = 1
        BY <3>1
      <3>. QED  BY <3>2 DEF l
    <2>4. ~F!webhookFault(w)
      BY <2>3
    <2>5. /\ w.url \notin {"", "relative", "ftp", "user"}
          /\ \A h \in F!ToSet(F!Named(w)) : h.name # "long" /\ "control" \notin {h.name, h.value}
      BY <2>4 DEF F!webhookFault
    <2>6. F!ToSet(F!Named(w)) = rows
      <3>. DEFINE Row == [name : STRING, value : STRING]
      <3>1. w.headers \in Seq(Row)
        BY <2>3 DEF Hooks
      <3>2. F!Named(w) = F!Sieved(w.headers, rows)
        BY DEF F!Named
      <3>. HIDE DEF Row, w
      <3>3. F!ToSet(F!Sieved(w.headers, rows)) = F!ToSet(w.headers) \cap rows
        BY <3>1, SievedMembers, Zenon
      <3>. QED  BY <3>2, <3>3
    <2>7. PICK H : /\ F!webhookOf(w) = [type |-> "webhook", url |-> w.url, headers |-> H]
                   /\ H = [n \in names |-> H[n]]
                   /\ \A n \in names : \E h \in F!ToSet(w.headers) : h.name = n /\ H[n] = h.value
      BY <2>3, HookSent
    <2>8. w.url # "mended" /\ \A h \in F!ToSet(w.headers) : h.value # "huge" /\ "c1" \notin {h.name, h.value}
      <3>1. w \in F!ToSet(d.webhook)
        BY DEF F!ToSet
      <3>. HIDE DEF w
      <3>. QED  BY <3>1
    <2>9. \A n \in names : n # "long" /\ H[n] # "huge" /\ {n, H[n]} \cap {"control", "c1"} = {}
      <3>. TAKE n \in names
      <3>1. PICK h \in F!ToSet(w.headers) : h.name = n /\ H[n] = h.value
        BY <2>7
      <3>2. n # ""
        OBVIOUS
      <3>3. h \in F!ToSet(F!Named(w))
        BY <2>6, <3>1, <3>2
      <3>. QED  BY <2>5, <2>8, <3>1, <3>2, <3>3
    <2>10. a.type = "webhook" /\ a.url = w.url /\ a.headers = H /\ DOMAIN H = names
      <3>. HIDE DEF names, w
      <3>. QED  BY <2>1, <2>7 DEF w
    <2>. HIDE DEF w, names
    <2>11. ~F!WebhookFaults(a)
      BY <2>5, <2>8, <2>9, <2>10 DEF F!WebhookFaults
    <2>. QED  BY <2>10, <2>11 DEF F!ActionFault
  <1>3. CASE a \in F!ToSet(d.publish)
    <2>. DEFINE l == d.publish
    <2>1. PICK i \in DOMAIN l : a = l[i]
      BY <1>3 DEF F!ToSet
    <2>2. l \in Seq(Publications) /\ Len(l) <= 1
      BY DEF Sheets
    <2>3. a \in Publications /\ l # <<>> /\ i = 1
      <3>. HIDE DEF l
      <3>. QED  BY <2>1, <2>2
    <2>4. a.type = "publish" /\ ~F!publishFault(a, d.filter, p)
      BY <2>1, <2>3 DEF Publications
    <2>5. "uncarried" \notin F!ToSet(a.topic) /\ (p = Prefix \/ a.topic = <<>> \/ F!Inside(a.topic))
      BY <1>3
    <2>6. ~F!PublishFaults(a, d.filter)
      <3>1. CASE a.topic = <<>>
        BY <3>1 DEF F!PublishFaults
      <3>2. CASE a.topic # <<>>
        <4>1. /\ F!ToSet(a.topic) \cap F!Wildcards = {}
              /\ F!startsWith(a.topic, p)
              /\ ~(a.retain /\ F!ToSet(d.filter) \cap F!Wildcards # {} /\ "{topic}" \notin F!ToSet(a.topic))
          BY <2>4, <3>2 DEF F!publishFault
        <4>2. F!Inside(a.topic)
          BY <2>5, <3>2, <4>1 DEF F!startsWith, F!Inside
        <4>3. ~F!HasWildcard(a.topic)
          BY <4>1, WildcardsAlike
        <4>4. ~(a.retain /\ F!HasWildcard(d.filter) /\ \A k \in DOMAIN a.topic : a.topic[k] # "{topic}")
          <5>1. "{topic}" \in F!ToSet(a.topic) => \E k \in DOMAIN a.topic : a.topic[k] = "{topic}"
            BY DEF F!ToSet
          <5>2. F!HasWildcard(d.filter) => F!ToSet(d.filter) \cap F!Wildcards # {}
            BY WildcardsAlike
          <5>. QED  BY <4>1, <5>1, <5>2
        <4>. QED  BY <2>5, <4>2, <4>3, <4>4 DEF F!PublishFaults
      <3>. QED  BY <3>1, <3>2
    <2>. QED  BY <2>4, <2>6 DEF F!ActionFault
  <1>4. CASE a \in F!ToSet(d.extra)
    BY <1>4
  <1>. QED  BY <1>1, <1>2, <1>3, <1>4 DEF Sent

\* What the editor lets somebody save, the server takes, but for what the form cannot tell.
LEMMA SavedTaken == FormInv => F!SavedIsTaken
  <1>. SUFFICES ASSUME FormInv, NEW p \in PrefixesHeard, F!savable(draft, p),
                       ~F!Unread(draft), ~F!Unseen(draft), p = Prefix \/ ~F!AtOdds(draft)
                PROVE  F!ServerTakes(F!ruleOf(draft))
    BY DEF F!SavedIsTaken
  <1>. DEFINE back == F!ruleOf(draft)
  <1>1. draft \in Sheets /\ Len(draft.webhook) <= 1 /\ Len(draft.publish) <= 1 /\ Len(draft.clear) <= 1
    BY DEF FormInv, SheetTypes
  <1>2. /\ draft.condition \in Conditions /\ draft.for \in F!Texts /\ draft.filter \in Seq(STRING)
        /\ draft.clear \in Seq(Conditions)
    BY <1>1 DEF Sheets
  <1>3. /\ \A x \in F!Leaves(draft.condition) : x.type # "opaque" /\ Alike(x) /\ Held(x)
        /\ \A c \in F!ToSet(draft.clear) : \A x \in F!Leaves(c) : x.type # "opaque" /\ Held(x)
    BY DEF F!Unread, F!Unseen, F!Drawn, Alike, Held
  <1>4. /\ draft.name \notin {"", "long"} /\ ~F!filterFault(draft.filter, p)
        /\ F!wholeSeconds(draft.for) /\ (draft.for # "" => ~F!alreadyADuration(draft.condition))
        /\ ~F!conditionFault(draft.condition)
        /\ (draft.clear # <<>> => ~F!conditionFault(draft.clear[1]))
        /\ (draft.webhook # <<>> => ~F!webhookFault(draft.webhook[1]))
        /\ (draft.publish # <<>> => ~F!publishFault(draft.publish[1], draft.filter, p))
    BY NoFaults
  <1>5. /\ back.name = draft.name /\ back.filter = draft.filter
        /\ back.condition = F!conditionOf(draft.condition) /\ back.for = F!seconds(draft.for)
        /\ back.clear = [i \in DOMAIN draft.clear |-> F!conditionOf(draft.clear[i])]
    BY RuleParts
  <1>6. /\ ~F!Fault(back.condition) /\ F!Binds(back.condition)
        /\ (F!AlreadyADuration(back.condition) => F!alreadyADuration(draft.condition))
    BY <1>2, <1>3, <1>4, <1>5, ConditionSent, ConditionBinds
  <1>7. \A i \in DOMAIN back.clear : F!Binds(back.clear[i])
    <2>. DEFINE l == draft.clear
    <2>1. ASSUME NEW i \in DOMAIN l  PROVE F!Binds(F!conditionOf(l[i]))
      <3>1. l[i] \in F!ToSet(l)
        BY DEF F!ToSet
      <3>2. l \in Seq(Conditions) /\ Len(l) <= 1
        BY <1>1, <1>2
      <3>3. l[i] \in Conditions /\ l # <<>> /\ i = 1
        <4>. HIDE DEF l
        <4>. QED  BY <2>1, <3>2
      <3>4. ~F!conditionFault(l[i])
        BY <1>4, <3>3
      <3>. QED  BY <1>3, <3>1, <3>3, <3>4, ConditionBinds
    <2>. HIDE DEF back
    <2>. QED  BY <1>5, <2>1
  <1>8. \A i \in DOMAIN back.actions : ~F!ActionFault(back.actions[i], back.filter)
    <2>1. \A i \in DOMAIN back.actions : back.actions[i] \in Sent(draft)
      BY <1>1, ChannelsSent
    <2>2. /\ \A w \in F!ToSet(draft.webhook) :
               w.url # "mended" /\ \A h \in F!ToSet(w.headers) : h.value # "huge" /\ "c1" \notin {h.name, h.value}
          /\ \A b \in F!ToSet(draft.publish) : "uncarried" \notin F!ToSet(b.topic)
          /\ p = Prefix \/ \A b \in F!ToSet(draft.publish) : b.topic = <<>> \/ F!Inside(b.topic)
          /\ \A x \in F!ToSet(draft.extra) : ~F!ActionFault(x, draft.filter)
      BY DEF F!Unread, F!Unseen, F!AtOdds
    <2>3. \A a \in Sent(draft) : ~F!ActionFault(a, draft.filter)
      BY <1>1, <1>4, <2>2, ChannelTaken
    <2>. HIDE DEF back
    <2>. QED  BY <1>5, <2>1, <2>3
  <1>9. ASSUME back.for # <<>>  PROVE ~F!AlreadyADuration(back.condition) /\ back.for[1] \in 0..Widest
    <2>1. draft.for # "" /\ back.for = <<F!numberOf(draft.for)>>
      BY <1>5, <1>9 DEF F!seconds
    <2>2. draft.for \in DOMAIN Reads /\ Reads[draft.for] >= 0
      BY <1>4, <2>1 DEF F!wholeSeconds, F!whole, F!finite
    <2>3. F!numberOf(draft.for) = Reads[draft.for]
      BY <2>2 DEF F!numberOf
    <2>. HIDE DEF back
    <2>4. back.for[1] = Reads[draft.for]
      <3>. DEFINE l == back.for
                  n == F!numberOf(draft.for)
      <3>1. l = <<n>>
        BY <2>1
      <3>. HIDE DEF l, n
      <3>2. l[1] = n
        BY <3>1
      <3>. QED  BY <2>3, <3>2 DEF l, n
    <2>5. ~F!AlreadyADuration(back.condition)
      BY <1>4, <1>6, <2>1
    <2>6. ~(Reads[draft.for] > Widest)
      BY <2>2 DEF F!Unseen, F!TooWide
    <2>7. Reads[draft.for] \in Int /\ Widest \in Int
      BY <2>2, TextsRead, PicksTyped, Zenon
    <2>. QED  BY <2>2, <2>4, <2>5, <2>6, <2>7
  <1>10. F!IsValidFilter(draft.filter)
    <2>1. "uncarried" \notin F!ToSet(draft.filter)
      BY DEF F!Unseen
    <2>. QED  BY <1>4, <2>1 DEF F!IsValidFilter, F!filterFault
  <1>11. ~F!Covers(draft.filter)
    <2>1. CASE p = Prefix
      BY <1>2, <1>4, <2>1, CoversAlike DEF F!filterFault
    <2>2. CASE ~F!AtOdds(draft)
      BY <2>2 DEF F!AtOdds
    <2>. QED  BY <2>1, <2>2
  <1>. HIDE DEF back
  <1>. QED  BY <1>4, <1>5, <1>6, <1>7, <1>8, <1>9, <1>10, <1>11, Zenon DEF F!ServerTakes, back

\* The sheet is of the form's types.
LEMMA SheetTyped == FormInv => F!TypeOK
  <1>. SUFFICES ASSUME FormInv  PROVE F!TypeOK
    OBVIOUS
  <1>1. draft.condition \in Conditions
    BY DEF FormInv, SheetTypes, Sheets
  <1>2. draft.condition.type \in F!SIMPLE_TYPES \cup F!Joiners \cup {"opaque"}
    BY <1>1, BoxTypes DEF Conditions
  <1>. QED  BY <1>2 DEF F!TypeOK, FormInv, SheetTypes

\* What the form was opened with is what it saves, except where it was edited, and what it lets
\* a reader save the server takes, whatever rules it holds and whatever is typed.
THEOREM AFormKeepsItsRule == F!Spec => []FormsKeepTheRule
  <1>1. FormInv => FormsKeepTheRule
    BY SheetTyped, OpenedKept, SavedTaken DEF FormsKeepTheRule
  <1>. QED  BY <1>1, FormAlways, PTL
=============================================================================
