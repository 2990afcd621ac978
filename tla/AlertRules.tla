----------------------------- MODULE AlertRules -----------------------------
(* The alert rules and those who write them.  Every write is a whole list: the *)
(* newest list is fetched at the write, one rule of it changed, and the list   *)
(* put back.  The panel's switch and its delete, the editor's save and another *)
(* console all do so, each behind a guard of its own; the editor keeps what is *)
(* being typed in a map of drafts outside the panel that shows it.             *)
(*                                                                             *)
(* What a rule says is one number, 0 where it says nothing a server would      *)
(* take.  A console has one read of the list out at a time, and whoever asks   *)
(* meanwhile shares it: the query cache's own doing.                           *)
EXTENDS Naturals, Sequences, SequencesExt, FiniteSets, Functions, Sieve

CONSTANTS MaxText, MaxPresses, MaxTyped, MaxPanels, MaxDrafts, MaxLost

RulesAssumption == MaxText \in Nat \ {0}

VARIABLES
    server,     \* the rules in the file's order: [id, says, of], of the draft it was added from
    ids,        \* ids handed out
    shown,      \* the list each console holds
    read,       \* each console's read: how far it has come, and the list once it is served
    writes,     \* writes not answered yet
    drafts,     \* drafts by id: [rule, says, from], rule 0 where the server has none
    count,      \* drafts made of rules that did not exist
    panel,      \* the panel, counted as it is opened; 0 while it is shut
    editing,    \* the editor, a sequence of at most one: [draft, opened, mount]
    leaving,    \* the reader is being asked whether they meant to leave
    opened,     \* panels opened and editors mounted
    presses, typed, lost

vars == <<server, ids, shown, read, writes, drafts, count, panel, editing, leaving, opened,
          presses, typed, lost>>

screen == <<drafts, count, panel, editing, leaving, opened, typed>>

Consoles == {"here", "there"}
Texts    == 0..MaxText
Ids(rules) == {rules[i].id : i \in DOMAIN rules}

-----------------------------------------------------------------------------
(* The list to put, with one rule of it changed.                               *)

\* In place where the list holds the id, at the end where it does not.  A rule of no id is
\* one the server has never seen.
saveRule(stored, rule) ==
    IF rule.id # 0 /\ rule.id \in Ids(stored)
    THEN [i \in DOMAIN stored |-> IF stored[i].id = rule.id THEN rule ELSE stored[i]]
    ELSE Append(stored, rule)

removeRule(stored, id) == Sieved(stored, {r \in ToSet(stored) : r.id # id})

Changed(stored, change) == IF change.kind = "remove" THEN removeRule(stored, change.rule.id)
                                                     ELSE saveRule(stored, change.rule)

\* The server gives an id to a rule that came without one.
Numbered(rules) == [i \in DOMAIN rules |-> IF rules[i].id = 0 THEN [rules[i] EXCEPT !.id = ids + 1]
                                                              ELSE rules[i]]

-----------------------------------------------------------------------------

NoRead == [stage |-> "none", list |-> <<>>]
Out    == [stage |-> "out", list |-> <<>>]

first == <<[id |-> 1, says |-> 1, of |-> 0], [id |-> 2, says |-> 1, of |-> 0]>>

Init ==
    /\ server = first /\ ids = 2
    /\ shown = [c \in Consoles |-> first] /\ read = [c \in Consoles |-> NoRead]
    /\ writes = {}
    /\ drafts = [d \in {} |-> <<>>] /\ count = 0
    /\ panel = 0 /\ editing = <<>> /\ leaving = FALSE /\ opened = 0
    /\ presses = 0 /\ typed = 0 /\ lost = 0

-----------------------------------------------------------------------------
(* A write.                                                                    *)

\* The read a console has out, or one of its own: the list it will hold is not known yet.
Asked(c) == read' = [read EXCEPT ![c] = IF @ = NoRead THEN Out ELSE @]

\* Mutant: nothing is asked of a write already out.
GuardedByNobody(who, mount) == TRUE

\* The guard is the mutation's own, set at the press and freed when it settles.
Guarded(who, mount) == \A w \in writes : w.who = who => w.mount # mount

Press(who, c, mount, change, draft) ==
    /\ presses < MaxPresses /\ presses' = presses + 1
    /\ Guarded(who, mount)
    /\ writes' = writes \cup {[who |-> who, at |-> c, mount |-> mount, change |-> change,
                               draft |-> draft, in |-> panel, stage |-> "reading",
                               base |-> <<>>, list |-> <<>>, pressed |-> presses, typed |-> typed]}
    /\ Asked(c)
    /\ UNCHANGED <<server, ids, shown, lost>>

\* The server reads the file for a console.
Served(c) ==
    /\ read[c].stage = "out"
    /\ read' = [read EXCEPT ![c] = [stage |-> "served", list |-> server]]
    /\ UNCHANGED <<server, ids, shown, writes, presses, lost, screen>>

\* Mutant: a write is built on the list the console has been showing.
CacheOf(c) == shown[c]

\* What a write is built on: the list as the read brings it.
Newest(c) == read[c].list

\* The read comes in: the console shows it, and whoever asked builds a list on it and puts
\* that.
ReadLands(c) ==
    LET got == read[c].list IN
    /\ read[c].stage = "served"
    /\ shown' = [shown EXCEPT ![c] = got]
    /\ read' = [read EXCEPT ![c] = NoRead]
    /\ writes' = {IF w.at = c /\ w.stage = "reading"
                  THEN [w EXCEPT !.stage = "putting", !.base = got, !.list = Changed(Newest(c), w.change)]
                  ELSE w : w \in writes}
    /\ UNCHANGED <<server, ids, presses, lost, screen>>

\* A read that fails fails the writes that asked for it.
ReadFails(c) ==
    /\ read[c] # NoRead /\ lost < MaxLost /\ lost' = lost + 1
    /\ read' = [read EXCEPT ![c] = NoRead]
    /\ writes' = {w \in writes : w.at # c \/ w.stage # "reading"}
    /\ UNCHANGED <<server, ids, shown, presses, screen>>

\* The server takes the whole list.
PutTaken(w) ==
    /\ w.stage = "putting"
    /\ server' = Numbered(w.list)
    /\ ids' = IF 0 \in Ids(w.list) THEN ids + 1 ELSE ids
    /\ writes' = (writes \ {w}) \cup {[w EXCEPT !.stage = "taken", !.base = <<>>, !.list = Numbered(w.list)]}
    /\ UNCHANGED <<shown, read, presses, lost, screen>>

\* The put is refused or never arrives, or its answer is lost: the draft is left as it was.
WriteFails(w) ==
    /\ w.stage \in {"putting", "taken"} /\ lost < MaxLost /\ lost' = lost + 1
    /\ writes' = writes \ {w}
    /\ UNCHANGED <<server, ids, shown, read, presses, screen>>

forgetDraft(d) == drafts' = Restrict(drafts, DOMAIN drafts \ {d})

\* Done: the list is read again.  After a save the list shown is what the server took, the
\* draft has become a rule, and the panel that held the editor shows the list.
WriteDone(w) ==
    /\ w.stage = "taken"
    /\ writes' = writes \ {w}
    /\ read' = [read EXCEPT ![w.at] = Out]
    /\ IF w.who = "editor"
       THEN /\ shown' = [shown EXCEPT ![w.at] = w.list]
            /\ forgetDraft(w.draft)
            /\ IF panel = w.in THEN editing' = <<>> /\ leaving' = FALSE
                               ELSE UNCHANGED <<editing, leaving>>
       ELSE UNCHANGED <<shown, drafts, editing, leaving>>
    /\ UNCHANGED <<server, ids, count, panel, opened, presses, typed, lost>>

-----------------------------------------------------------------------------
(* The panel and its editor.                                                   *)

Still == UNCHANGED <<server, ids, shown, read, writes, presses, lost>>

OpenPanel ==
    /\ panel = 0 /\ opened < MaxPanels
    /\ opened' = opened + 1 /\ panel' = opened + 1
    /\ UNCHANGED <<drafts, count, editing, leaving, typed>> /\ Still

\* The panel is shut over whatever it shows: the drafts outlive it.
ClosePanel ==
    /\ panel # 0 /\ panel' = 0
    /\ editing' = <<>> /\ leaving' = FALSE
    /\ UNCHANGED <<drafts, count, opened, typed>> /\ Still

\* startRuleDraft: the draft there is of this rule, or one made of the rule as it is shown;
\* and the copy the editor opened on.
Opens(d, made) ==
    /\ panel # 0 /\ editing = <<>> /\ opened < MaxPanels
    /\ opened' = opened + 1
    /\ drafts' = [e \in DOMAIN drafts \cup {d} |-> IF e \in DOMAIN drafts THEN drafts[e] ELSE made]
    /\ editing' = <<[draft |-> d, opened |-> drafts'[d].says, mount |-> opened + 1]>>
    /\ leaving' = FALSE
    /\ UNCHANGED <<panel, typed>> /\ Still

EditRule(r) == /\ Opens(<<"rule", r.id>>, [rule |-> r.id, says |-> r.says, from |-> r.says])
               /\ UNCHANGED count

NewRule == /\ count < MaxDrafts /\ count' = count + 1
           /\ Opens(<<"draft", count + 1>>, [rule |-> 0, says |-> 0, from |-> 0])

Draft == drafts[editing[1].draft]
Editor == editing # <<>> /\ editing[1].draft \in DOMAIN drafts

Type(t) ==
    /\ Editor /\ typed < MaxTyped /\ typed' = typed + 1
    /\ t # Draft.says
    /\ drafts' = [drafts EXCEPT ![editing[1].draft].says = t]
    /\ UNCHANGED <<count, panel, editing, leaving, opened>> /\ Still

leave == /\ forgetDraft(editing[1].draft) /\ editing' = <<>> /\ leaving' = FALSE

\* Back and Escape: a draft nobody has typed into goes silently, another is asked about.
Filled == Editor /\ Draft.says # editing[1].opened

\* Mutant: Back leaves at once, whatever was typed.
BackAtOnce == editing # <<>> /\ leave /\ UNCHANGED <<count, panel, opened, typed>> /\ Still

Back ==
    /\ editing # <<>>
    /\ IF Filled THEN leaving' = TRUE /\ UNCHANGED <<drafts, editing>> ELSE leave
    /\ UNCHANGED <<count, panel, opened, typed>> /\ Still

KeepWriting == /\ leaving /\ leaving' = FALSE
               /\ UNCHANGED <<drafts, count, panel, editing, opened, typed>> /\ Still

Discard == /\ leaving /\ leave
           /\ UNCHANGED <<count, panel, opened, typed>> /\ Still

\* Save: the draft as a rule, where it is one the server would take.
Save ==
    /\ Editor /\ Draft.says # 0
    /\ LET d == editing[1].draft IN
       Press("editor", "here", editing[1].mount,
             [kind |-> "save", rule |-> [id |-> Draft.rule, says |-> Draft.says,
                                         of |-> IF Draft.rule = 0 THEN d[2] ELSE 0]], d)
    /\ UNCHANGED screen

\* The switch writes the rule as the panel shows it, flicked; the cross takes it out.
Flicks(who, c, mount, r) ==
    \/ \E t \in Texts \ {0, r.says} :
          Press(who, c, mount, [kind |-> "save", rule |-> [r EXCEPT !.says = t]], <<>>)
    \/ Press(who, c, mount, [kind |-> "remove", rule |-> r], <<>>)

Switch(r) == /\ panel # 0 /\ editing = <<>>
             /\ Flicks("panel", "here", panel, r) /\ UNCHANGED screen

\* The same page on somebody's phone.
Phone(r) == Flicks("phone", "there", 0, r) /\ UNCHANGED screen

Next ==
    \/ \E c \in Consoles : Served(c) \/ ReadLands(c) \/ ReadFails(c)
    \/ \E w \in writes : PutTaken(w) \/ WriteFails(w) \/ WriteDone(w)
    \/ OpenPanel \/ ClosePanel \/ NewRule \/ Back \/ KeepWriting \/ Discard \/ Save
    \/ \E r \in ToSet(shown["here"]) : EditRule(r) \/ Switch(r)
    \/ \E r \in ToSet(shown["there"]) : Phone(r)
    \/ \E t \in Texts : Type(t)

Spec == Init /\ [][Next]_vars

-----------------------------------------------------------------------------
(* Properties.                                                                 *)

TypeOK ==
    /\ \A r \in ToSet(server) : r.id \in 1..ids /\ r.says \in Texts
    /\ \A i, j \in DOMAIN server : server[i].id = server[j].id => i = j
    /\ \A d \in DOMAIN drafts : drafts[d].says \in Texts /\ drafts[d].rule \in 0..ids
    /\ \A w \in writes : w.stage \in {"reading", "putting", "taken"}
    /\ (leaving => editing # <<>>) /\ (editing # <<>> => panel # 0)

Took(w) == w \in writes /\ w.stage = "putting"
           /\ \E v \in writes' : v.pressed = w.pressed /\ v.stage = "taken"

\* What a list holds of a rule: nothing, where it does not stand there.
Of(rules, id) == {r \in ToSet(rules) : r.id = id}

\* A write changes the one rule it is about; of the others it takes back, brings back or lets
\* go only what somebody put between the read it was built on and its own put.
OneRuleAtATime ==
    [][\A w \in writes : Took(w) =>
          \A id \in 1..ids \ {w.change.rule.id} :
              Of(server', id) = Of(server, id) \/ Of(server, id) # Of(w.base, id)]_vars

\* What has been typed into the editor on screen goes only with an answer to the question or
\* with its own save, and what that save did not take was typed after Save was pressed.
Gone(d) == d \in DOMAIN drafts /\ d \notin DOMAIN drafts'
SavedNow(d) == \E w \in writes : /\ w.who = "editor" /\ w.draft = d
                                 /\ w.stage = "taken" /\ w \notin writes'
                                 /\ w.change.rule.says = drafts[d].says \/ w.typed < typed

NothingTypedIsLost ==
    [][(Filled /\ Gone(editing[1].draft)) => (leaving \/ SavedNow(editing[1].draft))]_vars

\* One draft becomes one rule, however often Save is pressed: unless an answer was lost.
OneDraftOneRule ==
    lost = 0 => \A i, j \in DOMAIN server : (server[i].of # 0 /\ server[i].of = server[j].of) => i = j
=============================================================================
