----------------------------- MODULE PublishForm -----------------------------
(***************************************************************************)
(* The publish form and what fills it: a click on a row of the topic tree  *)
(* or of the log loads a draft, the form takes it, the reader edits, folds *)
(* the region away and opens it again, and presses Publish                 *)
(* (features/publish/PublishPanel.tsx, stores/composeStore.ts,             *)
(* TopicTree.tsx onSelect, LogEntryRow.tsx reload).                        *)
(*                                                                         *)
(* A message is a number, in the order they arrive; what it says and how   *)
(* it was sent are functions of it.  Keep stands for a part a draft does   *)
(* not carry, and Typed for what the reader wrote.                         *)
(***************************************************************************)
EXTENDS Naturals, FiniteSets

CONSTANTS
    Topics, Places,  \* topics, and branches with no message of their own
    Ways,            \* how a message goes out: its QoS and its retain flag
    Modes,           \* how a body is written; "hex" is the one that may not encode
    None, Keep, Typed,
    Default,         \* what a form that has just been mounted holds
    MaxMessages,     \* bound: arrivals
    MaxMoves,        \* bound: edits, folds, holds and forgotten runs
    MaxPresses       \* bound: publishes

FormAssumption ==
    /\ Default.way \in Ways /\ Default.mode \in Modes /\ Default.topic \notin Places
    /\ Keep # Typed
    /\ \A v \in {None, Keep, Typed} : v \notin Topics \cup Places \cup Ways \cup Modes \cup Nat

VARIABLES
    said,     \* the messages that arrived: their topic, way, mode and length
    live,     \* the newest message of each topic's node in the tree
    frozen,   \* the one a held topic's row goes on saying
    log,      \* the newest message of each topic's run in the log
    held,     \* the topics under a hold, whose rows stand still
    draft,    \* composeStore.draft; of, still and taken are ghosts: the message it was made
              \* from, whether its row had only the front of a message a newer one has
              \* followed since, and whether the form has had it
    way,      \* composeStore.qos and .retain
    form,     \* the mounted panel's own topic and payload, or None while folded
    pending,  \* the publish that has not been answered
    fault,    \* the line at the button: Not sent
    aimed,    \* ghost: the message the form was filled from and nobody has edited
    moves, presses

vars == <<said, live, frozen, log, held, draft, way, form, pending, fault, aimed, moves, presses>>
traffic == <<said, live, frozen, log, held>>
sending == <<pending, fault, presses>>

Arrived == DOMAIN said
Row(t) == IF t \in held THEN frozen[t] ELSE live[t]
Mounted == [topic |-> Default.topic, payload |-> Typed, mode |-> Default.mode]

Init ==
    /\ said = <<>>
    /\ live = [t \in Topics |-> None] /\ frozen = live /\ log = live
    /\ held = {} /\ draft = None /\ way = Default.way
    /\ form = Mounted
    /\ pending = None /\ fault = FALSE /\ aimed = None /\ moves = 0 /\ presses = 0

----------------------------------------------------------------------------
(* What the reader is looking at. *)

\* An arrival lands in the tree and in the log.
Arrives(t, w, m, long) ==
    LET i == Cardinality(Arrived) + 1 IN
    /\ i <= MaxMessages
    /\ said' = [n \in 1..i |-> IF n = i THEN [topic |-> t, way |-> w, mode |-> m, long |-> long]
                                        ELSE said[n]]
    /\ log' = [log EXCEPT ![t] = i] /\ live' = [live EXCEPT ![t] = i]
    /\ UNCHANGED <<frozen, held, draft, way, form, sending, aimed, moves>>

Moves == moves < MaxMoves /\ moves' = moves + 1

\* The log gives a topic's run up to its ceiling.
RunForgotten(t) ==
    /\ Moves /\ log[t] # None /\ log' = [log EXCEPT ![t] = None]
    /\ UNCHANGED <<said, live, frozen, held, draft, way, form, sending, aimed>>

\* A held row goes on saying what it said when it was taken, and catches up when
\* it is let go.
Hold(t) ==
    /\ Moves /\ t \notin held /\ live[t] # None
    /\ held' = held \cup {t} /\ frozen' = [frozen EXCEPT ![t] = live[t]]
    /\ UNCHANGED <<said, live, log, draft, way, form, sending, aimed>>

Release(t) ==
    /\ Moves /\ t \in held /\ held' = held \ {t}
    /\ UNCHANGED <<said, live, frozen, log, draft, way, form, sending, aimed>>

----------------------------------------------------------------------------
(* Filling the form. *)

Or(value, standing) == IF value = Keep THEN standing ELSE value

\* Mutant: the body fills the form, and its mode is left as it stood.
FilledBody(d, f) == [topic |-> d.topic, payload |-> Or(d.payload, f.payload), mode |-> f.mode]

\* What a draft writes into a mounted form; a part it does not carry is left alone.
Filled(d, f) == [topic |-> d.topic, payload |-> Or(d.payload, f.payload), mode |-> Or(d.mode, f.mode)]

\* The message a draft carries whole, if it does.
Of(d) == IF d # None /\ d.payload # Keep THEN d.of ELSE None

Load(d) ==
    /\ draft' = [d EXCEPT !.taken = form # None]
    /\ IF form = None THEN UNCHANGED <<form, way, aimed>>
       ELSE /\ form' = Filled(d, form)
            /\ way' = Or(d.way, way)
            /\ aimed' = Of(d)
    /\ UNCHANGED <<traffic, sending, moves>>

\* The body a topic's row hands over: the tree's own, or, where the tree holds only
\* the front of it, the newest one the log has, whatever the row itself is saying.
RowBody(t) ==
    IF ~said[Row(t)].long THEN Row(t)
    ELSE IF log[t] = None THEN Keep ELSE log[t]

\* A hold stands the row still on a message the tree cut, and a newer one has come since.
Overtaken(t) == t \in held /\ said[Row(t)].long /\ live[t] # Row(t)

PickTopic(t) ==
    /\ Row(t) # None
    /\ Load([topic |-> t, payload |-> RowBody(t), mode |-> said[Row(t)].mode,
             way |-> said[Row(t)].way, of |-> Row(t), still |-> Overtaken(t), taken |-> FALSE])

\* A branch with no message of its own hands over its path and nothing else.
PickPlace(p) == Load([topic |-> p, payload |-> Keep, mode |-> Keep, way |-> Keep,
                      of |-> None, still |-> FALSE, taken |-> FALSE])

\* A row of the log hands over the whole message.
PickEntry(i) ==
    Load([topic |-> said[i].topic, payload |-> i, mode |-> said[i].mode,
          way |-> said[i].way, of |-> i, still |-> FALSE, taken |-> FALSE])

----------------------------------------------------------------------------
(* The reader's own hand. *)

Edit ==
    /\ Moves /\ form # None
    /\ \/ \E t \in Topics : t # form.topic /\ form' = [form EXCEPT !.topic = t]
       \/ form.payload # Typed /\ form' = [form EXCEPT !.payload = Typed]
       \/ \E m \in Modes \ {form.mode} : form' = [form EXCEPT !.mode = m]
    /\ aimed' = None
    /\ UNCHANGED <<traffic, draft, way, sending>>

SetWay ==
    /\ Moves /\ form # None /\ way' \in Ways \ {way} /\ aimed' = None
    /\ UNCHANGED <<traffic, draft, form, sending>>

\* Folding the region unmounts the panel: its own fields and its line go with it,
\* and what it was sending is answered to nobody.
Fold ==
    /\ Moves /\ form # None /\ form' = None
    /\ pending' = None /\ fault' = FALSE /\ aimed' = None
    /\ UNCHANGED <<traffic, draft, way, presses>>

\* Mounted again, it takes whatever draft is standing in the store.
Unfold ==
    /\ Moves /\ form = None
    /\ form' = IF draft = None THEN Mounted ELSE Filled(draft, Mounted)
    /\ way' = IF draft = None THEN way ELSE Or(draft.way, way)
    /\ aimed' = Of(draft)
    /\ draft' = IF draft = None THEN None ELSE [draft EXCEPT !.taken = TRUE]
    /\ UNCHANGED <<traffic, sending>>

----------------------------------------------------------------------------
(* Sending. *)

\* A body written as text is no hex; what the reader types may be either.
Encodes == form.mode = "hex" /\ form.payload # Typed => said[form.payload].mode = "hex"

Sends == [topic |-> form.topic, payload |-> form.payload, mode |-> form.mode, way |-> way]

Publish ==
    /\ presses < MaxPresses /\ presses' = presses + 1
    /\ form # None /\ pending = None /\ Encodes
    /\ pending' = Sends /\ fault' = FALSE
    /\ UNCHANGED <<traffic, draft, way, form, aimed, moves>>

Accepted ==
    /\ pending # None /\ pending' = None
    /\ UNCHANGED <<traffic, draft, way, form, fault, aimed, moves, presses>>

Refused ==
    /\ pending # None /\ pending' = None /\ fault' = TRUE
    /\ UNCHANGED <<traffic, draft, way, form, aimed, moves, presses>>

Next ==
    \/ \E t \in Topics, w \in Ways, m \in Modes, long \in BOOLEAN : Arrives(t, w, m, long)
    \/ \E t \in Topics : RunForgotten(t) \/ Hold(t) \/ Release(t) \/ PickTopic(t)
    \/ \E p \in Places : PickPlace(p)
    \/ \E i \in Arrived : PickEntry(i)
    \/ Edit \/ SetWay \/ Fold \/ Unfold
    \/ Publish \/ Accepted \/ Refused

Spec == Init /\ [][Next]_vars

----------------------------------------------------------------------------
(* What is asked of it. *)

TypeOK ==
    /\ \A i \in Arrived : said[i].topic \in Topics /\ said[i].way \in Ways /\ said[i].mode \in Modes
    /\ \A t \in Topics : {live[t], frozen[t], log[t]} \subseteq Arrived \cup {None}
    /\ held \subseteq Topics /\ way \in Ways /\ fault \in BOOLEAN
    /\ form # None => form.payload \in Arrived \cup {Typed} /\ form.mode \in Modes
    /\ aimed \in Arrived \cup {None}

\* A form filled from a message and not edited since goes to its topic, in its mode and
\* the way it was sent, with a body that topic has carried, however the region has been
\* folded and whatever has arrived or been given up since; and the body is the
\* message's own, whole.  One row does not keep the last of it: held on a message the tree
\* cut, with a newer one behind the hold, it hands over the body of the newer
\* (TopicTree.tsx 124-138).
SentAsItWas ==
    form # None /\ aimed # None =>
        /\ form.topic = said[aimed].topic
        /\ form.mode = said[aimed].mode /\ way = said[aimed].way
        /\ form.payload \in Arrived /\ said[form.payload].topic = form.topic
        /\ ~draft.still => form.payload = aimed

\* Folding the region away and opening it again leaves the reader's QoS and retain
\* flag as they were, unless something new was clicked in between
\* (PublishPanel.tsx 26-28, composeStore.ts 26 and 49-56).
FoldKeepsTheWay ==
    [][form = None /\ form' # None /\ (draft # None => draft.taken) => way' = way]_vars
=============================================================================
