---------------------------- MODULE PanelsProofs ----------------------------
(***************************************************************************)
(* Proofs about what stands round the traffic, for every value of the      *)
(* constants: what the sound of an alarm owes its reader (AlertSound),     *)
(* what the publish form sends (PublishForm), where the Broker panel dials *)
(* and what it offers next (BrokerPanel), what the tree and the notice     *)
(* tell of a link and its sessions (LinkWatch), and which alarms a console *)
(* shows once nothing is on its way (Alerts).  The properties are the ones *)
(* MCPanels states, and each specification is the component's own, with    *)
(* none of the parts TLC runs it in.                                       *)
(***************************************************************************)
EXTENDS MCPanels, SieveProofs, FiniteSetTheorems, SequenceTheorems, TLAPS

-----------------------------------------------------------------------------
(* The sound of an alarm.                                                    *)

\* Nothing is owed where the browser has no audio, for nothing could pay it.
OwedIsPayable == context = "never" => ~waiting /\ ~armed

SoundTypes ==
  /\ on \in BOOLEAN /\ armed \in BOOLEAN /\ waiting \in BOOLEAN /\ gesture \in BOOLEAN
  /\ asked \in Nat /\ context \in {"none", "suspended", "running", "never"}

SoundInv == SoundTypes /\ OwedIsPayable /\ S!WaitingIsUnarmed

\* The invariant holds as the page opens.
LEMMA SoundStarts == S!Init => SoundInv
  <1>. SUFFICES ASSUME S!Init  PROVE SoundInv
    OBVIOUS
  <1>1. ~armed /\ ~waiting /\ asked = 0 /\ pressing = "nothing"
    BY DEF S!Init
  <1>2. SoundTypes
    BY DEF S!Init, SoundTypes
  <1>. QED  BY <1>1, <1>2 DEF SoundInv, OwedIsPayable, S!WaitingIsUnarmed

\* What arming does, by what the browser lets the page have.
LEMMA Arming ==
  ASSUME SoundInv, S!armSound
  PROVE  /\ context' \in {"suspended", "running", "never"}
         /\ armed' \in BOOLEAN /\ waiting' \in BOOLEAN /\ asked' \in Nat
         /\ context' = "never" => ~waiting' /\ ~armed'
         /\ waiting /\ ~waiting' => armed'
         /\ waiting' => waiting /\ ~armed'
  <1>. USE DEF SoundInv, SoundTypes, OwedIsPayable, S!WaitingIsUnarmed, S!armSound, S!audio, S!Answered
  <1>1. CASE context = "never"
    BY <1>1
  <1>2. CASE context = "running"
    BY <1>2
  <1>3. CASE context \in {"none", "suspended"}
    BY <1>3
  <1>. QED  BY <1>1, <1>2, <1>3

\* Every step of the page keeps it.
LEMMA SoundSteps == SoundInv /\ [S!Next]_(S!vars) => SoundInv'
  <1>. SUFFICES ASSUME SoundInv, [S!Next]_(S!vars)
                PROVE  SoundInv'
    OBVIOUS
  <1>. USE DEF SoundInv, SoundTypes, OwedIsPayable, S!WaitingIsUnarmed
  <1>1. CASE S!Resumes
    BY <1>1 DEF S!Resumes, S!Answered
  <1>2. CASE S!Suspends
    BY <1>2 DEF S!Suspends
  <1>3. CASE S!soundAlert
    BY <1>3 DEF S!soundAlert, S!audio
  <1>4. ASSUME NEW what \in {"switch", "prompt", "elsewhere"}, S!PointerDown(what)
        PROVE  SoundInv'
    <2>1. CASE gesture
      BY <1>4, <2>1, Arming DEF S!PointerDown
    <2>2. CASE ~gesture
      BY <1>4, <2>2 DEF S!PointerDown
    <2>. QED  BY <2>1, <2>2
  <1>5. CASE S!Click
    <2>1. CASE S!turnSoundOn
      BY <1>5, <2>1, Arming DEF S!Click, S!turnSoundOn
    <2>2. CASE S!turnSoundOff
      BY <1>5, <2>2 DEF S!Click, S!turnSoundOff
    <2>3. CASE UNCHANGED <<on, context, armed, waiting, asked>>
      BY <1>5, <2>3 DEF S!Click
    <2>. QED  BY <1>5, <2>1, <2>2, <2>3 DEF S!Click
  <1>6. CASE UNCHANGED S!vars
    BY <1>6 DEF S!vars
  <1>. QED  BY <1>1, <1>2, <1>3, <1>4, <1>5, <1>6 DEF S!Next

\* A missed tone is forgotten only once the page is heard or the sound put off.
LEMMA SoundPays ==
  SoundInv /\ [S!Next]_(S!vars) => [(waiting /\ ~waiting') => (armed' \/ ~on')]_(S!vars)
  <1>. SUFFICES ASSUME SoundInv, S!Next
                PROVE  (waiting /\ ~waiting') => (armed' \/ ~on')
    OBVIOUS
  <1>. USE DEF SoundInv, SoundTypes, OwedIsPayable
  <1>1. CASE S!Resumes
    BY <1>1 DEF S!Resumes, S!Answered
  <1>2. CASE S!Suspends \/ S!soundAlert
    BY <1>2 DEF S!Suspends, S!soundAlert
  <1>3. ASSUME NEW what \in {"switch", "prompt", "elsewhere"}, S!PointerDown(what)
        PROVE  (waiting /\ ~waiting') => (armed' \/ ~on')
    BY <1>3, Arming DEF S!PointerDown
  <1>4. CASE S!Click
    <2>1. CASE S!turnSoundOn
      BY <2>1, Arming DEF S!turnSoundOn
    <2>2. CASE pressing = "switch" /\ on /\ armed
      BY <1>4, <2>2 DEF S!Click, S!turnSoundOff
    <2>3. CASE UNCHANGED <<on, context, armed, waiting, asked>>
      BY <2>3
    <2>. QED  BY <1>4, <2>1, <2>2, <2>3 DEF S!Click
  <1>. QED  BY <1>1, <1>2, <1>3, <1>4 DEF S!Next

\* A tone that was missed is owed until the page can be heard or the sound is put off, and all
\* that while the line that says so stands, however many answers of the browser are out and
\* whatever they say (alertSound, SoundPrompt).
THEOREM MissedTonesAreOwed == S!Spec => OwedUntilHeard
  <1>1. S!Spec => []SoundInv
    BY SoundStarts, SoundSteps, PTL DEF S!Spec
  <1>2. SoundInv => S!WaitingIsUnarmed
    BY DEF SoundInv
  <1>. QED
    BY <1>1, <1>2, SoundPays, PTL DEF S!Spec, OwedUntilHeard, S!OwedUntilHeard
-----------------------------------------------------------------------------
(* What the publish form sends.                                              *)

Message == [topic : Topics, way : Ways, mode : Modes, long : BOOLEAN]

\* Messages are numbered in the order they arrived.
Numbered == \E n \in Nat : heard \in [1..n -> Message]

\* A topic's row says the newest of that topic, and what the log has of it is the same one.
RowsAreTheirTopics ==
  \A t \in Topics :
    /\ live[t] # None => live[t] \in DOMAIN heard /\ heard[live[t]].topic = t
    /\ frozen[t] # None => frozen[t] \in DOMAIN heard /\ heard[frozen[t]].topic = t
    /\ log[t] # None => log[t] = live[t]

\* What is on its way to a topic, in a mode and a way, is message i: as it was said, with a
\* body its topic has carried, and its own unless the row had been overtaken.
SaidAs(topic, payload, mode, w, i, overtaken) ==
  /\ topic = heard[i].topic /\ mode = heard[i].mode /\ w = heard[i].way
  /\ payload \in DOMAIN heard /\ heard[payload].topic = topic
  /\ ~overtaken => payload = i

\* A draft that carries a body carries a message whole, or one that was overtaken.
Whole(d) == d.of \in DOMAIN heard /\ SaidAs(d.topic, d.payload, d.mode, d.way, d.of, d.still)

GoodDraft(d) ==
  /\ d.payload \in DOMAIN heard \cup {Keep0}
  /\ d.mode \in Modes \cup {Keep0} /\ d.way \in Ways \cup {Keep0}
  /\ d.payload # Keep0 => Whole(d)

Drafted == [topic : Topics \cup Places, payload : Nat \cup {Keep0}, mode : Modes \cup {Keep0},
            way : Ways \cup {Keep0}, of : Nat \cup {None}, still : BOOLEAN, taken : BOOLEAN]

DraftsAreWhole == draft # None => draft \in Drafted /\ GoodDraft(draft)

SheetTypes ==
  /\ live \in [Topics -> Nat \cup {None}] /\ frozen \in [Topics -> Nat \cup {None}]
  /\ log \in [Topics -> Nat \cup {None}]
  /\ held \subseteq Topics /\ way \in Ways /\ fault \in BOOLEAN

FormHolds ==
  /\ sheet # None => sheet.payload \in DOMAIN heard \cup {Typed0} /\ sheet.mode \in Modes
  /\ aimed \in DOMAIN heard \cup {None}

SheetInv ==
  /\ Numbered /\ SheetTypes /\ RowsAreTheirTopics /\ DraftsAreWhole /\ FormHolds
  /\ F!SentAsItWas

\* What the form asks of its constants: the marks it uses are no topics, no ways and no messages.
LEMMA Marks ==
  /\ Default.way \in Ways /\ Default.mode \in Modes /\ Keep0 # Typed0
  /\ None \notin Nat /\ Keep0 \notin Nat /\ Typed0 \notin Nat
  /\ Keep0 \notin Modes /\ Keep0 \notin Ways /\ Keep0 \notin Topics
  BY PanelsAssumption DEF F!FormAssumption

\* The form starts with nothing arrived and nothing aimed at.
LEMMA SheetStarts == F!Init => SheetInv
  <1>. SUFFICES ASSUME F!Init  PROVE SheetInv
    OBVIOUS
  <1>1. heard = <<>> /\ DOMAIN heard = {} /\ Numbered
    <2>1. heard \in [1..0 -> Message]
      BY DEF F!Init
    <2>. QED  BY <2>1 DEF F!Init, Numbered
  <1>2. SheetTypes
    BY Marks DEF F!Init, SheetTypes
  <1>3. RowsAreTheirTopics
    BY DEF F!Init, RowsAreTheirTopics
  <1>4. DraftsAreWhole /\ aimed = None
    BY DEF F!Init, DraftsAreWhole
  <1>5. FormHolds
    BY <1>4, Marks DEF F!Init, F!Mounted, FormHolds
  <1>6. F!SentAsItWas
    BY <1>4 DEF F!SentAsItWas
  <1>. QED  BY <1>1, <1>2, <1>3, <1>4, <1>5, <1>6 DEF SheetInv

\* The form counts as this module does.
LEMMA CountsAlike == \A s : F!Cardinality(s) = Cardinality(s)
  BY DEF F!Cardinality, Cardinality

\* An arrival is the next number, and says of the others what was said before.
LEMMA ArrivalsAreNew ==
  ASSUME Numbered, NEW t \in Topics, NEW w \in Ways, NEW m \in Modes, NEW long \in BOOLEAN,
         F!Arrives(t, w, m, long)
  PROVE  \E i \in Nat :
           /\ i \notin DOMAIN heard /\ DOMAIN heard' = DOMAIN heard \cup {i}
           /\ \A k \in DOMAIN heard : heard'[k] = heard[k]
           /\ heard'[i].topic = t /\ Numbered'
           /\ log' = [log EXCEPT ![t] = i] /\ live' = [live EXCEPT ![t] = i]
  <1>1. PICK n \in Nat : heard \in [1..n -> Message]
    BY DEF Numbered
  <1>. DEFINE i == n + 1
              new == [topic |-> t, way |-> w, mode |-> m, long |-> long]
  <1>2. DOMAIN heard = 1..n /\ Cardinality(1..n) = n
    BY <1>1, FS_Interval
  <1>3. F!Arrived = 1..n /\ Cardinality(F!Arrived) + 1 = i /\ i \in Nat
    BY <1>2 DEF F!Arrived
  <1>4. new \in Message /\ new.topic = t
    BY DEF Message
  <1>5. /\ heard' = [k \in 1..i |-> IF k = i THEN new ELSE heard[k]]
        /\ log' = [log EXCEPT ![t] = i] /\ live' = [live EXCEPT ![t] = i]
    <2>. DEFINE c == Cardinality(F!Arrived)
    <2>1. /\ heard' = [k \in 1..(c + 1) |-> IF k = c + 1 THEN new ELSE heard[k]]
          /\ log' = [log EXCEPT ![t] = c + 1] /\ live' = [live EXCEPT ![t] = c + 1]
      <3>. HIDE DEF c
      <3>. QED  BY CountsAlike DEF F!Arrives, c
    <2>. QED  BY <1>3, <2>1
  <1>. HIDE DEF new
  <1>6. heard' \in [1..i -> Message] /\ Numbered'
    <2>1. heard' \in [1..i -> Message]
      BY <1>1, <1>4, <1>5
    <2>. QED  BY <1>3, <2>1 DEF Numbered
  <1>7. i \notin DOMAIN heard /\ DOMAIN heard' = DOMAIN heard \cup {i}
    BY <1>2, <1>5
  <1>8. heard'[i].topic = t /\ \A k \in DOMAIN heard : heard'[k] = heard[k]
    BY <1>2, <1>4, <1>5
  <1>. HIDE DEF i
  <1>. QED  BY <1>3, <1>5, <1>6, <1>7, <1>8

\* An arrival takes nothing from the form: what it was filled from still stands.
LEMMA SheetArrives ==
  ASSUME SheetInv, NEW t \in Topics, NEW w \in Ways, NEW m \in Modes, NEW long \in BOOLEAN,
         F!Arrives(t, w, m, long)
  PROVE  SheetInv'
  <1>1. PICK i \in Nat :
           /\ i \notin DOMAIN heard /\ DOMAIN heard' = DOMAIN heard \cup {i}
           /\ \A k \in DOMAIN heard : heard'[k] = heard[k]
           /\ heard'[i].topic = t /\ Numbered'
           /\ log' = [log EXCEPT ![t] = i] /\ live' = [live EXCEPT ![t] = i]
    BY ArrivalsAreNew DEF SheetInv
  <1>2. UNCHANGED <<frozen, held, draft, way, sheet, sending, fault, aimed>>
    BY DEF F!Arrives, F!sending
  <1>3. SheetTypes'
    BY <1>1, <1>2 DEF SheetInv, SheetTypes
  <1>4. RowsAreTheirTopics'
    <2>. SUFFICES ASSUME NEW u \in Topics
                  PROVE  /\ live'[u] # None => live'[u] \in DOMAIN heard' /\ heard'[live'[u]].topic = u
                         /\ frozen'[u] # None =>
                              frozen'[u] \in DOMAIN heard' /\ heard'[frozen'[u]].topic = u
                         /\ log'[u] # None => log'[u] = live'[u]
      BY DEF RowsAreTheirTopics
    <2>1. CASE u = t
      BY <1>1, <1>2, <2>1 DEF SheetInv, SheetTypes, RowsAreTheirTopics
    <2>2. CASE u # t
      BY <1>1, <1>2, <2>2 DEF SheetInv, SheetTypes, RowsAreTheirTopics
    <2>. QED  BY <2>1, <2>2
  <1>5. DraftsAreWhole'
    <2>. SUFFICES ASSUME draft # None  PROVE draft \in Drafted /\ GoodDraft(draft)'
      BY <1>2 DEF DraftsAreWhole
    <2>1. draft \in Drafted /\ GoodDraft(draft)
      BY DEF SheetInv, DraftsAreWhole
    <2>. QED  BY <1>1, <1>2, <2>1 DEF GoodDraft, Whole, SaidAs
  <1>6. FormHolds'
    BY <1>1, <1>2 DEF SheetInv, FormHolds
  <1>7. F!SentAsItWas'
    <2>. SUFFICES ASSUME sheet # None, aimed # None
                  PROVE  /\ aimed \in DOMAIN heard
                         /\ SaidAs(sheet.topic, sheet.payload, sheet.mode, way, aimed, draft.still)
      BY <1>1, <1>2 DEF F!SentAsItWas, F!Arrived, SaidAs
    <2>. QED  BY DEF SheetInv, FormHolds, F!SentAsItWas, F!Arrived, SaidAs
  <1>. QED  BY <1>1, <1>3, <1>4, <1>5, <1>6, <1>7 DEF SheetInv

\* A draft fills the form with the message it carries, whole.
LEMMA FillsWhole ==
  ASSUME SheetInv, NEW d \in Drafted, GoodDraft(d), NEW f, f.mode \in Modes,
         f.payload \in DOMAIN heard \cup {Typed0}
  PROVE  /\ F!Filled(d, f).payload \in DOMAIN heard \cup {Typed0}
         /\ F!Filled(d, f).mode \in Modes /\ F!Or(d.way, way) \in Ways
         /\ F!Of(d) \in DOMAIN heard \cup {None}
         /\ F!Of(d) # None =>
              SaidAs(F!Filled(d, f).topic, F!Filled(d, f).payload, F!Filled(d, f).mode,
                     F!Or(d.way, way), F!Of(d), d.still)
  <1>1. /\ F!Filled(d, f).topic = d.topic
        /\ F!Filled(d, f).payload = IF d.payload = Keep0 THEN f.payload ELSE d.payload
        /\ F!Filled(d, f).mode = IF d.mode = Keep0 THEN f.mode ELSE d.mode
        /\ F!Or(d.way, way) = IF d.way = Keep0 THEN way ELSE d.way
    BY DEF F!Filled, F!Or
  <1>2. way \in Ways
    BY DEF SheetInv, SheetTypes
  <1>3. F!Of(d) # None => F!Of(d) = d.of /\ d.payload # Keep0
    BY DEF F!Of
  <1>4. F!Of(d) \in DOMAIN heard \cup {None}
    BY DEF F!Of, GoodDraft, Whole
  <1>5. F!Of(d) # None =>
          d.of \in DOMAIN heard /\ SaidAs(d.topic, d.payload, d.mode, d.way, d.of, d.still)
    BY <1>3 DEF GoodDraft, Whole
  <1>6. \A k \in DOMAIN heard : heard[k].mode # Keep0 /\ heard[k].way # Keep0
    <2>1. PICK n \in Nat : heard \in [1..n -> Message]
      BY DEF SheetInv, Numbered
    <2>. QED  BY <2>1, Marks DEF Message
  <1>. QED  BY <1>1, <1>2, <1>3, <1>4, <1>5, <1>6 DEF GoodDraft, SaidAs

\* What leaves the messages, the rows and the hold alone keeps what is said of them.
LEMMA TrafficStands ==
  ASSUME SheetInv, UNCHANGED F!traffic, way' \in Ways, fault' \in BOOLEAN
  PROVE  Numbered' /\ SheetTypes' /\ RowsAreTheirTopics'
  BY DEF F!traffic, SheetInv, Numbered, SheetTypes, RowsAreTheirTopics

\* Taking a draft fills the form, or leaves it for when the panel is next opened.
LEMMA LoadKeeps ==
  ASSUME SheetInv, NEW d \in Drafted, GoodDraft(d), F!Load(d)
  PROVE  SheetInv'
  <1>. DEFINE e == [d EXCEPT !.taken = sheet # None]
  <1>1. UNCHANGED F!traffic /\ UNCHANGED F!sending /\ heard' = heard /\ fault' = fault
    BY DEF F!Load, F!traffic, F!sending
  <1>2. /\ draft' = e /\ e \in Drafted /\ e.still = d.still
        /\ e.topic = d.topic /\ e.payload = d.payload /\ e.mode = d.mode /\ e.way = d.way
        /\ e.of = d.of
    BY DEF F!Load, Drafted
  <1>. HIDE DEF e
  <1>3. DraftsAreWhole'
    BY <1>1, <1>2 DEF DraftsAreWhole, GoodDraft, Whole, SaidAs
  <1>4. CASE sheet = None
    <2>1. UNCHANGED <<sheet, way, aimed>>
      BY <1>4 DEF F!Load
    <2>2. Numbered' /\ SheetTypes' /\ RowsAreTheirTopics'
      BY <1>1, <2>1, TrafficStands DEF SheetInv, SheetTypes
    <2>3. FormHolds' /\ F!SentAsItWas'
      BY <1>1, <1>4, <2>1 DEF SheetInv, FormHolds, F!SentAsItWas
    <2>. QED  BY <1>3, <2>2, <2>3 DEF SheetInv
  <1>5. CASE sheet # None
    <2>1. sheet' = F!Filled(d, sheet) /\ way' = F!Or(d.way, way) /\ aimed' = F!Of(d)
      BY <1>5 DEF F!Load
    <2>2. /\ sheet'.payload \in DOMAIN heard \cup {Typed0} /\ sheet'.mode \in Modes
          /\ way' \in Ways /\ aimed' \in DOMAIN heard \cup {None}
          /\ aimed' # None =>
               SaidAs(sheet'.topic, sheet'.payload, sheet'.mode, way', aimed', d.still)
      BY <1>5, <2>1, FillsWhole DEF SheetInv, FormHolds
    <2>3. Numbered' /\ SheetTypes' /\ RowsAreTheirTopics'
      BY <1>1, <2>2, TrafficStands DEF SheetInv, SheetTypes
    <2>4. FormHolds'
      BY <1>1, <2>2 DEF FormHolds
    <2>5. F!SentAsItWas'
      BY <1>1, <1>2, <2>2 DEF F!SentAsItWas, F!Arrived, SaidAs
    <2>. QED  BY <1>3, <2>3, <2>4, <2>5 DEF SheetInv
  <1>. QED  BY <1>4, <1>5

\* A row of the tree hands over the one message it says, whole unless it has been overtaken.
LEMMA SheetPicksATopic ==
  ASSUME SheetInv, NEW t \in Topics, F!PickTopic(t)
  PROVE  SheetInv'
  <1>. DEFINE r == F!Row(t)
              d == [topic |-> t, payload |-> F!RowBody(t), mode |-> heard[r].mode,
                    way |-> heard[r].way, of |-> r, still |-> F!Overtaken(t),
                    taken |-> FALSE]
  <1>1. PICK n \in Nat : heard \in [1..n -> Message]
    BY DEF SheetInv, Numbered
  <1>2. /\ r # None /\ r = IF t \in held THEN frozen[t] ELSE live[t]
        /\ F!Load(d)
    BY DEF F!PickTopic, F!Row
  <1>3. r \in DOMAIN heard /\ heard[r].topic = t /\ (t \notin held => r = live[t])
    BY <1>2 DEF SheetInv, RowsAreTheirTopics
  <1>4. r \in Nat /\ heard[r].mode \in Modes /\ heard[r].way \in Ways
    BY <1>1, <1>3 DEF Message
  <1>5. F!RowBody(t) = IF ~heard[r].long THEN r ELSE IF log[t] = None THEN Keep0 ELSE log[t]
    BY DEF F!RowBody
  <1>6. /\ F!RowBody(t) \in DOMAIN heard \cup {Keep0}
        /\ F!RowBody(t) # Keep0 => heard[F!RowBody(t)].topic = t
        /\ F!RowBody(t) # Keep0 /\ ~F!Overtaken(t) => F!RowBody(t) = r
    BY <1>3, <1>5 DEF SheetInv, RowsAreTheirTopics, F!Overtaken
  <1>7. F!RowBody(t) \in Nat \cup {Keep0}
    BY <1>1, <1>6
  <1>. HIDE DEF r
  <1>8. d \in Drafted
    BY <1>4, <1>7 DEF Drafted, F!Overtaken
  <1>9. GoodDraft(d)
    BY <1>3, <1>4, <1>6 DEF GoodDraft, Whole, SaidAs
  <1>. HIDE DEF d
  <1>. QED  BY <1>2, <1>8, <1>9, LoadKeeps

\* A branch hands over its path alone, and a row of the log the whole of its message.
LEMMA SheetPicks ==
  ASSUME SheetInv,
         \/ \E p \in Places : F!PickPlace(p)
         \/ \E i \in F!Arrived : F!PickEntry(i)
  PROVE  SheetInv'
  <1>1. PICK n \in Nat : heard \in [1..n -> Message]
    BY DEF SheetInv, Numbered
  <1>2. ASSUME NEW p \in Places, F!PickPlace(p)
        PROVE  SheetInv'
    <2>. DEFINE d == [topic |-> p, payload |-> Keep0, mode |-> Keep0, way |-> Keep0,
                      of |-> None, still |-> FALSE, taken |-> FALSE]
    <2>1. d \in Drafted /\ GoodDraft(d)
      BY DEF Drafted, GoodDraft
    <2>2. F!Load(d)
      BY <1>2 DEF F!PickPlace
    <2>. HIDE DEF d
    <2>. QED  BY <2>1, <2>2, LoadKeeps
  <1>3. ASSUME NEW i \in DOMAIN heard, F!PickEntry(i)
        PROVE  SheetInv'
    <2>. DEFINE d == [topic |-> heard[i].topic, payload |-> i, mode |-> heard[i].mode,
                      way |-> heard[i].way, of |-> i, still |-> FALSE, taken |-> FALSE]
    <2>1. heard[i] \in Message /\ i \in Nat
      BY <1>1
    <2>2. d \in Drafted /\ GoodDraft(d)
      BY <2>1 DEF Drafted, GoodDraft, Whole, SaidAs, Message
    <2>3. F!Load(d)
      BY <1>3 DEF F!PickEntry
    <2>. HIDE DEF d
    <2>. QED  BY <2>2, <2>3, LoadKeeps
  <1>. QED  BY <1>2, <1>3 DEF F!Arrived

\* A run the log gives up, a hold taken and a hold let go leave the form alone.
LEMMA SheetRows ==
  ASSUME SheetInv, NEW t \in Topics, F!RunForgotten(t) \/ F!Hold(t) \/ F!Release(t)
  PROVE  SheetInv'
  <1>1. UNCHANGED <<heard, live, draft, way, sheet, fault, aimed>>
    BY DEF F!RunForgotten, F!Hold, F!Release, F!sending
  <1>2. SheetTypes'
    BY <1>1 DEF SheetInv, SheetTypes, F!RunForgotten, F!Hold, F!Release
  <1>3. RowsAreTheirTopics'
    <2>1. CASE F!RunForgotten(t)
      BY <1>1, <2>1 DEF SheetInv, SheetTypes, RowsAreTheirTopics, F!RunForgotten
    <2>2. CASE F!Hold(t)
      BY <1>1, <2>2 DEF SheetInv, SheetTypes, RowsAreTheirTopics, F!Hold
    <2>3. CASE F!Release(t)
      BY <1>1, <2>3 DEF SheetInv, RowsAreTheirTopics, F!Release
    <2>. QED  BY <2>1, <2>2, <2>3
  <1>4. Numbered' /\ DraftsAreWhole' /\ FormHolds' /\ F!SentAsItWas'
    BY <1>1 DEF SheetInv, Numbered, DraftsAreWhole, GoodDraft, Whole, SaidAs, FormHolds,
               F!SentAsItWas, F!Arrived
  <1>. QED  BY <1>2, <1>3, <1>4 DEF SheetInv

\* The reader's own hand, and the folding away, leave the form aimed at nothing.
LEMMA SheetByHand ==
  ASSUME SheetInv, F!Edit \/ F!SetWay \/ F!Fold
  PROVE  SheetInv'
  <1>1. UNCHANGED F!traffic /\ draft' = draft /\ heard' = heard /\ aimed' = None
        /\ fault' \in BOOLEAN /\ way' \in Ways
    BY DEF F!Edit, F!SetWay, F!Fold, F!traffic, F!sending, SheetInv, SheetTypes
  <1>2. Numbered' /\ SheetTypes' /\ RowsAreTheirTopics'
    BY <1>1, TrafficStands
  <1>3. DraftsAreWhole' /\ F!SentAsItWas'
    BY <1>1 DEF SheetInv, DraftsAreWhole, GoodDraft, Whole, SaidAs, F!SentAsItWas
  <1>4. sheet' # None => sheet'.payload \in DOMAIN heard \cup {Typed0} /\ sheet'.mode \in Modes
    <2>1. CASE F!Fold
      BY <2>1 DEF F!Fold
    <2>2. CASE F!SetWay
      BY <2>2 DEF F!SetWay, SheetInv, FormHolds
    <2>3. ASSUME F!Edit, NEW t, sheet' = [sheet EXCEPT !.topic = t]
          PROVE  sheet'.payload = sheet.payload /\ sheet'.mode = sheet.mode
      BY <2>3
    <2>4. ASSUME F!Edit, sheet' = [sheet EXCEPT !.payload = Typed0]
          PROVE  sheet'.payload \in {sheet.payload, Typed0} /\ sheet'.mode = sheet.mode
      BY <2>4
    <2>5. ASSUME F!Edit, NEW m \in Modes, sheet' = [sheet EXCEPT !.mode = m]
          PROVE  sheet'.payload = sheet.payload /\ sheet'.mode \in {sheet.mode, m}
      BY <2>5
    <2>. QED  BY <2>1, <2>2, <2>3, <2>4, <2>5 DEF F!Edit, SheetInv, FormHolds
  <1>. QED  BY <1>1, <1>2, <1>3, <1>4 DEF SheetInv, FormHolds

\* Opened again, the form takes the draft that stands, or starts with nothing.
LEMMA SheetUnfolds ==
  ASSUME SheetInv, F!Unfold
  PROVE  SheetInv'
  <1>1. UNCHANGED F!traffic /\ UNCHANGED F!sending /\ heard' = heard /\ fault' = fault
    BY DEF F!Unfold, F!traffic, F!sending
  <1>2. /\ F!Mounted.payload = Typed0 /\ F!Mounted.mode \in Modes
    BY Marks DEF F!Mounted
  <1>3. CASE draft = None
    <2>1. sheet' = F!Mounted /\ way' = way /\ aimed' = None /\ draft' = None
      BY <1>3 DEF F!Unfold, F!Of
    <2>2. Numbered' /\ SheetTypes' /\ RowsAreTheirTopics'
      BY <1>1, <2>1, TrafficStands DEF SheetInv, SheetTypes
    <2>3. DraftsAreWhole' /\ FormHolds' /\ F!SentAsItWas'
      BY <1>2, <2>1 DEF DraftsAreWhole, FormHolds, F!SentAsItWas
    <2>. QED  BY <2>2, <2>3 DEF SheetInv
  <1>4. CASE draft # None
    <2>1. draft \in Drafted /\ GoodDraft(draft)
      BY <1>4 DEF SheetInv, DraftsAreWhole
    <2>. DEFINE e == [draft EXCEPT !.taken = TRUE]
    <2>2. /\ draft' = e /\ e \in Drafted /\ e.still = draft.still /\ e.topic = draft.topic
          /\ e.payload = draft.payload /\ e.mode = draft.mode /\ e.way = draft.way
          /\ e.of = draft.of
      BY <1>4, <2>1 DEF F!Unfold, Drafted
    <2>. HIDE DEF e
    <2>3. /\ sheet' = F!Filled(draft, F!Mounted) /\ way' = F!Or(draft.way, way)
          /\ aimed' = F!Of(draft)
      BY <1>4 DEF F!Unfold
    <2>4. /\ sheet'.payload \in DOMAIN heard \cup {Typed0} /\ sheet'.mode \in Modes
          /\ way' \in Ways /\ aimed' \in DOMAIN heard \cup {None}
          /\ aimed' # None =>
               SaidAs(sheet'.topic, sheet'.payload, sheet'.mode, way', aimed', draft.still)
      BY <1>2, <2>1, <2>3, FillsWhole
    <2>5. Numbered' /\ SheetTypes' /\ RowsAreTheirTopics'
      BY <1>1, <2>4, TrafficStands DEF SheetInv, SheetTypes
    <2>6. DraftsAreWhole' /\ FormHolds'
      BY <1>1, <2>1, <2>2, <2>4 DEF DraftsAreWhole, GoodDraft, Whole, SaidAs, FormHolds
    <2>7. F!SentAsItWas'
      BY <1>1, <2>2, <2>4 DEF F!SentAsItWas, F!Arrived, SaidAs
    <2>. QED  BY <2>5, <2>6, <2>7 DEF SheetInv
  <1>. QED  BY <1>3, <1>4

\* Every step keeps the invariant.
LEMMA SheetSteps == SheetInv /\ [F!Next]_(F!vars) => SheetInv'
  <1>. SUFFICES ASSUME SheetInv, [F!Next]_(F!vars)
                PROVE  SheetInv'
    OBVIOUS
  <1>1. ASSUME NEW t \in Topics, NEW w \in Ways, NEW m \in Modes, NEW long \in BOOLEAN,
               F!Arrives(t, w, m, long)
        PROVE  SheetInv'
    BY <1>1, SheetArrives
  <1>2. ASSUME NEW t \in Topics, F!RunForgotten(t) \/ F!Hold(t) \/ F!Release(t)
        PROVE  SheetInv'
    BY <1>2, SheetRows
  <1>3. ASSUME NEW t \in Topics, F!PickTopic(t)
        PROVE  SheetInv'
    BY <1>3, SheetPicksATopic
  <1>4. CASE (\E p \in Places : F!PickPlace(p)) \/ \E i \in F!Arrived : F!PickEntry(i)
    BY <1>4, SheetPicks
  <1>5. CASE F!Edit \/ F!SetWay \/ F!Fold
    BY <1>5, SheetByHand
  <1>6. CASE F!Unfold
    BY <1>6, SheetUnfolds
  <1>7. CASE F!Publish \/ F!Accepted \/ F!Refused \/ UNCHANGED F!vars
    <2>1. UNCHANGED F!traffic /\ UNCHANGED <<heard, draft, way, sheet, aimed>>
          /\ fault' \in BOOLEAN
      BY <1>7 DEF F!Publish, F!Accepted, F!Refused, F!vars, F!traffic, SheetInv, SheetTypes
    <2>2. Numbered' /\ SheetTypes' /\ RowsAreTheirTopics'
      BY <2>1, TrafficStands DEF SheetInv, SheetTypes
    <2>. QED
      BY <2>1, <2>2 DEF SheetInv, DraftsAreWhole, GoodDraft, Whole, SaidAs, FormHolds,
                       F!SentAsItWas, F!Arrived
  <1>. QED  BY <1>1, <1>2, <1>3, <1>4, <1>5, <1>6, <1>7 DEF F!Next

\* A form filled from a message and not edited since sends it to its topic, in its mode and its
\* way, with a body that topic has carried, and with its own body unless its row was held on
\* a message the tree had cut and a newer one had come: for any topics, any traffic and any
\* folding (composeStore, PublishPanel, TopicTree).
THEOREM MessagesAreSentWhole == F!Spec => []SentAsItWas
  <1>1. F!Spec => []SheetInv
    BY SheetStarts, SheetSteps, PTL DEF F!Spec
  <1>2. SheetInv => SentAsItWas
    <2>. SUFFICES ASSUME SheetInv  PROVE F!TypeOK
      BY DEF SheetInv, SentAsItWas
    <2>1. PICK n \in Nat : heard \in [1..n -> Message]
      BY DEF SheetInv, Numbered
    <2>2. \A i \in F!Arrived :
            heard[i].topic \in Topics /\ heard[i].way \in Ways /\ heard[i].mode \in Modes
      BY <2>1 DEF F!Arrived, Message
    <2>3. \A t \in Topics : {live[t], frozen[t], log[t]} \subseteq F!Arrived \cup {None}
      BY DEF SheetInv, RowsAreTheirTopics, F!Arrived
    <2>. QED  BY <2>2, <2>3 DEF SheetInv, SheetTypes, FormHolds, F!TypeOK, F!Arrived
  <1>. QED  BY <1>1, <1>2, PTL
-----------------------------------------------------------------------------
(* The Broker panel.                                                         *)

Form ==
  [scheme : B!Schemes, host : Hosts \cup {None}, port : Nat,
   more : SUBSET {"path", "certs", "password"}]

Ends == B!Reasons \cup {"worked"}

\* A failed link has the connection it failed at, and so has a Connect that has gone out.
LinkSeen(l) == l.state = "Faulted" => l.at \in Form

FormTypes ==
  /\ form \in Form /\ said \in BOOLEAN
  /\ box.host \in Hosts \cup {None} /\ box.port \in Nat \cup {None}

KeptTypes ==
  /\ saved \in Form \cup {None} /\ profiles \in [Names -> Form \cup {None}]
  /\ keeping # None => keeping \in [name : Names, at : Form]

DialTypes ==
  /\ LinkSeen(panelSrv) /\ (link # None => LinkSeen(link))
  /\ mutation \in [stage : {"idle", "pending", "failed", "worked"},
                   reason : Ends \cup {None}, at : Form \cup {None}]
  /\ mutation.stage # "idle" => mutation.at \in Form
  /\ outcome # None => outcome \in B!Possible(mutation.at)
  /\ mutation.stage = "failed" => mutation.reason \in B!Possible(mutation.at)

\* How far down the offers an attempt stands: each of them steps down.
Rank(c) ==
  CASE c.scheme = "wss"   -> 12
    [] c.scheme = "ws"    -> IF c.port = 8084 THEN 13 ELSE 11
    [] c.scheme = "mqtts" -> 2
    [] c.scheme = "mqtt"  -> IF c.port = 8883 THEN 3 ELSE 1

\* The offers followed step down, and the last of them is the Connect that is out or has ended.
OffersStepDown ==
  /\ chain \in Seq(Form)
  /\ \A i, j \in 1..Len(chain) : i < j => Rank(chain[j]) < Rank(chain[i])
  /\ mutation.stage # "idle" => Len(chain) > 0 /\ chain[Len(chain)] = mutation.at

PanelInv == FormTypes /\ KeptTypes /\ DialTypes /\ OffersStepDown /\ B!PortFitsItsScheme

\* What the panel reads of schemes, spelt out once.
LEMMA SchemeFacts ==
  /\ \A s \in B!Schemes : /\ B!DefaultPort[s] \in Nat /\ B!Twin[s] \in B!Schemes
                          /\ B!IsEncrypted[s] \in BOOLEAN
  /\ \A s \in B!Schemes, t \in B!Schemes :
       B!Transport[s] = B!Transport[t] /\ B!DefaultPort[s] = B!DefaultPort[t] => s = t
  /\ \A a \in DOMAIN B!Alias : B!Alias[a] \in B!Schemes
  BY DEF B!Schemes, B!DefaultPort, B!Twin, B!Transport, B!IsEncrypted, B!Alias

LEMMA SchemeNamed ==
  ASSUME NEW over \in {"tcp", "webSocket"}, NEW tls \in BOOLEAN
  PROVE  /\ B!SchemeOf(over, tls) \in B!Schemes
         /\ B!Transport[B!SchemeOf(over, tls)] = over
         /\ B!IsEncrypted[B!SchemeOf(over, tls)] = tls
  <1>1. \E s \in B!Schemes : B!Transport[s] = over /\ B!IsEncrypted[s] = tls
    BY DEF B!Schemes, B!Transport, B!IsEncrypted
  <1>. QED  BY <1>1 DEF B!SchemeOf

\* The scheme a port names is a scheme, and the scheme's own port names the scheme itself.
LEMMA PortNames ==
  ASSUME NEW s \in B!Schemes, NEW port \in Nat
  PROVE  /\ B!SchemeForPort(s, port) \in B!Schemes
         /\ port = B!DefaultPort[s] => B!SchemeForPort(s, port) = s
  <1>. DEFINE named == {t \in B!Schemes : B!Transport[t] = B!Transport[s] /\ B!DefaultPort[t] = port}
  <1>1. CASE named = {}
    BY <1>1 DEF B!SchemeForPort
  <1>2. CASE named # {}
    <2>1. PICK t \in named : B!SchemeForPort(s, port) = t
      BY <1>2 DEF B!SchemeForPort
    <2>. QED  BY <2>1, SchemeFacts
  <1>. QED  BY <1>1, <1>2

\* What is sent of a form is the form but for boxes another scheme asks for.
LEMMA RequestFacts ==
  ASSUME NEW f \in Form
  PROVE  /\ B!BuildConnectRequest(f) \in Form /\ B!FormFromSaved(f) \in Form
         /\ \A k \in {"scheme", "host", "port"} :
              B!BuildConnectRequest(f)[k] = f[k] /\ B!FormFromSaved(f)[k] = f[k]
  BY DEF Form, B!BuildConnectRequest, B!FormFromSaved

\* A port that goes with a form: somebody said it, it is the scheme's own, or it stayed where
\* somebody had put it.
Fits(f, port) ==
  \/ port # None
  \/ f.port = B!DefaultPort[f.scheme]
  \/ f.port = form.port /\ form.port # B!DefaultPort[form.scheme]

\* A text applied to the form: the host it reads is the form's, and the port goes with it.
LEMMA AddressApplied ==
  ASSUME form \in Form, NEW text,
         text.host \in Hosts \cup {None}, text.port \in Nat \cup {None}
  PROVE  /\ B!ApplyAddress(form, text) \in Form
         /\ B!Readable(text) => B!ApplyAddress(form, text).host = text.host
         /\ Fits(B!ApplyAddress(form, text), B!SaidPort(text))
  <1>. USE DEF B!ApplyAddress, B!Readable, B!SaidPort, B!Splits, Form, Fits
  <1>1. CASE ~B!Splits(text)
    BY <1>1
  <1>2. CASE B!Splits(text)
    <2>. DEFINE s == IF text.scheme # None THEN B!Alias[text.scheme]
                     ELSE B!SchemeForPort(form.scheme, text.port)
    <2>1. s \in B!Schemes
      BY <1>2, SchemeFacts, PortNames
    <2>2. B!PortFor(form.scheme, s, form.port) \in Nat
      BY <2>1, SchemeFacts DEF B!PortFor
    <2>3. B!ApplyAddress(form, text)
            = [form EXCEPT !.scheme = s, !.host = text.host,
                           !.port = IF text.port # None THEN text.port
                                    ELSE B!PortFor(form.scheme, s, form.port)]
      BY <1>2
    <2>. HIDE DEF s
    <2>. QED  BY <1>2, <2>1, <2>2, <2>3 DEF B!PortFor
  <1>. QED  BY <1>1, <1>2

\* Form and box moved together keep the port with the scheme.
LEMMA SettleFits ==
  ASSUME FormTypes, B!PortFitsItsScheme,
         NEW f \in Form, NEW port \in Nat \cup {None}, Fits(f, port), B!Settle(f, port)
  PROVE  FormTypes' /\ B!PortFitsItsScheme'
  <1>1. form' = f /\ box' = B!Bare(f.host) /\ said' = (port # None \/ (said /\ f.port = form.port))
    BY DEF B!Settle
  <1>2. form' \in Form /\ said' \in BOOLEAN
    BY <1>1 DEF FormTypes
  <1>3. box'.host \in Hosts \cup {None} /\ box'.port \in Nat \cup {None}
    BY <1>1 DEF B!Bare, Form
  <1>4. B!PortFitsItsScheme'
    <2>1. CASE f.port = B!DefaultPort[f.scheme]
      BY <1>1, <2>1 DEF B!PortFitsItsScheme
    <2>2. CASE port # None
      BY <1>1, <2>2 DEF B!PortFitsItsScheme
    <2>3. CASE f.port = form.port /\ form.port # B!DefaultPort[form.scheme]
      BY <1>1, <2>3 DEF B!PortFitsItsScheme
    <2>. QED  BY <2>1, <2>2, <2>3 DEF Fits
  <1>5. FormTypes'
    BY <1>2, <1>3 DEF FormTypes
  <1>. QED  BY <1>4, <1>5

\* An offer answers a failed attempt with a scheme further down.
LEMMA OffersDescend ==
  ASSUME NEW at \in Form, NEW reason \in B!Possible(at), NEW next \in Form,
         B!SuggestScheme(reason, at) # None,
         next.scheme = B!SuggestScheme(reason, at),
         next.port = B!PortFor(at.scheme, B!SuggestScheme(reason, at), at.port)
  PROVE  Rank(next) < Rank(at)
  <1>0. at.scheme \in B!Schemes /\ B!IsEncrypted[at.scheme] \in BOOLEAN
    BY SchemeFacts DEF Form
  <1>. USE DEF Form, B!Schemes, B!Twin, B!Transport, B!DefaultPort, B!PortFor, Rank
  <1>1. CASE reason = "tlsNotOffered" /\ B!IsEncrypted[at.scheme]
    BY <1>0, <1>1 DEF B!SuggestScheme, B!IsEncrypted
  <1>2. CASE /\ reason \in {"timeout", "refused"} /\ ~B!IsEncrypted[at.scheme]
             /\ at.port = B!DefaultPort[B!Twin[at.scheme]]
    BY <1>0, <1>2 DEF B!SuggestScheme, B!IsEncrypted
  <1>3. CASE reason = "webSocketUpgradeRejected" /\ at.port \in {1883, 8883}
    <2>1. at.scheme \in {"ws", "wss"}
      BY <1>3 DEF B!Possible
    <2>2. next.scheme \in {"mqtt", "mqtts"}
      <3>1. next.scheme = B!SchemeOf("tcp", B!IsEncrypted[at.scheme])
        BY <1>3 DEF B!SuggestScheme
      <3>2. B!Transport[next.scheme] = "tcp" /\ next.scheme \in B!Schemes
        BY <1>0, <3>1, SchemeNamed
      <3>. QED  BY <3>2
    <2>. QED  BY <2>1, <2>2
  <1>. QED  BY <1>1, <1>2, <1>3 DEF B!SuggestScheme

\* An offer is a scheme.
LEMMA OfferIsAScheme ==
  ASSUME DialTypes, B!Offer # None
  PROVE  B!Offer \in B!Schemes
  <1>1. \A reason, at : at \in Form /\ B!SuggestScheme(reason, at) # None =>
          B!SuggestScheme(reason, at) \in B!Schemes
    <2>. SUFFICES ASSUME NEW reason, NEW at \in Form, B!SuggestScheme(reason, at) # None
                  PROVE  B!SuggestScheme(reason, at) \in B!Schemes
      OBVIOUS
    <2>1. B!Twin[at.scheme] \in B!Schemes /\ B!IsEncrypted[at.scheme] \in BOOLEAN
      BY SchemeFacts DEF Form
    <2>2. B!SchemeOf("tcp", B!IsEncrypted[at.scheme]) \in B!Schemes
      BY <2>1, SchemeNamed
    <2>. QED  BY <2>1, <2>2 DEF B!SuggestScheme
  <1>2. CASE B!OwnOffer # None
    BY <1>1, <1>2 DEF B!Offer, B!OwnOffer, B!OwnSaid, DialTypes
  <1>3. CASE B!OwnOffer = None
    BY <1>1, <1>3 DEF B!Offer, B!LinkOffer, B!LinkSaid, B!Answered, DialTypes, LinkSeen
  <1>. QED  BY <1>2, <1>3

\* The panel opens on the form it ships with.
LEMMA PanelStarts == B!Init => PanelInv
  <1>. SUFFICES ASSUME B!Init  PROVE PanelInv
    OBVIOUS
  <1>. USE DEF B!Init
  <1>1. FormTypes /\ B!PortFitsItsScheme
    BY PanelsAssumption, SchemeFacts
       DEF PanelsAssumption, B!HostsAssumption, FormTypes, Form, B!PortFitsItsScheme, B!Shipped,
           B!Bare, B!Schemes
  <1>2. KeptTypes
    BY DEF KeptTypes
  <1>3. DialTypes
    <2>1. LinkSeen(panelSrv) /\ link = None /\ outcome = None
      BY DEF LinkSeen, B!NoLink
    <2>2. mutation = [stage |-> "idle", reason |-> None, at |-> None]
      BY DEF B!Unsent
    <2>. QED  BY <2>1, <2>2 DEF DialTypes
  <1>4. OffersStepDown
    BY DEF OffersStepDown, B!Unsent
  <1>. QED  BY <1>1, <1>2, <1>3, <1>4 DEF PanelInv

\* A Connect of the panel: the form is what is dialled, and the dial starts with nothing said.
LEMMA ConnectSettles ==
  ASSUME PanelInv, NEW f \in Form, NEW port \in Nat \cup {None}, Fits(f, port), B!Connect(f, port)
  PROVE  /\ FormTypes' /\ KeptTypes' /\ DialTypes' /\ B!PortFitsItsScheme'
         /\ mutation'.stage = "pending" /\ mutation'.at = B!BuildConnectRequest(f)
         /\ form' = f /\ box'.host = f.host
  <1>1. FormTypes' /\ B!PortFitsItsScheme'
    BY SettleFits DEF PanelInv, B!Connect
  <1>2. KeptTypes'
    BY DEF PanelInv, KeptTypes, B!Connect
  <1>3. B!BuildConnectRequest(f) \in Form
    BY RequestFacts
  <1>4. DialTypes'
    BY <1>3 DEF PanelInv, DialTypes, LinkSeen, B!Connect, B!theLink
  <1>. QED  BY <1>1, <1>2, <1>4 DEF B!Connect, B!Settle, B!Bare

\* What submitting dials, and what taking the offer does.
LEMMA AddressFits ==
  ASSUME FormTypes
  PROVE  /\ B!ApplyAddress(form, box) \in Form
         /\ B!Readable(box) => B!ApplyAddress(form, box).host = box.host
         /\ Fits(B!ApplyAddress(form, box), B!SaidPort(box))
         /\ B!SaidPort(box) \in Nat \cup {None}
  BY AddressApplied DEF FormTypes, B!SaidPort

NextOnOffer ==
  [B!ApplyAddress(form, box) EXCEPT
     !.scheme = B!Offer,
     !.port = B!PortFor(B!ApplyAddress(form, box).scheme, B!Offer, B!ApplyAddress(form, box).port)]

LEMMA OfferFits ==
  ASSUME FormTypes, DialTypes, B!Offer # None
  PROVE  /\ NextOnOffer \in Form /\ Fits(NextOnOffer, B!SaidPort(box))
         /\ NextOnOffer.host = B!ApplyAddress(form, box).host /\ NextOnOffer.scheme = B!Offer
         /\ NextOnOffer.port = B!PortFor(B!ApplyAddress(form, box).scheme, B!Offer,
                                         B!ApplyAddress(form, box).port)
  <1>. DEFINE current == B!ApplyAddress(form, box)
              port == B!PortFor(current.scheme, B!Offer, current.port)
  <1>1. current \in Form /\ Fits(current, B!SaidPort(box))
    BY AddressFits
  <1>2. B!Offer \in B!Schemes
    BY OfferIsAScheme
  <1>3. port \in Nat
    BY <1>1, <1>2, SchemeFacts DEF B!PortFor, Form
  <1>4. NextOnOffer = [current EXCEPT !.scheme = B!Offer, !.port = port]
    BY DEF NextOnOffer
  <1>. HIDE DEF current
  <1>5. /\ NextOnOffer \in Form /\ NextOnOffer.host = current.host
        /\ NextOnOffer.scheme = B!Offer /\ NextOnOffer.port = port
    BY <1>1, <1>2, <1>3, <1>4 DEF Form
  <1>6. Fits(NextOnOffer, B!SaidPort(box))
    BY <1>1, <1>5 DEF Fits, B!PortFor
  <1>. QED  BY <1>5, <1>6 DEF current

\* Everything done in the boxes, and with the brokers kept, leaves the dial and the link be.
LEMMA StillDial ==
  ASSUME PanelInv, UNCHANGED <<mutation, outcome, panelSrv, link, chain>>
  PROVE  DialTypes' /\ OffersStepDown'
  BY DEF PanelInv, DialTypes, LinkSeen, OffersStepDown, B!Possible

LEMMA EditsKeep ==
  ASSUME PanelInv, B!Edits
  PROVE  PanelInv'
  <1>1. UNCHANGED <<saved, profiles, keeping, mutation, outcome, panelSrv, link, chain>>
    <2>. USE DEF B!Still, B!theDial, B!theLink
    <2>1. CASE B!TypeAddress
      BY <2>1 DEF B!TypeAddress
    <2>2. CASE B!LeaveAddress
      BY <2>2 DEF B!LeaveAddress
    <2>3. CASE B!PasteAddress
      BY <2>3 DEF B!PasteAddress
    <2>4. CASE B!TypePort
      BY <2>4 DEF B!TypePort
    <2>5. CASE B!LeavePort
      BY <2>5 DEF B!LeavePort
    <2>6. CASE B!FillPath \/ B!FillCredentials \/ B!FillCertificates
      BY <2>6 DEF B!FillPath, B!FillCredentials, B!FillCertificates, B!Fill
    <2>7. CASE \E t \in {"tcp", "webSocket"}, tls \in BOOLEAN : B!PickWay(t, tls)
      BY <2>7 DEF B!PickWay
    <2>. QED  BY <2>1, <2>2, <2>3, <2>4, <2>5, <2>6, <2>7 DEF B!Edits
  <1>2. DialTypes' /\ OffersStepDown' /\ KeptTypes'
    BY <1>1, StillDial DEF PanelInv, KeptTypes
  <1>3. FormTypes' /\ B!PortFitsItsScheme'
    <2>. USE DEF PanelInv
    <2>1. CASE B!TypeAddress
      BY <2>1, PanelsAssumption
         DEF PanelsAssumption, B!TextsAssumption, B!TypeAddress, FormTypes, B!PortFitsItsScheme
    <2>2. CASE B!LeaveAddress
      BY <2>2, AddressFits, SettleFits DEF B!LeaveAddress
    <2>3. CASE B!PasteAddress
      <3>1. PICK t \in Texts : B!Settle(B!ApplyAddress(form, t), B!SaidPort(t))
        BY <2>3 DEF B!PasteAddress
      <3>2. t.host \in Hosts \cup {None} /\ t.port \in Nat \cup {None}
        BY PanelsAssumption DEF PanelsAssumption, B!TextsAssumption
      <3>3. B!SaidPort(t) \in Nat \cup {None}
        BY <3>2 DEF B!SaidPort
      <3>. QED  BY <3>1, <3>2, <3>3, AddressApplied, SettleFits DEF FormTypes
    <2>4. CASE B!TypePort
      <3>1. PICK p \in B!Range(B!DefaultPort) \cup {OwnPort} :
              form' = [form EXCEPT !.port = p] /\ said' = TRUE /\ box' = box
        BY <2>4 DEF B!TypePort
      <3>2. p \in Nat
        <4>1. \A q \in B!Range(B!DefaultPort) : q \in Nat
          BY DEF B!Range, B!DefaultPort
        <4>. QED  BY <4>1, PanelsAssumption DEF PanelsAssumption, B!PortAssumption
      <3>. QED  BY <3>1, <3>2 DEF FormTypes, Form, B!PortFitsItsScheme
    <2>5. CASE B!LeavePort
      <3>. DEFINE s == B!SchemeForPort(form.scheme, form.port)
                  f == [form EXCEPT !.scheme = s]
      <3>1. s \in B!Schemes /\ (form.port = B!DefaultPort[form.scheme] => s = form.scheme)
        BY PortNames DEF FormTypes, Form
      <3>. HIDE DEF s
      <3>2. f \in Form /\ Fits(f, None)
        BY <3>1 DEF FormTypes, Form, Fits
      <3>3. B!Settle(f, None)
        BY <2>5 DEF B!LeavePort, s
      <3>. QED  BY <3>2, <3>3, SettleFits
    <2>6. CASE B!FillPath \/ B!FillCredentials \/ B!FillCertificates
      BY <2>6 DEF B!FillPath, B!FillCredentials, B!FillCertificates, B!Fill, FormTypes, Form,
                  B!PortFitsItsScheme
    <2>7. ASSUME NEW t \in {"tcp", "webSocket"}, NEW tls \in BOOLEAN, B!PickWay(t, tls)
          PROVE  FormTypes' /\ B!PortFitsItsScheme'
      <3>. DEFINE s == B!SchemeOf(t, tls)
                  f == [form EXCEPT !.scheme = s, !.port = B!PortFor(form.scheme, s, form.port)]
      <3>1. s \in B!Schemes
        BY SchemeNamed
      <3>2. B!PortFor(form.scheme, s, form.port) \in Nat
        BY <3>1, SchemeFacts DEF B!PortFor, FormTypes, Form
      <3>3. B!Settle(f, None)
        BY <2>7 DEF B!PickWay
      <3>. HIDE DEF s
      <3>4. f \in Form /\ f.scheme = s /\ f.port = B!PortFor(form.scheme, s, form.port)
        BY <3>1, <3>2 DEF FormTypes, Form
      <3>5. Fits(f, None)
        BY <3>4 DEF Fits, B!PortFor
      <3>. QED  BY <3>3, <3>4, <3>5, SettleFits
    <2>. QED  BY <2>1, <2>2, <2>3, <2>4, <2>5, <2>6, <2>7 DEF B!Edits
  <1>. QED  BY <1>2, <1>3 DEF PanelInv

\* A kept or fetched broker put back in the form says its port.
LEMMA PickedFits ==
  ASSUME PanelInv, NEW at \in Form, B!Settle(B!FormFromSaved(at), at.port)
  PROVE  FormTypes' /\ B!PortFitsItsScheme'
  <1>1. B!FormFromSaved(at) \in Form
    BY RequestFacts
  <1>2. at.port \in Nat /\ at.port # None
    BY PanelsAssumption DEF PanelsAssumption, B!PortAssumption, Form
  <1>3. Fits(B!FormFromSaved(at), at.port)
    BY <1>2 DEF Fits
  <1>. QED  BY <1>1, <1>2, <1>3, SettleFits DEF PanelInv

LEMMA KeepsKeep ==
  ASSUME PanelInv, B!Keeps \/ B!Fetches
  PROVE  PanelInv'
  <1>1. ASSUME NEW n \in Names, B!Keep(n)
        PROVE  PanelInv'
    <2>1. UNCHANGED <<saved, profiles, mutation, outcome, panelSrv, link, chain>>
      BY <1>1 DEF B!Keep, B!theDial, B!theLink
    <2>2. CASE B!Live /\ saved # None
      <3>1. keeping' = [name |-> n, at |-> B!FormFromSaved(saved)]
        BY <1>1, <2>2 DEF B!Keep
      <3>2. UNCHANGED <<form, box, said>>
        BY <1>1, <2>2 DEF B!Keep, B!theForm
      <3>3. B!FormFromSaved(saved) \in Form
        BY <2>2, RequestFacts DEF PanelInv, KeptTypes
      <3>4. FormTypes' /\ KeptTypes' /\ B!PortFitsItsScheme'
        BY <2>1, <3>1, <3>2, <3>3 DEF PanelInv, FormTypes, KeptTypes, B!PortFitsItsScheme
      <3>. QED  BY <2>1, <3>4, StillDial DEF PanelInv
    <2>3. CASE ~(B!Live /\ saved # None)
      <3>. DEFINE f == B!ApplyAddress(form, box)
      <3>1. B!Settle(f, B!SaidPort(box))
            /\ keeping' = [name |-> n, at |-> B!BuildConnectRequest(f)]
        BY <1>1, <2>3 DEF B!Keep
      <3>2. f \in Form /\ Fits(f, B!SaidPort(box)) /\ B!SaidPort(box) \in Nat \cup {None}
        BY AddressFits DEF PanelInv
      <3>. HIDE DEF f
      <3>3. FormTypes' /\ B!PortFitsItsScheme'
        BY <3>1, <3>2, SettleFits DEF PanelInv
      <3>4. B!BuildConnectRequest(f) \in Form
        BY <3>2, RequestFacts
      <3>5. KeptTypes'
        BY <2>1, <3>1, <3>4 DEF PanelInv, KeptTypes
      <3>. QED  BY <2>1, <3>3, <3>5, StillDial DEF PanelInv
    <2>. QED  BY <2>2, <2>3
  <1>2. ASSUME NEW n \in Names, B!Forget(n)
        PROVE  PanelInv'
    <2>1. UNCHANGED <<form, box, said, saved, keeping, mutation, outcome, panelSrv, link, chain>>
          /\ profiles' = [profiles EXCEPT ![n] = None]
      BY <1>2 DEF B!Forget, B!theDial, B!theLink
    <2>2. FormTypes' /\ KeptTypes' /\ B!PortFitsItsScheme'
      BY <2>1 DEF PanelInv, FormTypes, KeptTypes, B!PortFitsItsScheme
    <2>. QED  BY <2>1, <2>2, StillDial DEF PanelInv
  <1>3. ASSUME NEW n \in Names, B!UsePicked(n)
        PROVE  PanelInv'
    <2>1. UNCHANGED <<saved, profiles, keeping, mutation, outcome, panelSrv, link, chain>>
      BY <1>3 DEF B!UsePicked, B!Still, B!theDial, B!theLink
    <2>2. profiles[n] \in Form
      BY <1>3 DEF B!UsePicked, PanelInv, KeptTypes
    <2>3. FormTypes' /\ B!PortFitsItsScheme'
      BY <1>3, <2>2, PickedFits DEF B!UsePicked
    <2>4. KeptTypes'
      BY <2>1 DEF PanelInv, KeptTypes
    <2>. QED  BY <2>1, <2>3, <2>4, StillDial DEF PanelInv
  <1>4. CASE B!Kept
    <2>1. UNCHANGED <<form, box, said, saved, mutation, outcome, panelSrv, link, chain>>
      BY <1>4 DEF B!Kept, B!theDial, B!theLink
    <2>2. keeping' = None /\ keeping \in [name : Names, at : Form]
          /\ profiles' = [profiles EXCEPT ![keeping.name] = keeping.at]
      BY <1>4 DEF B!Kept, PanelInv, KeptTypes
    <2>3. FormTypes' /\ KeptTypes' /\ B!PortFitsItsScheme'
      BY <2>1, <2>2 DEF PanelInv, FormTypes, KeptTypes, B!PortFitsItsScheme
    <2>. QED  BY <2>1, <2>3, StillDial DEF PanelInv
  <1>5. ASSUME NEW s \in {"mqtts", "wss"},
               B!SavedLands([scheme |-> s, host |-> Home, port |-> B!DefaultPort[s],
                             more |-> {"certs", "password"}])
        PROVE  PanelInv'
    <2>. DEFINE at == [scheme |-> s, host |-> Home, port |-> B!DefaultPort[s],
                       more |-> {"certs", "password"}]
    <2>1. at \in Form
      BY PanelsAssumption DEF PanelsAssumption, B!HostsAssumption, Form, B!Schemes, B!DefaultPort
    <2>2. UNCHANGED <<profiles, keeping, mutation, outcome, panelSrv, link, chain>>
          /\ saved' = at /\ B!Settle(B!FormFromSaved(at), at.port)
      BY <1>5 DEF B!SavedLands, B!theDial, B!theLink
    <2>. HIDE DEF at
    <2>3. FormTypes' /\ B!PortFitsItsScheme'
      BY <2>1, <2>2, PickedFits
    <2>4. KeptTypes'
      BY <2>1, <2>2 DEF PanelInv, KeptTypes
    <2>. QED  BY <2>2, <2>3, <2>4, StillDial DEF PanelInv
  <1>. QED  BY <1>1, <1>2, <1>3, <1>4, <1>5 DEF B!Keeps, B!Fetches

\* An attempt by hand starts the offers afresh.
LEMMA StartsAfresh ==
  ASSUME DialTypes', mutation'.stage = "pending", chain' = <<mutation'.at>>
  PROVE  OffersStepDown'
  BY DEF DialTypes, OffersStepDown

\* Submitting the box.
LEMMA SubmitKeeps ==
  ASSUME PanelInv, B!Submit
  PROVE  /\ PanelInv'
         /\ B!Readable(box) => mutation'.at.host = box.host
         /\ box'.host = mutation'.at.host /\ B!BuildConnectRequest(form') = mutation'.at
  <1>. DEFINE f == B!ApplyAddress(form, box)
  <1>1. /\ f \in Form /\ Fits(f, B!SaidPort(box)) /\ B!SaidPort(box) \in Nat \cup {None}
        /\ B!Readable(box) => f.host = box.host
    BY AddressFits DEF PanelInv
  <1>2. B!Connect(f, B!SaidPort(box)) /\ chain' = <<mutation'.at>>
    BY DEF B!Submit
  <1>. HIDE DEF f
  <1>3. /\ FormTypes' /\ KeptTypes' /\ DialTypes' /\ B!PortFitsItsScheme'
        /\ mutation'.stage = "pending" /\ mutation'.at = B!BuildConnectRequest(f)
        /\ form' = f /\ box'.host = f.host
    BY <1>1, <1>2, ConnectSettles
  <1>4. B!BuildConnectRequest(f).host = f.host
    BY <1>1, RequestFacts
  <1>. QED  BY <1>1, <1>2, <1>3, <1>4, StartsAfresh DEF PanelInv

\* Taking the offer: what is dialled stands further down than what failed.
LEMMA RetryKeeps ==
  ASSUME PanelInv, B!RetryOn
  PROVE  /\ PanelInv'
         /\ B!Readable(box) => mutation'.at.host = box.host
         /\ box'.host = mutation'.at.host /\ B!BuildConnectRequest(form') = mutation'.at
  <1>. DEFINE current == B!ApplyAddress(form, box)
              next == NextOnOffer
  <1>1. /\ current \in Form /\ B!SaidPort(box) \in Nat \cup {None}
        /\ B!Readable(box) => current.host = box.host
    BY AddressFits DEF PanelInv
  <1>2. /\ B!Offer # None /\ B!Connect(next, B!SaidPort(box))
        /\ chain' = IF B!OfferOf = "own" /\ B!BuildConnectRequest(current) = mutation.at
                    THEN Append(chain, mutation'.at) ELSE <<mutation'.at>>
    BY DEF B!RetryOn, NextOnOffer
  <1>3. /\ next \in Form /\ Fits(next, B!SaidPort(box)) /\ next.host = current.host
        /\ next.scheme = B!Offer /\ next.port = B!PortFor(current.scheme, B!Offer, current.port)
    BY <1>2, OfferFits DEF PanelInv
  <1>. HIDE DEF current, next
  <1>4. /\ FormTypes' /\ KeptTypes' /\ DialTypes' /\ B!PortFitsItsScheme'
        /\ mutation'.stage = "pending" /\ mutation'.at = B!BuildConnectRequest(next)
        /\ form' = next /\ box'.host = next.host
    BY <1>1, <1>2, <1>3, ConnectSettles
  <1>5. /\ B!BuildConnectRequest(next) \in Form /\ B!BuildConnectRequest(next).host = next.host
        /\ B!BuildConnectRequest(next).scheme = next.scheme
        /\ B!BuildConnectRequest(next).port = next.port
    BY <1>3, RequestFacts
  <1>6. OffersStepDown'
    <2>1. CASE B!OfferOf = "own" /\ B!BuildConnectRequest(current) = mutation.at
      <3>1. B!OwnOffer # None
        BY <1>2, <2>1 DEF B!OfferOf
      <3>2. /\ mutation.stage = "failed" /\ B!Offer = B!SuggestScheme(mutation.reason, mutation.at)
            /\ B!SuggestScheme(mutation.reason, mutation.at) # None
        BY <1>2, <3>1 DEF B!Offer, B!OwnOffer, B!OwnSaid
      <3>3. mutation.at \in Form /\ mutation.reason \in B!Possible(mutation.at)
        BY <3>2 DEF PanelInv, DialTypes
      <3>4. mutation.at.scheme = current.scheme /\ mutation.at.port = current.port
        BY <1>1, <2>1, RequestFacts
      <3>. DEFINE new == mutation'.at
      <3>5. new \in Form /\ new.scheme = B!Offer
            /\ new.port = B!PortFor(mutation.at.scheme, B!Offer, mutation.at.port)
        BY <1>3, <1>4, <1>5, <3>4
      <3>6. Rank(new) < Rank(mutation.at)
        BY <3>2, <3>3, <3>5, OffersDescend
      <3>7. chain \in Seq(Form) /\ Len(chain) > 0 /\ chain[Len(chain)] = mutation.at
        BY <3>2 DEF PanelInv, OffersStepDown
      <3>8. \A c \in Form : Rank(c) \in Nat
        BY DEF Rank, Form, B!Schemes
      <3>9. \A i \in 1..Len(chain) : Rank(new) < Rank(chain[i])
        <4>1. \A i \in 1..Len(chain) : i < Len(chain) => Rank(mutation.at) < Rank(chain[i])
          BY <3>7 DEF PanelInv, OffersStepDown
        <4>2. \A i \in 1..Len(chain) : Rank(chain[i]) \in Nat
          BY <3>7, <3>8
        <4>. QED  BY <3>3, <3>5, <3>6, <3>7, <3>8, <4>1, <4>2
      <3>10. chain' = Append(chain, new)
        BY <1>2, <2>1
      <3>. HIDE DEF new
      <3>11. chain' \in Seq(Form) /\ Len(chain') = Len(chain) + 1 /\ chain'[Len(chain')] = new
             /\ \A i \in 1..Len(chain) : chain'[i] = chain[i]
        BY <3>5, <3>7, <3>10
      <3>12. \A i, j \in 1..Len(chain') : i < j => Rank(chain'[j]) < Rank(chain'[i])
        <4>. SUFFICES ASSUME NEW i \in 1..Len(chain'), NEW j \in 1..Len(chain'), i < j
                      PROVE  Rank(chain'[j]) < Rank(chain'[i])
          OBVIOUS
        <4>1. i \in 1..Len(chain) /\ chain'[i] = chain[i]
          BY <3>7, <3>11
        <4>2. CASE j = Len(chain')
          BY <3>9, <3>11, <4>1, <4>2
        <4>3. CASE j # Len(chain')
          <5>1. j \in 1..Len(chain) /\ chain'[j] = chain[j]
            BY <3>7, <3>11, <4>3
          <5>. QED  BY <4>1, <5>1 DEF PanelInv, OffersStepDown
        <4>. QED  BY <4>2, <4>3
      <3>. QED  BY <3>7, <3>11, <3>12 DEF OffersStepDown, new
    <2>2. CASE ~(B!OfferOf = "own" /\ B!BuildConnectRequest(current) = mutation.at)
      BY <1>2, <1>4, <2>2, StartsAfresh
    <2>. QED  BY <2>1, <2>2
  <1>. QED  BY <1>1, <1>3, <1>4, <1>5, <1>6 DEF PanelInv

\* How a dial ends, and its answer.
LEMMA EndsKeep ==
  ASSUME PanelInv, B!DialAnswered \/ \E r \in B!Reasons \cup {"worked"} : B!DialEnds(r)
  PROVE  PanelInv' /\ ~(mutation'.stage = "pending" /\ mutation.stage # "pending")
  <1>. USE DEF PanelInv
  <1>1. UNCHANGED <<form, box, said, saved, profiles, keeping, link, chain>>
        /\ mutation.stage = "pending" /\ mutation'.at = mutation.at
    BY DEF B!DialAnswered, B!DialEnds, B!theForm, B!theLink, DialTypes
  <1>2. FormTypes' /\ KeptTypes' /\ B!PortFitsItsScheme' /\ OffersStepDown'
    <2>1. mutation'.stage # "idle" => mutation.stage # "idle"
      BY <1>1
    <2>. QED  BY <1>1, <2>1 DEF FormTypes, KeptTypes, B!PortFitsItsScheme, OffersStepDown
  <1>3. CASE B!DialAnswered
    <2>1. outcome \in B!Possible(mutation.at) /\ outcome \in Ends /\ outcome' = None
          /\ panelSrv' = panelSrv
      BY <1>3 DEF B!DialAnswered, DialTypes, B!Possible, Ends
    <2>2. CASE outcome = "worked"
      BY <1>1, <1>2, <1>3, <2>1, <2>2 DEF B!DialAnswered, DialTypes, LinkSeen
    <2>3. CASE outcome # "worked"
      BY <1>1, <1>2, <1>3, <2>1, <2>3 DEF B!DialAnswered, DialTypes, LinkSeen
    <2>. QED  BY <2>2, <2>3
  <1>4. ASSUME NEW r \in B!Reasons \cup {"worked"}, B!DialEnds(r)
        PROVE  PanelInv' /\ ~(mutation'.stage = "pending" /\ mutation.stage # "pending")
    <2>1. mutation' = mutation /\ outcome' = r /\ r \in B!Possible(mutation.at)
      BY <1>4 DEF B!DialEnds
    <2>2. LinkSeen(panelSrv')
      BY <1>1, <1>4 DEF B!DialEnds, LinkSeen, B!NoLink, DialTypes
    <2>3. DialTypes'
      BY <1>1, <2>1, <2>2 DEF DialTypes
    <2>. QED  BY <1>1, <1>2, <2>3
  <1>. QED  BY <1>3, <1>4

\* The link by itself, its state on its way here, and the beat.
LEMMA LinkKeeps ==
  ASSUME PanelInv, B!LinkMoves \/ B!StateArrives \/ B!BeatEnds
  PROVE  PanelInv' /\ mutation' = mutation
  <1>1. UNCHANGED <<form, box, said, saved, profiles, keeping, mutation, outcome, chain>>
    BY DEF B!LinkMoves, B!StateArrives, B!BeatEnds, B!theForm, B!theDial
  <1>2. LinkSeen(panelSrv') /\ (link' # None => LinkSeen(link'))
    <2>. USE DEF PanelInv, DialTypes
    <2>1. CASE B!LinkMoves
      <3>1. PICK h \in Hosts, s \in {"mqtt", "mqtts"},
                 state \in {"Connected", "Connecting", "Faulted"}, r \in {"timeout", "tlsNotOffered"} :
              panelSrv' = [state |-> state, reason |-> IF state = "Faulted" THEN r ELSE None,
                           at |-> [scheme |-> s, host |-> h, port |-> B!DefaultPort[s], more |-> {}]]
        BY <2>1 DEF B!LinkMoves
      <3>2. panelSrv'.at \in Form
        BY <3>1 DEF Form, B!Schemes, B!DefaultPort
      <3>3. link' = link
        BY <2>1 DEF B!LinkMoves, B!theLink
      <3>. QED  BY <3>2, <3>3 DEF LinkSeen
    <2>2. CASE B!StateArrives
      BY <2>2 DEF B!StateArrives
    <2>3. CASE B!BeatEnds
      BY <2>3 DEF B!BeatEnds
    <2>. QED  BY <2>1, <2>2, <2>3
  <1>3. DialTypes'
    BY <1>1, <1>2 DEF PanelInv, DialTypes
  <1>. QED
    BY <1>1, <1>3 DEF PanelInv, FormTypes, KeptTypes, OffersStepDown, B!PortFitsItsScheme

\* Every step keeps the invariant, and what a step dials is what the box shows.
LEMMA PanelSteps ==
  PanelInv /\ [B!Next]_(B!vars) =>
    /\ PanelInv'
    /\ mutation'.stage = "pending" /\ mutation.stage # "pending" =>
         /\ B!Readable(box) => mutation'.at.host = box.host
         /\ box'.host = mutation'.at.host /\ B!BuildConnectRequest(form') = mutation'.at
  <1>. SUFFICES ASSUME PanelInv, [B!Next]_(B!vars)
                PROVE  /\ PanelInv'
                       /\ mutation'.stage = "pending" /\ mutation.stage # "pending" =>
                            /\ B!Readable(box) => mutation'.at.host = box.host
                            /\ box'.host = mutation'.at.host
                            /\ B!BuildConnectRequest(form') = mutation'.at
    OBVIOUS
  <1>1. CASE B!Edits
    <2>1. mutation' = mutation
      BY <1>1 DEF B!Edits, B!TypeAddress, B!LeaveAddress, B!PasteAddress, B!TypePort, B!LeavePort,
                  B!FillPath, B!FillCredentials, B!FillCertificates, B!Fill, B!PickWay, B!Still,
                  B!theDial
    <2>. QED  BY <1>1, <2>1, EditsKeep
  <1>2. CASE B!Keeps \/ B!Fetches
    <2>1. mutation' = mutation
      BY <1>2 DEF B!Keeps, B!Fetches, B!Keep, B!Kept, B!Forget, B!UsePicked, B!SavedLands, B!Still,
                  B!theDial
    <2>. QED  BY <1>2, <2>1, KeepsKeep
  <1>3. CASE B!Submit
    BY <1>3, SubmitKeeps
  <1>4. CASE B!RetryOn
    BY <1>4, RetryKeeps
  <1>5. CASE B!DialAnswered \/ \E r \in B!Reasons \cup {"worked"} : B!DialEnds(r)
    BY <1>5, EndsKeep
  <1>6. CASE B!LinkMoves \/ B!StateArrives \/ B!BeatEnds
    BY <1>6, LinkKeeps
  <1>7. CASE UNCHANGED B!vars
    <2>1. UNCHANGED <<form, box, said, saved, profiles, keeping, mutation, outcome, panelSrv, link,
                      chain>>
      BY <1>7 DEF B!vars
    <2>. QED
      BY <2>1, StillDial DEF PanelInv, FormTypes, KeptTypes, B!PortFitsItsScheme
  <1>. QED  BY <1>1, <1>2, <1>3, <1>4, <1>5, <1>6, <1>7 DEF B!Next, B!Dials

\* Offers that step down never come round.
LEMMA StepDownEnds == PanelInv => B!OffersNeverCircle
  <1>. SUFFICES ASSUME PanelInv
                PROVE  \A i, j \in DOMAIN chain : chain[i] = chain[j] => i = j
    BY DEF B!OffersNeverCircle, B!IsInjective
  <1>1. DOMAIN chain = 1..Len(chain) /\ \A i \in 1..Len(chain) : chain[i] \in Form
    BY DEF PanelInv, OffersStepDown
  <1>2. \A c \in Form : Rank(c) \in Nat
    BY DEF Rank, Form, B!Schemes
  <1>3. \A i, j \in 1..Len(chain) : i < j => Rank(chain[j]) < Rank(chain[i])
    BY DEF PanelInv, OffersStepDown
  <1>4. \A i, j \in 1..Len(chain) : i < j => chain[i] # chain[j]
    BY <1>1, <1>2, <1>3
  <1>5. Len(chain) \in Nat
    BY DEF PanelInv, OffersStepDown
  <1>. QED  BY <1>1, <1>4, <1>5

\* A port nobody said is the one its scheme is served on, and the offers made about the panel's
\* own failed attempts never dial the same connection twice, whatever is typed or pasted in the
\* box, however many brokers are kept, and for as long as the offers are followed
\* (BrokerPanel, dialSuggestion).
THEOREM OffersComeToAnEnd == B!Spec => []PortFitsItsScheme
  <1>1. PanelInv => PortFitsItsScheme
    BY StepDownEnds DEF PanelInv, PortFitsItsScheme
  <1>. QED
    BY <1>1, PanelStarts, PanelSteps, PTL DEF B!Spec

\* A Connect or an offer goes to the host the box shows wherever the box can be read, and the
\* form, the box and what was sent agree once it has gone (BrokerPanel's submit and retryOn).
THEOREM TheBoxIsDialled == B!Spec => DialsWhatTheBoxShows
  <1>1. B!Spec => []PanelInv
    BY PanelStarts, PanelSteps, PTL DEF B!Spec
  <1>2. PanelInv /\ [B!Next]_(B!vars) =>
          [(mutation'.stage = "pending" /\ mutation.stage # "pending") =>
             /\ B!Readable(box) => mutation'.at.host = box.host
             /\ box'.host = mutation'.at.host /\ B!BuildConnectRequest(form') = mutation'.at]_(B!vars)
    BY PanelSteps
  <1>. QED
    BY <1>1, <1>2, PTL DEF B!Spec, DialsWhatTheBoxShows, B!DialsWhatTheBoxShows
-----------------------------------------------------------------------------
(* The watch on the link.                                                    *)

\* What is said of a link that is up is about a session the server made, and to its broker.
Met(l) == l.state = "Connected" => l.sess \in 1..L!Sessions /\ l.to = peer[l.sess]

\* Sessions are made in order, and the link that is up is the newest.
ServerInv ==
  /\ srv \in L!Links /\ Met(srv)
  /\ dial \in [stage : {"idle", "asked", "running", "already", "worked", "failed"},
               to : Brokers \cup {None}]
  /\ peer \in [1..MaxSessions -> Brokers \cup {None}]
  /\ L!Sessions \in 0..MaxSessions
  /\ \A s \in 1..MaxSessions : (peer[s] # None) <=> (s <= L!Sessions)
  /\ srv.state # "Disconnected" => srv.to \in Brokers
  /\ dial.stage # "idle" => dial.to \in Brokers
  /\ srv.sess <= L!Sessions /\ (srv.state = "Connected" => srv.sess = L!Sessions)

\* Every answer the console holds or waits for was the server's once.
AnswersInv ==
  /\ cache # None => cache \in L!Links /\ Met(cache)
  /\ reply \notin {None, L!Due} => reply \in L!Links /\ Met(reply)
  /\ ran # None => ran \in L!Links /\ Met(ran)

\* What the refs hold is a session the effects ran with, the newest of those met.
RefsInv ==
  /\ linkAt # None => /\ linkAt \in [to : Brokers, sess : 1..L!Sessions, same : BOOLEAN]
                      /\ linkAt.to = peer[linkAt.sess]
                      /\ \A s \in met : s <= linkAt.sess
                      /\ ~loose => linkAt.same
  /\ ran # None /\ ran.state = "Connected" =>
       linkAt # None /\ linkAt.sess = ran.sess /\ linkAt.to = ran.to
  /\ met \subseteq 1..L!Sessions /\ marked \in 0..L!Sessions

\* A row older than the cache's session was heard before the cache was written, one older than
\* the last return marked is faded, and a tree that is not loose is judged up to linkAt.
RowsInv ==
  /\ rows \subseteq 1..L!Sessions
  /\ cache # None /\ cache.state = "Connected" => \A s \in rows : s < cache.sess => s \in sooner
  /\ \A s \in rows : s < marked => s \in faded
  /\ ~loose /\ linkAt # None =>
       \A s \in rows : /\ s \in met => peer[s] = linkAt.to
                       /\ s < linkAt.sess => s \in faded

WatchInv ==
  /\ watch \in [failure : Brokers \cup {None}, latest : Brokers \cup {None}, dropped : BOOLEAN,
                recovered : BOOLEAN, byFault : BOOLEAN, wasUp : BOOLEAN, dialled : BOOLEAN]
  /\ watch.recovered => watch.dropped /\ watch.wasUp
  /\ ran # None /\ ran.state = "Faulted" => ~watch.recovered

LinkInv == ServerInv /\ AnswersInv /\ RefsInv /\ RowsInv /\ WatchInv

\* Brokers known in order count what they are.
LEMMA InOrder ==
  ASSUME NEW p \in [1..MaxSessions -> Brokers \cup {None}], NEW n \in 0..MaxSessions,
         \A s \in 1..MaxSessions : (p[s] # None) <=> (s <= n)
  PROVE  L!Cardinality({s \in DOMAIN p : p[s] # None}) = n
  <1>1. MaxSessions \in Nat
    BY PanelsAssumption DEF PanelsAssumption, L!SessionsAssumption
  <1>2. {s \in DOMAIN p : p[s] # None} = 1..n
    BY <1>1
  <1>3. Cardinality(1..n) = n
    BY <1>1, FS_Interval
  <1>4. Cardinality(1..n) = L!Cardinality(1..n)
    BY DEF Cardinality, L!Cardinality
  <1>. QED  BY <1>2, <1>3, <1>4

LEMMA WatchStarts == L!Init => LinkInv
  <1>. SUFFICES ASSUME L!Init  PROVE LinkInv
    OBVIOUS
  <1>. USE DEF L!Init
  <1>1. MaxSessions \in Nat \ {0}
    BY PanelsAssumption DEF PanelsAssumption, L!SessionsAssumption
  <1>2. peer \in [1..MaxSessions -> Brokers \cup {None}] /\ \A s \in 1..MaxSessions : peer[s] = None
    OBVIOUS
  <1>3. L!Sessions = 0
    <2>1. 0 \in 0..MaxSessions /\ \A s \in 1..MaxSessions : (peer[s] # None) <=> (s <= 0)
      BY <1>1, <1>2
    <2>. QED  BY <1>2, <2>1, InOrder DEF L!Sessions
  <1>4. ServerInv
    <2>1. dial = [stage |-> "idle", to |-> None]
      BY DEF L!Idle
    <2>2. srv \in L!Links /\ srv.state # "Connected" /\ srv.sess = 0
          /\ (srv.state # "Disconnected" => srv.to \in Brokers)
      BY DEF L!Links
    <2>. QED  BY <1>1, <1>2, <1>3, <2>1, <2>2 DEF ServerInv, Met
  <1>5. AnswersInv /\ RefsInv /\ RowsInv
    BY <1>3 DEF AnswersInv, RefsInv, RowsInv
  <1>6. WatchInv
    BY DEF WatchInv, L!Rested
  <1>. QED  BY <1>4, <1>5, <1>6 DEF LinkInv

\* A step of the server alone: nothing known before is about another broker after it.
LEMMA ServerAlone ==
  ASSUME LinkInv, ServerInv', L!Sessions <= L!Sessions', \A s \in 1..L!Sessions : peer'[s] = peer[s],
         UNCHANGED <<cache, reply, ran, linkAt, met, marked, rows, faded, sooner, loose, watch>>
  PROVE  LinkInv'
  <1>1. L!Sessions \in Nat /\ L!Sessions' \in Nat
    BY PanelsAssumption DEF PanelsAssumption, L!SessionsAssumption, LinkInv, ServerInv
  <1>. USE <1>1
  <1>2. \A l : Met(l) => (l.state = "Connected" => l.sess \in 1..L!Sessions' /\ l.to = peer'[l.sess])
    BY DEF Met
  <1>3. AnswersInv'
    BY <1>2 DEF LinkInv, AnswersInv, Met
  <1>4. RefsInv'
    BY DEF LinkInv, RefsInv
  <1>5. RowsInv'
    BY DEF LinkInv, RowsInv
  <1>6. WatchInv'
    BY DEF LinkInv, WatchInv
  <1>. QED  BY <1>3, <1>4, <1>5, <1>6 DEF LinkInv

\* The server's own steps.
LEMMA ServerKeeps ==
  ASSUME LinkInv, L!Server
  PROVE  LinkInv'
  <1>. USE DEF LinkInv
  <1>1. UNCHANGED <<cache, reply, ran, linkAt, met, marked, rows, faded, sooner, loose, watch>>
    BY DEF L!Server, L!Dropped, L!Rung, L!TakesDial, L!DialWorks, L!DialFails, L!HungUp,
           L!StopsTrying, L!OtherDials, L!holding, L!effects, L!tree
  <1>2. MaxSessions \in Nat /\ L!Sessions \in Nat /\ None \notin Brokers
    BY PanelsAssumption DEF PanelsAssumption, L!SessionsAssumption, ServerInv
  <1>3. CASE peer' = peer
    <2>1. L!Sessions' = L!Sessions
      BY <1>3 DEF L!Sessions
    <2>2. ServerInv'
      <3>1. /\ srv' \in L!Links /\ dial' \in [stage : {"idle", "asked", "running", "already", "worked",
                                                      "failed"}, to : Brokers \cup {None}]
            /\ srv'.sess <= L!Sessions /\ (srv'.state = "Connected" => srv' = srv)
            /\ srv'.state # "Disconnected" => srv'.to \in Brokers
            /\ dial'.stage # "idle" => dial'.to \in Brokers
        <4>. USE DEF ServerInv, L!Links
        <4>1. CASE L!Dropped
          BY <1>2, <4>1 DEF L!Dropped
        <4>2. CASE L!Rung
          BY <1>2, <4>2 DEF L!Rung
        <4>3. CASE L!TakesDial
          BY <1>2, <4>3 DEF L!TakesDial
        <4>4. CASE L!DialWorks
          <5>1. L!Sessions + 1 \in 1..MaxSessions /\ srv.to \in Brokers
                /\ peer' = [peer EXCEPT ![L!Sessions + 1] = srv.to] /\ peer[L!Sessions + 1] = None
            BY <1>2, <4>4 DEF L!DialWorks, L!Up
          <5>. QED  BY <1>2, <1>3, <5>1
        <4>5. CASE L!DialFails
          BY <1>2, <4>5 DEF L!DialFails, L!Ended
        <4>6. CASE L!HungUp
          BY <1>2, <4>6 DEF L!HungUp
        <4>7. CASE L!StopsTrying
          BY <1>2, <4>7 DEF L!StopsTrying
        <4>8. CASE \E b \in Brokers : L!OtherDials(b)
          BY <1>2, <4>8 DEF L!OtherDials
        <4>. QED  BY <4>1, <4>2, <4>3, <4>4, <4>5, <4>6, <4>7, <4>8 DEF L!Server
      <3>. QED  BY <1>3, <2>1, <3>1 DEF ServerInv, Met
    <2>. QED  BY <1>1, <1>2, <1>3, <2>1, <2>2, ServerAlone
  <1>4. CASE L!DialWorks
    <2>. DEFINE n == L!Sessions + 1
    <2>1. /\ n \in 1..MaxSessions /\ srv.to \in Brokers
          /\ peer' = [peer EXCEPT ![n] = srv.to]
          /\ srv' = [state |-> "Connected", to |-> srv.to, sess |-> n]
          /\ dial' = IF dial.stage = "running" THEN [dial EXCEPT !.stage = "worked"] ELSE dial
      BY <1>2, <1>4 DEF L!DialWorks, L!Up, L!Ended, ServerInv
    <2>2. peer' \in [1..MaxSessions -> Brokers \cup {None}]
          /\ \A s \in 1..MaxSessions : (peer'[s] # None) <=> (s <= n)
      BY <1>2, <2>1 DEF ServerInv
    <2>3. L!Sessions' = n
      <3>1. n \in 0..MaxSessions
        BY <1>2, <2>1
      <3>2. L!Cardinality({s \in DOMAIN peer' : peer'[s] # None}) = n
        BY <2>2, <3>1, InOrder
      <3>. QED  BY <3>2 DEF L!Sessions
    <2>. HIDE DEF n
    <2>4. ServerInv'
      <3>1. srv' \in L!Links /\ dial' \in [stage : {"idle", "asked", "running", "already", "worked",
                                                    "failed"}, to : Brokers \cup {None}]
            /\ (dial'.stage # "idle" => dial'.to \in Brokers)
        BY <1>2, <2>1 DEF L!Links, ServerInv
      <3>2. Met(srv)'
        BY <1>2, <2>1, <2>2, <2>3 DEF Met, ServerInv
      <3>. QED  BY <1>2, <2>1, <2>2, <2>3, <3>1, <3>2 DEF ServerInv
    <2>5. L!Sessions <= L!Sessions' /\ \A s \in 1..L!Sessions : peer'[s] = peer[s]
      BY <1>2, <2>1, <2>3 DEF ServerInv, n
    <2>. QED  BY <1>1, <2>4, <2>5, ServerAlone
  <1>. QED
    BY <1>3, <1>4 DEF L!Server, L!Dropped, L!Rung, L!TakesDial, L!DialFails, L!HungUp, L!StopsTrying,
                      L!OtherDials

\* What the console is told, and what it reads.
LEMMA AnswersKeep ==
  ASSUME LinkInv, L!Pushed \/ L!StatusPushed \/ L!Fetched \/ L!FetchLands
  PROVE  LinkInv'
  <1>. USE DEF LinkInv
  <1>1. UNCHANGED <<srv, peer, dial, ran, linkAt, met, marked, rows, faded, loose, watch>>
    BY DEF L!Pushed, L!StatusPushed, L!Fetched, L!FetchLands, L!server, L!effects, L!tree
  <1>2. L!Sessions' = L!Sessions
    BY <1>1 DEF L!Sessions
  <1>3. ServerInv' /\ RefsInv' /\ WatchInv'
    BY <1>1, <1>2 DEF ServerInv, Met, RefsInv, WatchInv
  <1>4. AnswersInv'
    <2>1. CASE L!Pushed
      BY <1>1, <1>2, <2>1 DEF L!Pushed, AnswersInv, ServerInv, Met
    <2>2. CASE L!StatusPushed
      BY <1>1, <1>2, <2>2 DEF L!StatusPushed, AnswersInv, Met
    <2>3. CASE L!Fetched
      BY <1>1, <1>2, <2>3 DEF L!Fetched, AnswersInv, ServerInv, Met
    <2>4. CASE L!FetchLands
      BY <1>1, <1>2, <2>4 DEF L!FetchLands, AnswersInv, Met
    <2>. QED  BY <2>1, <2>2, <2>3, <2>4
  <1>5. (cache' = cache /\ sooner' = sooner) \/ sooner' = rows
    BY DEF L!Pushed, L!StatusPushed, L!Fetched, L!FetchLands
  <1>6. RowsInv'
    BY <1>1, <1>2, <1>5 DEF RowsInv
  <1>. QED  BY <1>3, <1>4, <1>6

LEMMA ArrivalsKeep ==
  ASSUME LinkInv, L!Arrives
  PROVE  LinkInv'
  <1>. USE DEF LinkInv
  <1>1. /\ UNCHANGED <<srv, peer, dial, cache, reply, ran, linkAt, met, marked, sooner, loose, watch>>
        /\ srv.state = "Connected"
        /\ rows' = rows \cup {srv.sess} /\ faded' = faded \ {srv.sess}
    BY DEF L!Arrives, L!server, L!holding, L!effects
  <1>2. L!Sessions' = L!Sessions /\ L!Sessions \in Nat
    BY <1>1, PanelsAssumption DEF L!Sessions, PanelsAssumption, L!SessionsAssumption, ServerInv
  <1>3. ServerInv' /\ AnswersInv' /\ RefsInv' /\ WatchInv'
    BY <1>1, <1>2 DEF ServerInv, AnswersInv, Met, RefsInv, WatchInv
  <1>4. srv.sess = L!Sessions /\ srv.sess \in 1..L!Sessions
    BY <1>1 DEF ServerInv, Met
  <1>5. cache # None /\ cache.state = "Connected" => cache.sess \in 1..L!Sessions
    BY DEF AnswersInv, Met
  <1>6. RowsInv'
    <2>1. rows' \subseteq 1..L!Sessions
      BY <1>1, <1>4 DEF RowsInv
    <2>2. cache # None /\ cache.state = "Connected" => \A s \in rows' : s < cache.sess => s \in sooner
      BY <1>1, <1>2, <1>4, <1>5 DEF RowsInv
    <2>3. \A s \in rows' : s < marked => s \in faded'
      BY <1>1, <1>2, <1>4 DEF RowsInv, RefsInv
    <2>4. ASSUME ~loose, linkAt # None, NEW s \in rows'
          PROVE  (s \in met => peer[s] = linkAt.to) /\ (s < linkAt.sess => s \in faded')
      <3>1. linkAt.sess \in 1..L!Sessions /\ linkAt.to = peer[linkAt.sess]
            /\ \A t \in met : t <= linkAt.sess
        BY <2>4 DEF RefsInv
      <3>2. CASE s = srv.sess
        BY <1>2, <1>4, <3>1, <3>2
      <3>3. CASE s # srv.sess
        BY <1>1, <2>4, <3>3 DEF RowsInv
      <3>. QED  BY <3>2, <3>3
    <2>. QED  BY <1>1, <1>2, <2>1, <2>2, <2>3, <2>4 DEF RowsInv
  <1>. QED  BY <1>3, <1>6

\* What the watch makes of an answer: it takes no fault for a recovery.
LEMMA WatchSees ==
  ASSUME WatchInv, NEW c \in L!Links
  PROVE  /\ L!Saw(watch, c) \in [failure : Brokers \cup {None}, latest : Brokers \cup {None},
                                 dropped : BOOLEAN, recovered : BOOLEAN, byFault : BOOLEAN,
                                 wasUp : BOOLEAN, dialled : BOOLEAN]
         /\ L!Saw(watch, c).recovered => L!Saw(watch, c).dropped /\ L!Saw(watch, c).wasUp
         /\ c.state = "Faulted" => ~L!Saw(watch, c).recovered
  <1>. USE DEF WatchInv, L!Saw, L!InOutage, L!Links
  <1>1. CASE c.state = "Faulted"
    BY <1>1 DEF L!SawFault
  <1>2. CASE c.state = "Connected"
    BY <1>2 DEF L!SawUp, L!Rested
  <1>3. CASE c.state = "Connecting"
    BY <1>3
  <1>4. CASE c.state = "Disconnected"
    BY <1>4 DEF L!Rested
  <1>. QED  BY <1>1, <1>2, <1>3, <1>4

\* A render with an answer it had not run with: the rows are judged by it.
LEMMA EffectsKeep ==
  ASSUME LinkInv, cache # None, L!LinkEffects(cache), ran' = cache,
         UNCHANGED <<srv, peer, dial, cache, sooner>>
  PROVE  RefsInv' /\ RowsInv'
  <1>. USE DEF LinkInv
  <1>1. L!Sessions' = L!Sessions /\ L!Sessions \in Nat
    BY PanelsAssumption DEF L!Sessions, PanelsAssumption, L!SessionsAssumption, ServerInv
  <1>2. cache \in L!Links /\ Met(cache)
    BY DEF AnswersInv
  <1>. DEFINE before == IF cache.state = "Disconnected" /\ L!Seen = "Connected" THEN None ELSE linkAt
              marks  == L!CameBack(cache) /\ sameTree
              was    == IF marks THEN cache.sess ELSE marked
              resets == L!Moved(cache, before)
              renews == L!Renewed(cache, before, was)
              left   == IF resets THEN {} ELSE rows
  <1>3. /\ marked' = IF renews THEN cache.sess ELSE was
        /\ rows' = left
        /\ faded' = IF marks \/ renews THEN left \cap (faded \cup sooner) ELSE left \cap faded
        /\ linkAt' = IF cache.state = "Connected"
                     THEN [to |-> cache.to, sess |-> cache.sess, same |-> TRUE] ELSE before
        /\ met' = IF cache.state = "Connected" THEN {s \in met : s < cache.sess} \cup {cache.sess}
                  ELSE met
        /\ loose' = IF cache.state # "Connected" THEN loose
                    ELSE /\ \E s \in left : peer[s] # cache.to \/ (s # cache.sess /\ s \notin faded')
                         /\ loose \/ before = None
    BY DEF L!LinkEffects
  <1>4. marks \/ resets \/ renews => cache.state = "Connected"
    BY DEF L!CameBack, L!Moved, L!Renewed, L!Judged
  <1>5. before # None => before = linkAt
    OBVIOUS
  <1>6. cache.state = "Connected" => before = linkAt /\ cache.sess \in 1..L!Sessions
                                     /\ cache.to = peer[cache.sess] /\ cache.to \in Brokers
    <2>1. MaxSessions \in Nat
      BY PanelsAssumption DEF PanelsAssumption, L!SessionsAssumption
    <2>2. cache.state = "Connected" => peer[cache.sess] # None /\ peer[cache.sess] \in Brokers \cup {None}
      BY <1>2, <2>1 DEF Met, ServerInv
    <2>. QED  BY <1>2, <2>2 DEF Met
  <1>7. resets => renews = FALSE
    BY DEF L!Moved, L!Renewed
  <1>8. resets <=> L!Judged(cache, before) /\ before.to # cache.to
    BY DEF L!Moved
  <1>9. renews <=> L!Judged(cache, before) /\ before.to = cache.to /\ was # cache.sess
    BY DEF L!Renewed
  <1>10. L!Judged(cache, before) <=> /\ cache.state = "Connected" /\ before # None
                                   /\ <<before.to, before.sess>> # <<cache.to, cache.sess>> /\ before.same
    BY DEF L!Judged
  <1>11. rows' \subseteq rows /\ \A s \in rows' : s \in faded => s \in faded'
    BY <1>3
  <1>12. cache.state = "Connected" /\ (marks \/ renews) =>
           \A s \in rows' : s < cache.sess => s \in faded'
    BY <1>3 DEF RowsInv
  <1>. HIDE DEF resets, renews, marks
  <1>13. RefsInv'
    <2>1. CASE cache.state = "Connected"
      <3>1. linkAt' = [to |-> cache.to, sess |-> cache.sess, same |-> TRUE]
            /\ met' = {s \in met : s < cache.sess} \cup {cache.sess}
        BY <1>3, <2>1
      <3>2. linkAt'.to = cache.to /\ linkAt'.sess = cache.sess /\ linkAt'.same = TRUE
        BY <3>1
      <3>3. linkAt' \in [to : Brokers, sess : 1..L!Sessions, same : BOOLEAN]
        BY <1>6, <2>1, <3>1
      <3>4. met' \subseteq 1..L!Sessions /\ \A s \in met' : s <= cache.sess
        <4>1. cache.sess \in 1..L!Sessions /\ met \subseteq 1..L!Sessions
          BY <1>6, <2>1 DEF RefsInv
        <4>2. ASSUME NEW s \in met'
              PROVE  s \in 1..L!Sessions /\ s <= cache.sess
          <5>1. s \in 1..L!Sessions /\ (s < cache.sess \/ s = cache.sess)
            BY <3>1, <4>1
          <5>. QED  BY <1>1, <4>1, <5>1
        <4>. QED  BY <4>2
      <3>5. marked' \in 0..L!Sessions
        BY <1>1, <1>3, <1>6, <2>1 DEF RefsInv
      <3>6. linkAt' # None
        BY <1>1, <3>3, PanelsAssumption DEF PanelsAssumption, L!SessionsAssumption, L!Refs
      <3>. QED  BY <1>1, <1>6, <2>1, <3>2, <3>3, <3>4, <3>5, <3>6 DEF RefsInv
    <2>2. CASE cache.state # "Connected"
      <3>1. linkAt' = before /\ met' = met /\ loose' = loose /\ marked' = marked
        BY <1>3, <1>4, <2>2
      <3>. QED  BY <1>1, <1>5, <2>2, <3>1 DEF RefsInv
    <2>. QED  BY <2>1, <2>2
  <1>14. \A s \in rows' : s < marked' => s \in faded'
    <2>1. CASE marked' = cache.sess /\ (marks \/ renews)
      BY <1>4, <1>12, <2>1
    <2>2. CASE marked' = marked
      BY <1>11, <2>2 DEF RowsInv
    <2>. QED  BY <1>3, <2>1, <2>2
  <1>15. ASSUME ~loose', linkAt' # None, NEW s \in rows'
         PROVE  (s \in met' => peer[s] = linkAt'.to) /\ (s < linkAt'.sess => s \in faded')
    <2>1. CASE cache.state # "Connected"
      <3>1. linkAt' = before /\ met' = met /\ loose' = loose
        BY <1>3, <2>1
      <3>. QED  BY <1>5, <1>11, <1>15, <3>1 DEF RowsInv
    <2>2. CASE cache.state = "Connected"
      <3>1. linkAt'.to = cache.to /\ linkAt'.sess = cache.sess /\ s \in rows
            /\ met' = {t \in met : t < cache.sess} \cup {cache.sess} /\ before = linkAt
        BY <1>3, <1>6, <1>11, <2>2
      <3>2. CASE loose \/ before = None
        <4>1. ~(peer[s] # cache.to \/ (s # cache.sess /\ s \notin faded'))
          BY <1>3, <1>15, <2>2, <3>2
        <4>. QED  BY <1>1, <1>6, <2>2, <3>1, <4>1 DEF RowsInv
      <3>3. CASE ~loose /\ before # None
        <4>1. linkAt.same /\ (s \in met => peer[s] = linkAt.to) /\ (s < linkAt.sess => s \in faded)
          BY <3>1, <3>3 DEF RefsInv, RowsInv
        <4>2. ~resets
          BY <1>3, <1>15
        <4>3. linkAt.to = cache.to
          BY <1>8, <1>10, <2>2, <3>1, <3>3, <4>1, <4>2
        <4>4. s \in met' => peer[s] = cache.to
          BY <1>6, <2>2, <3>1, <4>1, <4>3
        <4>5. s < cache.sess => s \in faded'
          <5>1. CASE linkAt.sess = cache.sess
            BY <1>11, <1>15, <4>1, <5>1
          <5>2. CASE marks \/ renews
            BY <1>12, <1>15, <2>2, <5>2
          <5>3. CASE linkAt.sess # cache.sess /\ ~marks /\ ~renews
            <6>1. marked = cache.sess
              BY <1>9, <1>10, <2>2, <3>1, <3>3, <4>1, <4>3, <5>3
            <6>. QED  BY <1>11, <1>15, <3>1, <6>1 DEF RowsInv
          <5>. QED  BY <5>1, <5>2, <5>3
        <4>. QED  BY <3>1, <4>4, <4>5
      <3>. QED  BY <3>2, <3>3
    <2>. QED  BY <2>1, <2>2
  <1>16. RowsInv'
    BY <1>1, <1>11, <1>14, <1>15 DEF RowsInv
  <1>. QED  BY <1>13, <1>16

LEMMA RenderKeeps ==
  ASSUME LinkInv, L!Render
  PROVE  LinkInv'
  <1>. USE DEF LinkInv
  <1>1. /\ UNCHANGED <<srv, ladder, peer, dial, cache, status, sooner>>
        /\ reply' \in {reply, L!Due}
        /\ cache # None /\ ran' = cache
        /\ watch' = L!Resumed(IF ran # cache THEN L!Saw(watch, cache) ELSE watch)
    BY DEF L!Render, L!LinkEffects, L!server
  <1>2. L!Sessions' = L!Sessions
    BY <1>1 DEF L!Sessions
  <1>3. ServerInv'
    BY <1>1, <1>2 DEF ServerInv, Met
  <1>4. AnswersInv'
    BY <1>1, <1>2 DEF AnswersInv, Met
  <1>5. RefsInv' /\ RowsInv'
    <2>1. CASE ran # cache
      BY <1>1, <2>1, EffectsKeep DEF L!Render
    <2>2. CASE ran = cache
      <3>1. UNCHANGED <<linkAt, marked, met, rows, faded, loose>>
        BY <2>2 DEF L!Render, L!tree
      <3>. QED  BY <1>1, <1>2, <2>2, <3>1 DEF RefsInv, RowsInv
    <2>. QED  BY <2>1, <2>2
  <1>6. WatchInv'
    <2>. DEFINE Store == [failure : Brokers \cup {None}, latest : Brokers \cup {None}, dropped : BOOLEAN,
                          recovered : BOOLEAN, byFault : BOOLEAN, wasUp : BOOLEAN, dialled : BOOLEAN]
                w == IF ran # cache THEN L!Saw(watch, cache) ELSE watch
    <2>1. cache \in L!Links /\ cache.to \in Brokers \cup {None}
      BY <1>1 DEF AnswersInv, L!Links
    <2>2. w \in Store /\ (w.recovered => w.dropped /\ w.wasUp)
          /\ (cache.state = "Faulted" => ~w.recovered)
      <3>1. CASE ran # cache
        BY <2>1, <3>1, WatchSees
      <3>2. CASE ran = cache
        BY <1>1, <3>2 DEF WatchInv
      <3>. QED  BY <3>1, <3>2
    <2>. HIDE DEF w
    <2>3. watch' = L!Resumed(w)
      BY <1>1 DEF w
    <2>4. L!Resumed(w) \in Store /\ (L!Resumed(w).recovered => w.recovered /\ L!Resumed(w) = w)
      BY <2>1, <2>2 DEF L!Resumed, L!Resume
    <2>. QED  BY <1>1, <2>2, <2>3, <2>4 DEF WatchInv
  <1>. QED  BY <1>3, <1>4, <1>5, <1>6

\* The tree restarted: the refs are about another tree, and nothing in it is.
LEMMA RestartKeeps ==
  ASSUME LinkInv, L!Restarted, UNCHANGED <<peer, cache, sooner, ran, marked, met>>
  PROVE  RefsInv' /\ RowsInv'
  <1>. USE DEF LinkInv
  <1>1. L!Sessions' = L!Sessions
    BY DEF L!Sessions
  <1>2. /\ rows' = {} /\ loose' = (linkAt # None)
        /\ linkAt' = IF linkAt = None THEN None ELSE [linkAt EXCEPT !.same = FALSE]
    BY DEF L!Restarted
  <1>3. CASE linkAt = None
    BY <1>1, <1>2, <1>3 DEF RefsInv, RowsInv
  <1>4. CASE linkAt # None
    <2>1. linkAt' \in [to : Brokers, sess : 1..L!Sessions, same : BOOLEAN]
          /\ linkAt'.to = linkAt.to /\ linkAt'.sess = linkAt.sess /\ loose' = TRUE
      BY <1>2, <1>4 DEF RefsInv
    <2>2. L!Sessions \in Nat
      BY DEF ServerInv
    <2>3. linkAt' # None
      BY <2>1, <2>2, PanelsAssumption DEF PanelsAssumption, L!SessionsAssumption, L!Refs
    <2>. QED  BY <1>1, <1>2, <1>4, <2>1, <2>3 DEF RefsInv, RowsInv
  <1>. QED  BY <1>3, <1>4

\* What the reader does.
LEMMA ReaderKeeps ==
  ASSUME LinkInv, L!Reader
  PROVE  LinkInv'
  <1>. USE DEF LinkInv
  <1>1. UNCHANGED <<srv, peer, cache, sooner, ran, marked, met>>
    BY DEF L!Reader, L!Connect, L!ConnectAnswered, L!ClearsTraffic, L!Dismiss, L!ClosesByHand, L!Rail,
           L!server, L!holding, L!effects
  <1>2. L!Sessions' = L!Sessions
    BY <1>1 DEF L!Sessions
  <1>3. ServerInv' /\ AnswersInv' /\ WatchInv'
    <2>1. dial' \in [stage : {"idle", "asked", "running", "already", "worked", "failed"},
                     to : Brokers \cup {None}]
          /\ (dial'.stage # "idle" => dial'.to \in Brokers)
      <3>. USE DEF ServerInv
      <3>1. CASE \E b \in Brokers : L!Connect(b)
        BY <3>1 DEF L!Connect
      <3>2. CASE L!ConnectAnswered
        BY <3>2 DEF L!ConnectAnswered, L!Idle
      <3>3. CASE dial' = dial
        BY <3>3
      <3>. QED
        BY <3>1, <3>2, <3>3 DEF L!Reader, L!ClearsTraffic, L!Dismiss, L!ClosesByHand, L!Rail
    <2>2. reply' = reply \/ reply' = L!Due
      BY DEF L!Reader, L!Connect, L!ConnectAnswered, L!ClearsTraffic, L!Dismiss, L!ClosesByHand,
             L!Rail, L!holding
    <2>3. \/ watch' = watch \/ watch' = L!Dialling(watch)
          \/ watch' = [L!Rested EXCEPT !.wasUp = watch.wasUp]
          \/ watch' = [watch EXCEPT !.byFault = FALSE]
      BY DEF L!Reader, L!Connect, L!ConnectAnswered, L!ClearsTraffic, L!Dismiss, L!ClosesByHand, L!Rail
    <2>4. ServerInv'
      BY <1>1, <1>2, <2>1 DEF ServerInv, Met
    <2>5. AnswersInv'
      BY <1>1, <1>2, <2>2 DEF AnswersInv, Met
    <2>6. WatchInv'
      <3>1. CASE watch' = watch \/ watch' = L!Dialling(watch)
        BY <1>1, <3>1 DEF WatchInv, L!Dialling
      <3>2. CASE watch' = [L!Rested EXCEPT !.wasUp = watch.wasUp]
        BY <1>1, <3>2 DEF WatchInv, L!Rested
      <3>3. CASE watch' = [watch EXCEPT !.byFault = FALSE]
        BY <1>1, <3>3 DEF WatchInv
      <3>. QED  BY <2>3, <3>1, <3>2, <3>3
    <2>. QED  BY <2>4, <2>5, <2>6
  <1>4. RefsInv' /\ RowsInv'
    <2>1. CASE L!Restarted
      BY <1>1, <2>1, RestartKeeps
    <2>2. CASE UNCHANGED <<linkAt, rows, faded, loose>>
      BY <1>1, <1>2, <2>2 DEF RefsInv, RowsInv
    <2>. QED
      BY <2>1, <2>2 DEF L!Reader, L!Connect, L!ConnectAnswered, L!ClearsTraffic, L!Dismiss,
                        L!ClosesByHand, L!Rail, L!tree, L!effects
  <1>. QED  BY <1>3, <1>4

LEMMA WatchSteps == LinkInv /\ [L!Next]_(L!vars) => LinkInv'
  <1>. SUFFICES ASSUME LinkInv, [L!Next]_(L!vars)
                PROVE  LinkInv'
    OBVIOUS
  <1>1. CASE L!Server
    BY <1>1, ServerKeeps
  <1>2. CASE L!Pushed \/ L!StatusPushed \/ L!Fetched \/ L!FetchLands
    BY <1>2, AnswersKeep
  <1>3. CASE L!Arrives
    BY <1>3, ArrivalsKeep
  <1>4. CASE L!Render
    BY <1>4, RenderKeeps
  <1>5. CASE L!Reader
    BY <1>5, ReaderKeeps
  <1>6. CASE UNCHANGED L!vars
    <2>1. /\ UNCHANGED <<srv, peer, dial, cache, reply, sooner, ran, marked, met>>
          /\ UNCHANGED <<linkAt, rows, faded, loose, watch>>
      BY <1>6 DEF L!vars
    <2>2. L!Sessions' = L!Sessions
      BY <2>1 DEF L!Sessions
    <2>3. ServerInv' /\ AnswersInv'
      BY <2>1, <2>2 DEF LinkInv, ServerInv, AnswersInv, Met
    <2>4. RefsInv' /\ RowsInv' /\ WatchInv'
      BY <2>1, <2>2 DEF LinkInv, RefsInv, RowsInv, WatchInv
    <2>. QED  BY <2>3, <2>4 DEF LinkInv
  <1>. QED  BY <1>1, <1>2, <1>3, <1>4, <1>5, <1>6 DEF L!Next

\* What the invariant says of a console that has heard the newest.
LEMMA HeardTheNewest ==
  ASSUME LinkInv
  PROVE  L!OneBrokersTopics /\ L!ReturnsAreMarked /\ L!OutageIsTold
  <1>. USE DEF LinkInv
  <1>1. srv # None
    BY PanelsAssumption DEF PanelsAssumption, L!SessionsAssumption, ServerInv
  <1>2. ASSUME L!Settled, srv.state = "Connected", ~loose, NEW s \in rows
        PROVE  (s \in met => peer[s] = srv.to) /\ (s # srv.sess => s \in faded)
    <2>1. ran = srv
      BY <1>2 DEF L!Settled
    <2>2. linkAt # None /\ linkAt.sess = srv.sess /\ linkAt.to = srv.to
      BY <1>1, <1>2, <2>1 DEF RefsInv
    <2>3. srv.sess = L!Sessions /\ s \in 1..L!Sessions /\ L!Sessions \in Nat
      BY <1>2 DEF ServerInv, RowsInv
    <2>. QED  BY <1>2, <2>2, <2>3 DEF RowsInv
  <1>3. ASSUME L!Settled, srv.state = "Faulted"
        PROVE  /\ L!Face # "back"
               /\ ladder # "quiet" => L!Face = IF ladder = "climbing" THEN "working" ELSE "stopped"
    <2>1. ran = srv /\ cache = srv /\ status = ladder /\ L!Resumed(watch) = watch
      BY <1>3 DEF L!Settled
    <2>2. watch.recovered = FALSE
      BY <1>1, <1>3, <2>1 DEF WatchInv
    <2>3. ladder # "quiet" => watch.dropped = TRUE
      BY <1>3, <2>1 DEF WatchInv, L!Resumed, L!Resume
    <2>. QED  BY <1>1, <1>3, <2>1, <2>2, <2>3 DEF L!Face
  <1>. QED  BY <1>2, <1>3 DEF L!OneBrokersTopics, L!ReturnsAreMarked, L!OutageIsTold

\* Once the console has heard the newest, the tree holds no topic of another broker it met, what
\* an earlier session said is drawn faded, and the notice tells of the outage there is
\* (useLinkWatch, linkWatchStore): for any brokers, any number of sessions, and every order of
\* pushes, late fetches and renders.  Two trees are left out of the first two: one the reader
\* started again, and one hung up over whose next link was made from another console.
THEOREM TheWatchIsTrue == L!Spec => []WatchIsTrue
  <1>1. LinkInv => WatchIsTrue
    BY HeardTheNewest DEF WatchIsTrue
  <1>. QED
    BY <1>1, WatchStarts, WatchSteps, PTL DEF L!Spec

-----------------------------------------------------------------------------
(* The alarms.  What the console knows and what the server holds differ by   *)
(* what has been told and not been heard, and by nothing else: a book that   *)
(* is right but for a queue is, once the first of the queue is applied,      *)
(* right but for the rest (RestIsFair), and stays right but for the queue    *)
(* when the server tells one thing more (Says).                              *)

\* Each member of a list stands in it once, and one of two ahead of the other.
Once(h) == \A i, j \in DOMAIN h : h[i] = h[j] => i = j
In(h) == {h[i] : i \in DOMAIN h}
Ahead(h, a, b) == \E i, j \in DOMAIN h : i < j /\ h[i] = a /\ h[j] = b

\* What the server or the console knows of the alarms.
Books == {s \in [active : Seq(Alarms), history : Seq(Alarms), muted : SUBSET Alarms, dropped : 0..MaxTotal] :
            Once(s.active) /\ Once(s.history) /\ Len(s.history) <= Depth}

Events == [kind : {"raised", "resolved"}, alarm : Alarms]
            \cup [kind : {"mute"}, alarm : Alarms, on : BOOLEAN]
            \cup [kind : {"dropped"}, total : 0..MaxTotal]

\* The events of a queue that open or close an alarm, that mute one, and that count the lost.
Turns(q, a) == {i \in DOMAIN q : q[i].kind \in {"raised", "resolved"} /\ q[i].alarm = a}
Mutes(q, a) == {i \in DOMAIN q : q[i].kind = "mute" /\ q[i].alarm = a}
Counts(q) == {i \in DOMAIN q : q[i].kind = "dropped"}
Closes(q) == {i \in DOMAIN q : q[i].kind = "resolved"}
Ended(q) == {q[i].alarm : i \in Closes(q)}
Sooner(q, a, b) == \E i, j \in Closes(q) : i < j /\ q[i].alarm = a /\ q[j].alarm = b

\* What a queue has told is true of the server when it was told last.
Told(q, s) ==
  /\ \A a \in Alarms : \A i \in Turns(q, a) :
       (\A j \in Turns(q, a) : j <= i) => (q[i].kind = "raised" <=> a \in In(s.active))
  /\ \A a \in Alarms : \A i \in Mutes(q, a) : (\A j \in Mutes(q, a) : j <= i) => (q[i].on <=> a \in s.muted)
  /\ \A i \in Counts(q) : q[i].total <= s.dropped

\* ... what it has closed stays so, and heads the history, the newest first.
Closed(q, s) ==
  /\ \A i, j \in Closes(q) : q[i].alarm = q[j].alarm => i = j
  /\ Ended(q) \cap In(s.active) = {}
  /\ \A a \in Ended(q) \cap In(s.history), b \in In(s.history) :
       (b \in Ended(q) => Sooner(q, b, a)) /\ a # b => Ahead(s.history, a, b)
  /\ \A a \in Ended(q) \ In(s.history) :
       Len(s.history) = Depth /\ \A b \in In(s.history) : Sooner(q, a, b)

\* What the events of a queue do not touch, a book already has as the server has it.
Agree(b, q, s) ==
  /\ \A a \in Alarms : Turns(q, a) = {} => (a \in In(b.active) <=> a \in In(s.active))
  /\ \A a \in Alarms : Mutes(q, a) = {} => (a \in b.muted <=> a \in s.muted)
  /\ b.dropped <= s.dropped
  /\ b.dropped = s.dropped \/ \E i \in Counts(q) : q[i].total = s.dropped

\* The same of the history: what is left of it in both is the same, in the same order.
Recall(b, q, s) ==
  /\ In(s.history) \ Ended(q) \subseteq In(b.history)
  /\ \A a, c \in In(s.history) \ Ended(q) : Ahead(s.history, a, c) => Ahead(b.history, a, c)
  /\ \A a \in In(s.history) \ Ended(q), c \in In(b.history) \ Ended(q) :
       Ahead(b.history, c, a) => c \in In(s.history)
  /\ \A c \in In(b.history) \ Ended(q) : c \notin In(s.history) => Len(s.history) = Depth

True(q, s) == Told(q, s) /\ Closed(q, s)
Fair(b, q, s) == Agree(b, q, s) /\ Recall(b, q, s)

Reads == [mine : Nat, asked : {"off", "up", "down"}, answer : Seq(Books)]

AlertTypes ==
  /\ engine \in Books /\ store \in Books
  /\ wire \in Seq(Events) /\ pending \in Seq(Events)
  /\ hub \in {"off", "up", "down"} /\ generation \in 1..MaxLoads
  /\ loads \in SUBSET Reads
  /\ early \in BOOLEAN /\ tainted \in BOOLEAN /\ syncing \in BOOLEAN

ReadsHold ==
  /\ \A l \in loads : l.mine \in 1..generation
  /\ \A l, m \in loads : l.mine = m.mine => l = m
  /\ syncing <=> \E l \in loads : l.mine = generation

WireHolds ==
  /\ hub # "up" => /\ wire = <<>> /\ landed # "under" /\ \A l \in loads : l.asked # "up"
                   /\ ~early => pending = <<>>
  /\ ~syncing => pending = <<>>
  /\ landed = "under" => ~early
  /\ hub = "up" => True(wire, engine) /\ Ended(wire) \subseteq raisedEver
  /\ In(engine.active) \subseteq raisedEver

QueueHolds ==
  hub = "up" /\ ~early =>
    /\ True(pending \o wire, engine) /\ Ended(pending \o wire) \subseteq raisedEver
    /\ \A l \in loads : l.mine = generation /\ l.asked = "up" /\ l.answer # <<>> =>
         Fair(l.answer[1], pending \o wire, engine)
    /\ landed = "under" /\ ~tainted => Fair(store, pending \o wire, engine)

AlertsInv == AlertTypes /\ ReadsHold /\ WireHolds /\ QueueHolds

-----------------------------------------------------------------------------
(* Lists of different things, and one put at the head of them.               *)

\* A list of different things has as many of them as it is long.
LEMMA OnceCounts ==
  ASSUME NEW T, NEW h \in Seq(T), Once(h)
  PROVE  IsFiniteSet(In(h)) /\ Cardinality(In(h)) = Len(h)
  <1>. DEFINE f == [i \in 1..Len(h) |-> h[i]]
  <1>1. Len(h) \in Nat /\ DOMAIN h = 1..Len(h)
    OBVIOUS
  <1>2. f \in Bijection(1..Len(h), In(h))
    BY <1>1 DEF Bijection, Injection, Surjection, IsInjective, In, Once
  <1>3. ExistsBijection(1..Len(h), In(h))
    BY <1>2 DEF ExistsBijection
  <1>4. IsFiniteSet(1..Len(h)) /\ Cardinality(1..Len(h)) = Len(h)
    <2>1. \A n \in Nat : IsFiniteSet(1..n) /\ Cardinality(1..n) = n
      <3>. TAKE n \in Nat
      <3>1. IsFiniteSet(1..n) /\ Cardinality(1..n) = IF 1 > n THEN 0 ELSE n - 1 + 1
        BY FS_Interval
      <3>. QED  BY <3>1
    <2>. QED  BY <1>1, <2>1
  <1>. QED  BY <1>3, <1>4, FS_Bijection

\* Two such lists of the same things in the same order are one.
LEMMA SameOrder ==
  ASSUME NEW T, NEW h \in Seq(T), NEW k \in Seq(T), Once(h), Once(k), In(h) = In(k),
         \A a, c \in T : Ahead(h, a, c) => Ahead(k, a, c)
  PROVE  h = k
  <1>1. Len(h) = Len(k) /\ Len(h) \in Nat /\ DOMAIN h = 1..Len(h) /\ DOMAIN k = 1..Len(h)
    <2>1. Len(h) = Len(k)
      BY OnceCounts
    <2>. QED  BY <2>1
  <1>. DEFINE N == {n \in Nat : n <= Len(h) => \A i \in 1..n : h[i] = k[i]}
  <1>2. 0 \in N
    OBVIOUS
  <1>3. ASSUME NEW n \in Nat, n \in N  PROVE n + 1 \in N
    <2>. SUFFICES ASSUME n + 1 <= Len(h)  PROVE h[n + 1] = k[n + 1]
      BY <1>1, <1>3
    <2>1. \A i \in 1..n : h[i] = k[i]
      BY <1>1, <1>3
    <2>2. n + 1 \in DOMAIN h /\ n + 1 \in DOMAIN k /\ \A i \in DOMAIN h : h[i] \in T
      BY <1>1
    <2>3. PICK p \in DOMAIN k : k[p] = h[n + 1]
      BY <2>2 DEF In
    <2>4. PICK r \in DOMAIN h : h[r] = k[n + 1]
      BY <2>2 DEF In
    <2>5. p >= n + 1
      <3>. SUFFICES ASSUME p \in 1..n  PROVE FALSE
        BY <1>1
      <3>1. h[p] = h[n + 1] /\ p \in DOMAIN h
        BY <1>1, <2>1, <2>3
      <3>. QED  BY <2>2, <3>1 DEF Once
    <2>6. r >= n + 1
      <3>. SUFFICES ASSUME r \in 1..n  PROVE FALSE
        BY <1>1
      <3>1. k[r] = k[n + 1] /\ r \in DOMAIN k
        BY <1>1, <2>1, <2>4
      <3>. QED  BY <2>2, <3>1 DEF Once
    <2>7. CASE r = n + 1
      BY <2>4, <2>7
    <2>8. CASE r > n + 1
      <3>1. Ahead(h, h[n + 1], k[n + 1])
        BY <2>2, <2>4, <2>8 DEF Ahead
      <3>2. h[n + 1] \in T /\ k[n + 1] \in T
        BY <1>1
      <3>3. PICK i \in DOMAIN k, j \in DOMAIN k : i < j /\ k[i] = h[n + 1] /\ k[j] = k[n + 1]
        BY <3>1, <3>2 DEF Ahead
      <3>4. i = p /\ j = n + 1
        BY <2>2, <2>3, <3>3 DEF Once
      <3>. QED  BY <1>1, <2>5, <3>3, <3>4
    <2>. QED  BY <1>1, <2>6, <2>7, <2>8
  <1>4. Nat \subseteq N
    <2>. HIDE DEF N
    <2>. QED  BY <1>2, <1>3, Numbers
  <1>5. \A i \in 1..Len(h) : h[i] = k[i]
    BY <1>1, <1>4
  <1>. QED  BY <1>1, <1>5

\* Of two different members of a list one is ahead, and the other is not.
LEMMA OneIsAhead ==
  ASSUME NEW T, NEW h \in Seq(T), Once(h)
  PROVE  /\ \A a, c \in In(h) : a # c => Ahead(h, a, c) \/ Ahead(h, c, a)
         /\ \A a, c : Ahead(h, a, c) => ~Ahead(h, c, a) /\ a \in In(h) /\ c \in In(h) /\ a # c
  <1>1. DOMAIN h = 1..Len(h) /\ Len(h) \in Nat
    OBVIOUS
  <1>2. \A i, j \in DOMAIN h : i < j \/ j < i \/ i = j
    BY <1>1
  <1>3. ASSUME NEW a \in In(h), NEW c \in In(h), a # c  PROVE Ahead(h, a, c) \/ Ahead(h, c, a)
    <2>1. PICK i \in DOMAIN h : h[i] = a
      BY DEF In
    <2>2. PICK j \in DOMAIN h : h[j] = c
      BY DEF In
    <2>. QED  BY <1>2, <1>3, <2>1, <2>2 DEF Ahead
  <1>4. ASSUME NEW a, NEW c, Ahead(h, a, c)
        PROVE  ~Ahead(h, c, a) /\ a \in In(h) /\ c \in In(h) /\ a # c
    <2>1. PICK i \in DOMAIN h, j \in DOMAIN h : i < j /\ h[i] = a /\ h[j] = c
      BY <1>4 DEF Ahead
    <2>2. i # j
      BY <1>1, <2>1
    <2>3. a # c
      BY <2>1, <2>2 DEF Once
    <2>4. ~Ahead(h, c, a)
      <3>. SUFFICES ASSUME NEW v \in DOMAIN h, NEW u \in DOMAIN h, v < u, h[v] = c, h[u] = a
                    PROVE  FALSE
        BY DEF Ahead
      <3>1. v = j /\ u = i
        BY <2>1 DEF Once
      <3>. QED  BY <1>1, <2>1, <3>1
    <2>. QED  BY <2>1, <2>3, <2>4 DEF In
  <1>. QED  BY <1>3, <1>4

\* A list without one of its members: the others stand as they stood.
LEMMA WithoutOne ==
  ASSUME NEW h \in Seq(Alarms), Once(h), NEW a
  PROVE  LET w == A!Without(h, a)
         IN  /\ w \in Seq(Alarms) /\ Once(w) /\ In(w) = In(h) \ {a}
             /\ Len(w) <= Len(h) /\ (a \in In(h) => Len(w) < Len(h) /\ Len(h) = Len(w) + 1)
             /\ (a \notin In(h) => Len(w) = Len(h))
             /\ \A c, d : Ahead(w, c, d) <=> Ahead(h, c, d) /\ c # a /\ d # a
  <1>. DEFINE keep == A!ToSet(h) \ {a}
              w == Sieved(h, keep)
  <1>1. A!Without(h, a) = w
    BY DEF A!Without, A!Sieved, Sieved
  <1>2. w \in Seq(Alarms) /\ \E at : Spots(at, h, Len(h), keep, w)
    <2>. HIDE DEF keep
    <2>. QED  BY SievedPlaces
  <1>3. \A i \in DOMAIN h : h[i] \in keep <=> h[i] # a
    BY DEF A!ToSet
  <1>. HIDE DEF keep, w
  <1>4. PICK at : Spots(at, h, Len(h), keep, w)
    BY <1>2
  <1>5. DOMAIN w = 1..Len(w) /\ Len(w) \in Nat /\ DOMAIN h = 1..Len(h) /\ Len(h) \in Nat
    BY <1>2
  <1>6. /\ \A i \in DOMAIN w : at[i] \in DOMAIN h /\ w[i] = h[at[i]] /\ h[at[i]] # a
        /\ \A i, j \in DOMAIN w : i < j => at[i] < at[j]
        /\ \A i \in DOMAIN h : h[i] # a => \E n \in DOMAIN w : at[n] = i
    BY <1>3, <1>4, <1>5 DEF Spots
  <1>7. \A i, j \in DOMAIN w : i = j \/ at[i] # at[j]
    <2>1. \A i, j \in DOMAIN w : i < j \/ j < i \/ i = j
      BY <1>5
    <2>2. \A i \in DOMAIN w : at[i] \in Int
      BY <1>5, <1>6
    <2>. QED  BY <1>6, <2>1, <2>2
  <1>8. Once(w)
    BY <1>6, <1>7 DEF Once
  <1>9. In(w) = In(h) \ {a}
    <2>1. ASSUME NEW v \in In(w)  PROVE v \in In(h) \ {a}
      BY <1>6 DEF In
    <2>2. ASSUME NEW v \in In(h) \ {a}  PROVE v \in In(w)
      <3>1. PICK i \in DOMAIN h : h[i] = v
        BY DEF In
      <3>2. PICK n \in DOMAIN w : at[n] = i
        BY <1>6, <3>1
      <3>. QED  BY <1>6, <3>1, <3>2 DEF In
    <2>. QED  BY <2>1, <2>2
  <1>10. /\ Len(w) <= Len(h) /\ (a \in In(h) => Len(w) < Len(h) /\ Len(h) = Len(w) + 1)
         /\ (a \notin In(h) => Len(w) = Len(h))
    <2>1. IsFiniteSet(In(h)) /\ Cardinality(In(h)) = Len(h) /\ Cardinality(In(w)) = Len(w)
      BY <1>2, <1>8, OnceCounts
    <2>2. CASE a \in In(h)
      <3>1. Cardinality(In(h) \ {a}) = Cardinality(In(h)) - 1
        BY <2>1, <2>2, FS_RemoveElement
      <3>2. Len(w) = Len(h) - 1
        BY <1>9, <2>1, <3>1
      <3>3. \A m, n \in Nat : m = n - 1 => m <= n /\ m < n /\ n = m + 1
        OBVIOUS
      <3>. QED  BY <1>5, <2>2, <3>2, <3>3, Zenon
    <2>3. CASE a \notin In(h)
      <3>1. In(w) = In(h)
        BY <1>9, <2>3
      <3>2. Len(w) = Len(h)
        BY <2>1, <3>1
      <3>3. \A n \in Nat : n <= n
        OBVIOUS
      <3>. QED  BY <1>5, <2>3, <3>2, <3>3, Zenon
    <2>. QED  BY <2>2, <2>3
  <1>11. ASSUME NEW c, NEW d  PROVE Ahead(w, c, d) <=> Ahead(h, c, d) /\ c # a /\ d # a
    <2>1. ASSUME Ahead(w, c, d)  PROVE Ahead(h, c, d) /\ c # a /\ d # a
      <3>1. PICK i \in DOMAIN w, j \in DOMAIN w : i < j /\ w[i] = c /\ w[j] = d
        BY <2>1 DEF Ahead
      <3>. QED  BY <1>6, <3>1 DEF Ahead
    <2>2. ASSUME Ahead(h, c, d), c # a, d # a  PROVE Ahead(w, c, d)
      <3>1. PICK i \in DOMAIN h, j \in DOMAIN h : i < j /\ h[i] = c /\ h[j] = d
        BY <2>2 DEF Ahead
      <3>2. PICK n \in DOMAIN w : at[n] = i
        BY <1>6, <2>2, <3>1
      <3>3. PICK m \in DOMAIN w : at[m] = j
        BY <1>6, <2>2, <3>1
      <3>4. n < m
        <4>1. n < m \/ m < n \/ n = m
          BY <1>5
        <4>2. m < n => j < i
          BY <1>6, <3>2, <3>3
        <4>. QED  BY <1>5, <3>1, <3>2, <3>3, <4>1, <4>2
      <3>. QED  BY <1>6, <3>1, <3>2, <3>3, <3>4 DEF Ahead
    <2>. QED  BY <2>1, <2>2
  <1>. QED  BY <1>1, <1>2, <1>8, <1>9, <1>10, <1>11

\* A newcomer put at the front of a list is ahead of all of it.
LEMMA Fronted ==
  ASSUME NEW T, NEW w \in Seq(T), Once(w), NEW c \in T, c \notin In(w)
  PROVE  LET k == <<c>> \o w
         IN  /\ k \in Seq(T) /\ Once(k) /\ In(k) = In(w) \cup {c} /\ Len(k) = Len(w) + 1 /\ k[1] = c
             /\ \A i \in DOMAIN w : k[i + 1] = w[i]
             /\ \A a, d : Ahead(k, a, d) <=> (a = c /\ d \in In(w)) \/ Ahead(w, a, d)
  <1>. DEFINE k == <<c>> \o w
  <1>1. /\ k \in Seq(T) /\ Len(k) = Len(w) + 1 /\ k[1] = c /\ \A i \in 1..Len(w) : k[i + 1] = w[i]
        /\ DOMAIN k = 1..(Len(w) + 1) /\ DOMAIN w = 1..Len(w) /\ Len(w) \in Nat
    OBVIOUS
  <1>. HIDE DEF k
  <1>2. /\ 1 \in DOMAIN k /\ \A i \in DOMAIN w : i + 1 \in DOMAIN k /\ i + 1 # 1 /\ 1 < i + 1
        /\ \A j \in DOMAIN k : j = 1 \/ (j - 1 \in DOMAIN w /\ (j - 1) + 1 = j)
        /\ \A i, j \in DOMAIN w : i < j <=> i + 1 < j + 1
        /\ \A j \in DOMAIN k : ~(j < 1)
    BY <1>1
  <1>3. ASSUME NEW j \in DOMAIN k, j # 1  PROVE \E i \in DOMAIN w : j = i + 1 /\ k[j] = w[i]
    BY <1>1, <1>2, <1>3
  <1>4. In(k) = In(w) \cup {c}
    <2>1. ASSUME NEW v \in In(k)  PROVE v \in In(w) \cup {c}
      BY <1>1, <1>3 DEF In
    <2>2. In(w) \subseteq In(k)
      BY <1>1, <1>2 DEF In
    <2>3. c \in In(k)
      BY <1>1, <1>2 DEF In
    <2>. QED  BY <2>1, <2>2, <2>3
  <1>5. Once(k)
    <2>. SUFFICES ASSUME NEW i \in DOMAIN k, NEW j \in DOMAIN k, k[i] = k[j]  PROVE i = j
      BY DEF Once
    <2>1. \A n \in DOMAIN w : w[n] # c
      BY DEF In
    <2>2. CASE i = 1
      BY <1>1, <1>3, <2>1, <2>2
    <2>3. CASE j = 1
      BY <1>1, <1>3, <2>1, <2>3
    <2>4. CASE i # 1 /\ j # 1
      <3>1. PICK n \in DOMAIN w : i = n + 1 /\ k[i] = w[n]
        BY <1>3, <2>4
      <3>2. PICK m \in DOMAIN w : j = m + 1 /\ k[j] = w[m]
        BY <1>3, <2>4
      <3>. QED  BY <3>1, <3>2 DEF Once
    <2>. QED  BY <2>2, <2>3, <2>4
  <1>6. ASSUME NEW a, NEW d, Ahead(k, a, d)  PROVE (a = c /\ d \in In(w)) \/ Ahead(w, a, d)
    <2>1. PICK i \in DOMAIN k, j \in DOMAIN k : i < j /\ k[i] = a /\ k[j] = d
      BY <1>6 DEF Ahead
    <2>2. j # 1
      BY <1>2, <2>1
    <2>3. PICK m \in DOMAIN w : j = m + 1 /\ k[j] = w[m]
      BY <1>3, <2>2
    <2>4. CASE i = 1
      BY <1>1, <2>1, <2>3, <2>4 DEF In
    <2>5. CASE i # 1
      <3>1. PICK n \in DOMAIN w : i = n + 1 /\ k[i] = w[n]
        BY <1>3, <2>5
      <3>2. n < m
        BY <1>2, <2>1, <2>3, <3>1
      <3>. QED  BY <2>1, <2>3, <3>1, <3>2 DEF Ahead
    <2>. QED  BY <2>4, <2>5
  <1>7. ASSUME NEW a, NEW d, (a = c /\ d \in In(w)) \/ Ahead(w, a, d)  PROVE Ahead(k, a, d)
    <2>1. CASE a = c /\ d \in In(w)
      <3>1. PICK i \in DOMAIN w : w[i] = d
        BY <2>1 DEF In
      <3>2. 1 \in DOMAIN k /\ i + 1 \in DOMAIN k /\ 1 < i + 1 /\ k[i + 1] = d /\ k[1] = a
        BY <1>1, <1>2, <2>1, <3>1
      <3>. QED  BY <3>2 DEF Ahead
    <2>2. CASE Ahead(w, a, d)
      <3>1. PICK i \in DOMAIN w, j \in DOMAIN w : i < j /\ w[i] = a /\ w[j] = d
        BY <2>2 DEF Ahead
      <3>2. i + 1 \in DOMAIN k /\ j + 1 \in DOMAIN k /\ i + 1 < j + 1 /\ k[i + 1] = a /\ k[j + 1] = d
        BY <1>1, <1>2, <3>1
      <3>. QED  BY <3>2 DEF Ahead
    <2>. QED  BY <1>7, <2>1, <2>2
  <1>8. \A a, d : Ahead(k, a, d) <=> (a = c /\ d \in In(w)) \/ Ahead(w, a, d)
    BY <1>6, <1>7
  <1>9. \A i \in DOMAIN w : k[i + 1] = w[i]
    BY <1>1
  <1>. QED  BY <1>1, <1>4, <1>5, <1>8, <1>9 DEF k

\* The first so many of a list, in its order, are ahead of what is cut off.
LEMMA FirstOf ==
  ASSUME NEW T, NEW h \in Seq(T), Once(h), NEW m \in 0..Len(h)
  PROVE  LET k == SubSeq(h, 1, m)
         IN  /\ k \in Seq(T) /\ Once(k) /\ In(k) \subseteq In(h) /\ Len(k) = m
             /\ \A i \in 1..m : k[i] = h[i]
             /\ \A a, d : Ahead(k, a, d) <=> Ahead(h, a, d) /\ d \in In(k)
             /\ \A i \in DOMAIN h : h[i] \in In(k) <=> i <= m
  <1>. DEFINE k == SubSeq(h, 1, m)
  <1>1. /\ k \in Seq(T) /\ Len(k) = m /\ DOMAIN k = 1..m /\ \A i \in 1..m : k[i] = h[i]
        /\ DOMAIN h = 1..Len(h) /\ Len(h) \in Nat /\ m \in Nat
    OBVIOUS
  <1>. HIDE DEF k
  <1>2. /\ \A i \in DOMAIN k : i \in DOMAIN h /\ i <= m
        /\ \A i \in DOMAIN h : i <= m <=> i \in DOMAIN k
        /\ \A j \in DOMAIN k, i \in DOMAIN h : i < j => i \in DOMAIN k
    BY <1>1
  <1>3. Once(k)
    BY <1>1, <1>2 DEF Once
  <1>4. In(k) \subseteq In(h)
    BY <1>1, <1>2 DEF In
  <1>5. ASSUME NEW i \in DOMAIN h  PROVE h[i] \in In(k) <=> i <= m
    <2>1. ASSUME h[i] \in In(k)  PROVE i <= m
      <3>1. PICK n \in DOMAIN k : k[n] = h[i]
        BY <2>1 DEF In
      <3>2. n = i
        BY <1>1, <1>2, <3>1 DEF Once
      <3>. QED  BY <1>2, <3>1, <3>2
    <2>2. ASSUME i <= m  PROVE h[i] \in In(k)
      BY <1>1, <1>2, <2>2 DEF In
    <2>. QED  BY <2>1, <2>2
  <1>6. ASSUME NEW a, NEW d, Ahead(k, a, d)  PROVE Ahead(h, a, d) /\ d \in In(k)
    <2>1. PICK i \in DOMAIN k, j \in DOMAIN k : i < j /\ k[i] = a /\ k[j] = d
      BY <1>6 DEF Ahead
    <2>. QED  BY <1>1, <1>2, <2>1 DEF Ahead, In
  <1>7. ASSUME NEW a, NEW d, Ahead(h, a, d), d \in In(k)  PROVE Ahead(k, a, d)
    <2>1. PICK i \in DOMAIN h, j \in DOMAIN h : i < j /\ h[i] = a /\ h[j] = d
      BY <1>7 DEF Ahead
    <2>2. j \in DOMAIN k
      BY <1>2, <1>5, <1>7, <2>1
    <2>3. i \in DOMAIN k
      BY <1>2, <2>1, <2>2
    <2>. QED  BY <1>1, <2>1, <2>2, <2>3 DEF Ahead
  <1>8. \A a, d : Ahead(k, a, d) <=> Ahead(h, a, d) /\ d \in In(k)
    BY <1>6, <1>7
  <1>. QED  BY <1>1, <1>3, <1>4, <1>5, <1>8 DEF k

\* An alarm at the head of the history, whose last one goes if there is no room.
LEMMA Heads ==
  ASSUME A!AlertsAssumption, NEW h \in Seq(Alarms), Once(h), Len(h) <= Depth, NEW c \in Alarms
  PROVE  LET k == A!Headed(h, c)
         IN  /\ k \in Seq(Alarms) /\ Once(k) /\ Len(k) <= Depth /\ Len(h) <= Len(k)
             /\ c \in In(k) /\ In(k) \subseteq In(h) \cup {c}
             /\ \A a \in In(k) : a # c => Ahead(k, c, a)
             /\ \A a, d : a # c /\ d # c => (Ahead(k, a, d) <=> Ahead(h, a, d) /\ d \in In(k))
             /\ \A z \in In(h) : z \notin In(k) =>
                  /\ c \notin In(h) /\ Len(h) = Depth /\ Len(k) = Depth
                  /\ \A y \in In(h) : y # z => y \in In(k) /\ Ahead(h, y, z)
  <1>. DEFINE w == A!Without(h, c)
              all == <<c>> \o w
              m == IF Len(all) < Depth THEN Len(all) ELSE Depth
              k == SubSeq(all, 1, m)
  <1>1. A!Headed(h, c) = k
    BY DEF A!Headed
  <1>2. /\ w \in Seq(Alarms) /\ Once(w) /\ In(w) = In(h) \ {c}
        /\ Len(w) <= Len(h) /\ (c \in In(h) => Len(w) < Len(h) /\ Len(h) = Len(w) + 1)
        /\ (c \notin In(h) => Len(w) = Len(h))
        /\ \A a, d : Ahead(w, a, d) <=> Ahead(h, a, d) /\ a # c /\ d # c
    BY WithoutOne
  <1>. HIDE DEF w
  <1>3. c \notin In(w)
    BY <1>2
  <1>4. /\ all \in Seq(Alarms) /\ Once(all) /\ In(all) = In(w) \cup {c} /\ Len(all) = Len(w) + 1
        /\ all[1] = c /\ \A i \in DOMAIN w : all[i + 1] = w[i]
        /\ \A a, d : Ahead(all, a, d) <=> (a = c /\ d \in In(w)) \/ Ahead(w, a, d)
    BY <1>2, <1>3, Fronted
  <1>. HIDE DEF all
  <1>5. /\ Depth \in Nat /\ Depth # 0 /\ Len(h) \in Nat /\ Len(w) \in Nat /\ Len(all) \in Nat
        /\ DOMAIN all = 1..Len(all) /\ DOMAIN w = 1..Len(w)
    BY <1>2, <1>4 DEF A!AlertsAssumption
  <1>6. /\ m \in 0..Len(all) /\ m <= Depth /\ Len(h) <= m /\ 1 <= m
        /\ (m < Len(all) => m = Depth /\ Len(h) = Depth /\ Len(w) = Depth /\ Len(all) = Depth + 1)
    <2>. DEFINE lw == Len(w)
                lh == Len(h)
                la == Len(all)
    <2>1. /\ lw \in Nat /\ lh \in Nat /\ la \in Nat /\ lw <= lh /\ la = lw + 1 /\ lh <= Depth
          /\ (lw = lh \/ lh = lw + 1)
      BY <1>2, <1>4, <1>5
    <2>. HIDE DEF lw, lh, la
    <2>2. LET n == IF la < Depth THEN la ELSE Depth
          IN  /\ n \in 0..la /\ n <= Depth /\ lh <= n /\ 1 <= n
              /\ (n < la => n = Depth /\ lh = Depth /\ lw = Depth /\ la = Depth + 1)
      BY <1>5, <2>1
    <2>. QED  BY <2>2 DEF lw, lh, la
  <1>. HIDE DEF m
  <1>7. /\ k \in Seq(Alarms) /\ Once(k) /\ In(k) \subseteq In(all) /\ Len(k) = m
        /\ \A i \in 1..m : k[i] = all[i]
        /\ \A a, d : Ahead(k, a, d) <=> Ahead(all, a, d) /\ d \in In(k)
        /\ \A i \in DOMAIN all : all[i] \in In(k) <=> i <= m
    BY <1>4, <1>6, FirstOf
  <1>. HIDE DEF k
  <1>8. c \in In(k)
    <2>1. 1 \in DOMAIN all
      <3>1. \A n \in Nat : 1 \in 1..(n + 1)
        OBVIOUS
      <3>2. 1 \in 1..Len(all)
        BY <1>4, <1>5, <3>1, Zenon
      <3>. QED  BY <1>5, <3>2
    <2>. QED  BY <1>4, <1>6, <1>7, <2>1
  <1>9. \A a \in In(k) : a # c => Ahead(k, c, a)
    BY <1>4, <1>7
  <1>10. \A a, d : a # c /\ d # c => (Ahead(k, a, d) <=> Ahead(h, a, d) /\ d \in In(k))
    BY <1>2, <1>4, <1>7
  <1>11. ASSUME NEW z \in In(h), z \notin In(k)
         PROVE  /\ c \notin In(h) /\ Len(h) = Depth /\ Len(k) = Depth
                /\ \A y \in In(h) : y # z => y \in In(k) /\ Ahead(h, y, z)
    <2>1. z # c
      BY <1>8, <1>11
    <2>2. PICK j \in DOMAIN w : w[j] = z
      <3>1. z \in In(w)
        BY <1>2, <2>1
      <3>. QED  BY <3>1 DEF In
    <2>3. j + 1 \in DOMAIN all /\ all[j + 1] = z
      <3>1. j + 1 \in DOMAIN all
        BY <1>4, <1>5
      <3>. QED  BY <1>4, <2>2, <3>1
    <2>4. ~(j + 1 <= m)
      BY <1>7, <1>11, <2>3
    <2>5. m < Len(all) /\ j = Len(w) /\ m = Len(w)
      <3>1. m < Len(all)
        <4>1. j + 1 \in 1..Len(all)
          BY <1>5, <2>3
        <4>2. \A n, q, i \in Nat : i \in 1..n /\ q \in 0..n /\ ~(i <= q) => q < n
          OBVIOUS
        <4>3. \A n \in Nat : \A q \in 0..n : q \in Nat
          OBVIOUS
        <4>4. \A n \in Nat : \A i \in 1..n : i \in Nat
          OBVIOUS
        <4>5. m \in Nat /\ j + 1 \in Nat
          BY <1>5, <1>6, <4>1, <4>3, <4>4, Zenon
        <4>. QED  BY <1>5, <1>6, <2>4, <4>1, <4>2, <4>5, Zenon
      <3>2. Len(w) = Depth /\ m = Depth
        BY <1>6, <3>1
      <3>3. j \in 1..Len(w)
        BY <1>5
      <3>. QED  BY <1>5, <2>4, <3>1, <3>2, <3>3
    <2>6. m = Depth /\ Len(h) = Depth /\ Len(w) = Depth
      BY <1>6, <2>5
    <2>7. c \notin In(h)
      <3>1. \A n \in Nat : ~(n < n)
        OBVIOUS
      <3>. QED  BY <1>2, <1>5, <2>6, <3>1
    <2>8. ASSUME NEW y \in In(h), y # z  PROVE y \in In(k) /\ Ahead(h, y, z)
      <3>1. y \in In(w)
        BY <1>2, <2>7
      <3>2. PICK i \in DOMAIN w : w[i] = y
        BY <3>1 DEF In
      <3>3. i \in 1..Len(w) /\ i # j
        BY <1>5, <2>2, <2>8, <3>2
      <3>4. i < j /\ i + 1 <= m /\ i + 1 \in DOMAIN all
        BY <1>4, <1>5, <2>5, <3>3
      <3>5. y \in In(k)
        BY <1>4, <1>7, <3>2, <3>4
      <3>6. Ahead(w, y, z)
        BY <2>2, <3>2, <3>4 DEF Ahead
      <3>. QED  BY <1>2, <3>5, <3>6
    <2>. QED  BY <1>7, <2>6, <2>7, <2>8
  <1>12. In(k) \subseteq In(h) \cup {c}
    BY <1>2, <1>4, <1>7
  <1>13. Len(k) <= Depth /\ Len(h) <= Len(k)
    BY <1>6, <1>7
  <1>. QED  BY <1>1, <1>7, <1>8, <1>9, <1>10, <1>11, <1>12, <1>13

-----------------------------------------------------------------------------
(* Queues of events, and what one event leaves of a book.                    *)

\* Where one more event goes: behind all of a queue.
Behind(q, e, p, z) ==
  /\ z \in DOMAIN p /\ p[z] = e /\ z \notin DOMAIN q
  /\ \A i \in DOMAIN q : i \in DOMAIN p /\ p[i] = q[i] /\ i < z /\ i <= z /\ ~(z < i) /\ ~(z <= i)
  /\ \A i \in DOMAIN p : i = z \/ i \in DOMAIN q
  /\ \A i, j \in DOMAIN p : (i < j => i # j) /\ i <= i /\ ~(i < i) /\ (i < j \/ j < i \/ i = j) /\ (i < j => ~(j < i))

LEMMA OneBehind ==
  ASSUME NEW q \in Seq(Events), NEW e \in Events
  PROVE  Append(q, e) \in Seq(Events) /\ Behind(q, e, Append(q, e), Len(q) + 1)
  <1>. DEFINE p == Append(q, e)
  <1>1. /\ p \in Seq(Events) /\ Len(q) \in Nat /\ DOMAIN q = 1..Len(q) /\ DOMAIN p = 1..(Len(q) + 1)
        /\ p[Len(q) + 1] = e /\ \A i \in 1..Len(q) : p[i] = q[i]
    OBVIOUS
  <1>. HIDE DEF p
  <1>. QED  BY <1>1 DEF Behind, p

\* What stands in a queue with one more event: what stood there, and that.
LEMMA Longer ==
  ASSUME NEW q, NEW e, NEW p, NEW z, Behind(q, e, p, z)
  PROVE  /\ \A a : \A i : i \in Turns(p, a) <=> i \in Turns(q, a)
                        \/ (i = z /\ e.kind \in {"raised", "resolved"} /\ e.alarm = a)
         /\ \A a : \A i : i \in Mutes(p, a) <=> i \in Mutes(q, a) \/ (i = z /\ e.kind = "mute" /\ e.alarm = a)
         /\ \A i : i \in Counts(p) <=> i \in Counts(q) \/ (i = z /\ e.kind = "dropped")
         /\ \A i : i \in Closes(p) <=> i \in Closes(q) \/ (i = z /\ e.kind = "resolved")
         /\ Ended(p) = Ended(q) \cup (IF e.kind = "resolved" THEN {e.alarm} ELSE {})
  <1>1. \A i : i \in DOMAIN p <=> i \in DOMAIN q \/ i = z
    BY DEF Behind
  <1>2. p[z] = e /\ z \notin DOMAIN q /\ \A i \in DOMAIN q : p[i] = q[i]
    BY DEF Behind
  <1>3. \A a : \A i : i \in Turns(p, a) <=> i \in Turns(q, a)
                    \/ (i = z /\ e.kind \in {"raised", "resolved"} /\ e.alarm = a)
    BY <1>1, <1>2 DEF Turns
  <1>4. \A a : \A i : i \in Mutes(p, a) <=> i \in Mutes(q, a) \/ (i = z /\ e.kind = "mute" /\ e.alarm = a)
    BY <1>1, <1>2 DEF Mutes
  <1>5. \A i : i \in Counts(p) <=> i \in Counts(q) \/ (i = z /\ e.kind = "dropped")
    BY <1>1, <1>2 DEF Counts
  <1>6. \A i : i \in Closes(p) <=> i \in Closes(q) \/ (i = z /\ e.kind = "resolved")
    BY <1>1, <1>2 DEF Closes
  <1>7. \A i \in Closes(q) : i \in DOMAIN q
    BY DEF Closes
  <1>8. ASSUME NEW a  PROVE a \in Ended(p) <=> a \in Ended(q) \/ (e.kind = "resolved" /\ a = e.alarm)
    <2>1. ASSUME a \in Ended(p)  PROVE a \in Ended(q) \/ (e.kind = "resolved" /\ a = e.alarm)
      BY <1>2, <1>6, <1>7, <2>1 DEF Ended
    <2>2. ASSUME a \in Ended(q)  PROVE a \in Ended(p)
      BY <1>2, <1>6, <1>7, <2>2 DEF Ended
    <2>3. ASSUME e.kind = "resolved"  PROVE e.alarm \in Ended(p)
      BY <1>2, <1>6, <2>3 DEF Ended
    <2>. QED  BY <2>1, <2>2, <2>3
  <1>9. Ended(p) = Ended(q) \cup (IF e.kind = "resolved" THEN {e.alarm} ELSE {})
    BY <1>8
  <1>. QED  BY <1>3, <1>4, <1>5, <1>6, <1>9

\* A queue without its first event.
LEMMA Shorter ==
  ASSUME NEW q \in Seq(Events), q # <<>>
  PROVE  LET r == Tail(q)  e == Head(q)
         IN  /\ r \in Seq(Events) /\ e \in Events /\ e = q[1]
             /\ \A a : \A i \in Turns(r, a) : i + 1 \in Turns(q, a)
             /\ \A a : \A i \in Turns(q, a) : i = 1 \/ \E j \in Turns(r, a) : i = j + 1
             /\ \A a : \A i \in Mutes(r, a) : i + 1 \in Mutes(q, a)
             /\ \A a : \A i \in Mutes(q, a) : i = 1 \/ \E j \in Mutes(r, a) : i = j + 1
             /\ \A i \in Counts(r) : i + 1 \in Counts(q)
             /\ \A i \in Counts(q) : i = 1 \/ \E j \in Counts(r) : i = j + 1
             /\ \A i \in Closes(r) : i + 1 \in Closes(q)
             /\ \A i \in Closes(q) : i = 1 \/ \E j \in Closes(r) : i = j + 1
             /\ \A i \in DOMAIN r : i \in Nat /\ i # 0 /\ r[i] = q[i + 1]
             /\ \A i \in DOMAIN q : i \in Nat /\ i # 0
             /\ 1 \in DOMAIN q
  <1>. DEFINE r == Tail(q)
  <1>1. /\ r \in Seq(Events) /\ Len(r) = Len(q) - 1 /\ Len(q) \in Nat /\ Len(q) # 0 /\ Head(q) = q[1]
        /\ Head(q) \in Events
        /\ DOMAIN q = 1..Len(q) /\ DOMAIN r = 1..(Len(q) - 1) /\ \A i \in 1..(Len(q) - 1) : r[i] = q[i + 1]
    OBVIOUS
  <1>. HIDE DEF r
  <1>2. /\ \A i \in DOMAIN r : i \in Nat /\ i # 0 /\ i + 1 \in DOMAIN q /\ r[i] = q[i + 1]
        /\ \A i \in DOMAIN q : i \in Nat /\ i # 0 /\ (i = 1 \/ \E j \in DOMAIN r : i = j + 1)
        /\ 1 \in DOMAIN q
    <2>1. \A i \in DOMAIN r : i \in Nat /\ i # 0 /\ i + 1 \in DOMAIN q /\ r[i] = q[i + 1]
      BY <1>1
    <2>2. ASSUME NEW i \in DOMAIN q, i # 1  PROVE \E j \in DOMAIN r : i = j + 1
      <3>1. i - 1 \in DOMAIN r /\ i = (i - 1) + 1
        BY <1>1, <2>2
      <3>. QED  BY <3>1
    <2>3. \A i \in DOMAIN q : i \in Nat /\ i # 0
      BY <1>1
    <2>4. 1 \in DOMAIN q
      BY <1>1
    <2>. QED  BY <2>1, <2>2, <2>3, <2>4
  <1>3. /\ \A a : \A i \in Turns(r, a) : i + 1 \in Turns(q, a)
        /\ \A a : \A i \in Turns(q, a) : i = 1 \/ \E j \in Turns(r, a) : i = j + 1
    BY <1>2 DEF Turns
  <1>4. /\ \A a : \A i \in Mutes(r, a) : i + 1 \in Mutes(q, a)
        /\ \A a : \A i \in Mutes(q, a) : i = 1 \/ \E j \in Mutes(r, a) : i = j + 1
    BY <1>2 DEF Mutes
  <1>5. /\ \A i \in Counts(r) : i + 1 \in Counts(q)
        /\ \A i \in Counts(q) : i = 1 \/ \E j \in Counts(r) : i = j + 1
    BY <1>2 DEF Counts
  <1>6. /\ \A i \in Closes(r) : i + 1 \in Closes(q)
        /\ \A i \in Closes(q) : i = 1 \/ \E j \in Closes(r) : i = j + 1
    BY <1>2 DEF Closes
  <1>. QED  BY <1>1, <1>2, <1>3, <1>4, <1>5, <1>6 DEF r

\* What an event leaves of a book.
LEMMA Applied ==
  ASSUME A!AlertsAssumption, NEW s \in Books, NEW e \in Events
  PROVE  LET t == A!Apply(s, e)
         IN  /\ t \in Books
             /\ e.kind = "raised" => /\ e.alarm \in Alarms /\ In(t.active) = In(s.active) \cup {e.alarm}
                                     /\ t.history = s.history /\ t.muted = s.muted /\ t.dropped = s.dropped
             /\ e.kind = "resolved" => /\ e.alarm \in Alarms /\ In(t.active) = In(s.active) \ {e.alarm}
                                       /\ t.history = A!Headed(s.history, e.alarm)
                                       /\ t.muted = s.muted /\ t.dropped = s.dropped
             /\ e.kind = "mute" => /\ e.alarm \in Alarms
                                   /\ t.active = s.active /\ t.history = s.history /\ t.dropped = s.dropped
                                   /\ t.muted = IF e.on THEN s.muted \cup {e.alarm} ELSE s.muted \ {e.alarm}
             /\ e.kind = "dropped" => /\ e.total \in Nat
                                      /\ t.active = s.active /\ t.history = s.history /\ t.muted = s.muted
                                      /\ t.dropped = IF e.total > s.dropped THEN e.total ELSE s.dropped
             /\ e.kind \in {"raised", "resolved", "mute", "dropped"}
             /\ s.dropped \in Nat
  <1>1. /\ s = [active |-> s.active, history |-> s.history, muted |-> s.muted, dropped |-> s.dropped]
        /\ s.active \in Seq(Alarms) /\ s.history \in Seq(Alarms) /\ s.muted \in SUBSET Alarms
        /\ s.dropped \in 0..MaxTotal /\ Once(s.active) /\ Once(s.history) /\ Len(s.history) <= Depth
    BY DEF Books
  <1>2. \A u \in [active : Seq(Alarms), history : Seq(Alarms), muted : SUBSET Alarms, dropped : 0..MaxTotal] :
          Once(u.active) /\ Once(u.history) /\ Len(u.history) <= Depth => u \in Books
    BY DEF Books
  <1>3. s.dropped \in Nat
    BY <1>1 DEF A!AlertsAssumption
  <1>4. CASE e \in [kind : {"raised"}, alarm : Alarms]
    <2>1. e.kind = "raised" /\ e.alarm \in Alarms
      BY <1>4
    <2>. DEFINE l == A!merged(s.active, e.alarm)
    <2>2. l \in Seq(Alarms) /\ Once(l) /\ In(l) = In(s.active) \cup {e.alarm}
      <3>1. A!ToSet(s.active) = In(s.active)
        BY DEF A!ToSet, In
      <3>2. CASE e.alarm \in In(s.active)
        <4>1. l = s.active
          BY <3>1, <3>2 DEF A!merged
        <4>. QED  BY <1>1, <3>2, <4>1
      <3>3. CASE e.alarm \notin In(s.active)
        <4>1. l = Append(s.active, e.alarm)
          BY <3>1, <3>3 DEF A!merged
        <4>2. /\ l \in Seq(Alarms) /\ DOMAIN l = 1..(Len(s.active) + 1) /\ DOMAIN s.active = 1..Len(s.active)
              /\ Len(s.active) \in Nat
              /\ l[Len(s.active) + 1] = e.alarm /\ \A i \in 1..Len(s.active) : l[i] = s.active[i]
          BY <1>1, <2>1, <4>1
        <4>3. \A i : i \in DOMAIN l <=> i \in DOMAIN s.active \/ i = Len(s.active) + 1
          BY <4>2
        <4>4. \A i \in DOMAIN s.active : l[i] = s.active[i] /\ l[i] # e.alarm
          BY <3>3, <4>2 DEF In
        <4>5. Once(l)
          BY <1>1, <4>2, <4>3, <4>4 DEF Once
        <4>6. In(l) = In(s.active) \cup {e.alarm}
          BY <4>2, <4>3, <4>4 DEF In
        <4>. QED  BY <4>2, <4>5, <4>6
      <3>. QED  BY <3>2, <3>3
    <2>. HIDE DEF l
    <2>3. A!Apply(s, e) = [active |-> l, history |-> s.history, muted |-> s.muted, dropped |-> s.dropped]
      BY <1>1, <2>1 DEF A!Apply, A!Raised, l
    <2>4. A!Apply(s, e) \in Books
      BY <1>1, <1>2, <2>2, <2>3
    <2>. QED  BY <1>3, <2>1, <2>2, <2>3, <2>4
  <1>5. CASE e \in [kind : {"resolved"}, alarm : Alarms]
    <2>1. e.kind = "resolved" /\ e.alarm \in Alarms
      BY <1>5
    <2>. DEFINE l == A!Without(s.active, e.alarm)
                k == A!Headed(s.history, e.alarm)
    <2>2. l \in Seq(Alarms) /\ Once(l) /\ In(l) = In(s.active) \ {e.alarm}
      BY <1>1, WithoutOne
    <2>3. k \in Seq(Alarms) /\ Once(k) /\ Len(k) <= Depth
      BY <1>1, <2>1, Heads
    <2>. HIDE DEF l, k
    <2>4. A!Apply(s, e) = [active |-> l, history |-> k, muted |-> s.muted, dropped |-> s.dropped]
      BY <1>1, <2>1 DEF A!Apply, A!Resolved, l, k
    <2>5. A!Apply(s, e) \in Books
      BY <1>1, <1>2, <2>2, <2>3, <2>4
    <2>. QED  BY <1>3, <2>1, <2>2, <2>4, <2>5 DEF k
  <1>6. CASE e \in [kind : {"mute"}, alarm : Alarms, on : BOOLEAN]
    <2>1. e.kind = "mute" /\ e.alarm \in Alarms
      BY <1>6
    <2>. DEFINE m == IF e.on THEN s.muted \cup {e.alarm} ELSE s.muted \ {e.alarm}
    <2>2. m \in SUBSET Alarms
      BY <1>1, <2>1
    <2>3. A!Apply(s, e) = A!Muted(s, e)
      BY <2>1 DEF A!Apply
    <2>4. A!Muted(s, e) = [active |-> s.active, history |-> s.history, muted |-> m, dropped |-> s.dropped]
      <3>1. A!Muted(s, e) = [s EXCEPT !.muted = m]
        BY Zenon DEF A!Muted
      <3>. HIDE DEF m
      <3>. QED  BY <1>1, <3>1
    <2>. HIDE DEF m
    <2>5. A!Apply(s, e) \in Books
      BY <1>1, <1>2, <2>2, <2>3, <2>4
    <2>. QED  BY <1>3, <2>1, <2>3, <2>4, <2>5 DEF m
  <1>7. CASE e \in [kind : {"dropped"}, total : 0..MaxTotal]
    <2>1. e.kind = "dropped" /\ e.total \in 0..MaxTotal /\ e.total \in Nat
      BY <1>7 DEF A!AlertsAssumption
    <2>. DEFINE n == IF e.total > s.dropped THEN e.total ELSE s.dropped
    <2>2. n \in 0..MaxTotal
      BY <1>1, <2>1
    <2>3. A!Apply(s, e) = [active |-> s.active, history |-> s.history, muted |-> s.muted, dropped |-> n]
      BY <1>1, <2>1 DEF A!Apply, A!DroppedTotal
    <2>. HIDE DEF n
    <2>4. A!Apply(s, e) \in Books
      BY <1>1, <1>2, <2>2, <2>3
    <2>. QED  BY <1>3, <2>1, <2>3, <2>4 DEF n
  <1>. QED  BY <1>4, <1>5, <1>6, <1>7 DEF Events

-----------------------------------------------------------------------------
(* One thing more is told.                                                   *)

\* What was sooner in a queue stays so, and is sooner than what comes behind.
LEMMA SoonerStays ==
  ASSUME NEW q, NEW e, NEW p, NEW z, Behind(q, e, p, z)
  PROVE  /\ \A c, d : Sooner(q, c, d) => Sooner(p, c, d)
         /\ \A c, d : Sooner(p, c, d) =>
              Sooner(q, c, d) \/ (e.kind = "resolved" /\ d = e.alarm /\ c \in Ended(q))
         /\ e.kind = "resolved" => \A c \in Ended(q) : Sooner(p, c, e.alarm)
  <1>1. \A i : i \in Closes(p) <=> i \in Closes(q) \/ (i = z /\ e.kind = "resolved")
    BY Longer
  <1>2. /\ p[z] = e /\ \A i \in Closes(q) : p[i] = q[i] /\ i < z /\ ~(z < i)
        /\ ~(z < z) /\ \A i \in Closes(q) : i \in DOMAIN q
    BY DEF Behind, Closes
  <1>3. ASSUME NEW c, NEW d, Sooner(q, c, d)  PROVE Sooner(p, c, d)
    BY <1>1, <1>2, <1>3 DEF Sooner
  <1>4. ASSUME NEW c, NEW d, Sooner(p, c, d)
        PROVE  Sooner(q, c, d) \/ (e.kind = "resolved" /\ d = e.alarm /\ c \in Ended(q))
    <2>1. PICK i \in Closes(p), j \in Closes(p) : i < j /\ p[i].alarm = c /\ p[j].alarm = d
      BY <1>4 DEF Sooner
    <2>2. i \in Closes(q)
      BY <1>1, <1>2, <2>1
    <2>3. CASE j \in Closes(q)
      BY <1>2, <2>1, <2>2, <2>3 DEF Sooner
    <2>4. CASE j \notin Closes(q)
      BY <1>1, <1>2, <2>1, <2>2, <2>4 DEF Ended
    <2>. QED  BY <2>3, <2>4
  <1>5. ASSUME e.kind = "resolved", NEW c \in Ended(q)  PROVE Sooner(p, c, e.alarm)
    <2>1. PICK i \in Closes(q) : q[i].alarm = c
      BY DEF Ended
    <2>. QED  BY <1>1, <1>2, <1>5, <2>1 DEF Sooner
  <1>. QED  BY <1>3, <1>4, <1>5

\* What was told stays true when one more thing that is true is told.
LEMMA ToldStays ==
  ASSUME NEW q, NEW e, NEW p, NEW z, Behind(q, e, p, z), NEW s, NEW t, Told(q, s),
         \A a \in Alarms : (e.kind \in {"raised", "resolved"} /\ e.alarm = a)
                           \/ (a \in In(t.active) <=> a \in In(s.active)),
         e.kind \in {"raised", "resolved"} => (e.kind = "raised" <=> e.alarm \in In(t.active)),
         \A a \in Alarms : (e.kind = "mute" /\ e.alarm = a) \/ (a \in t.muted <=> a \in s.muted),
         e.kind = "mute" => (e.on <=> e.alarm \in t.muted),
         \A i \in Counts(q) : q[i].total <= t.dropped,
         e.kind = "dropped" => e.total <= t.dropped
  PROVE  Told(p, t)
  <1>1. /\ p[z] = e /\ z \in DOMAIN p
        /\ \A i \in DOMAIN q : i \in DOMAIN p /\ p[i] = q[i] /\ i <= z /\ ~(z <= i)
    BY DEF Behind
  <1>2. /\ \A a : \A i : i \in Turns(p, a) <=> i \in Turns(q, a)
                        \/ (i = z /\ e.kind \in {"raised", "resolved"} /\ e.alarm = a)
        /\ \A a : \A i : i \in Mutes(p, a) <=> i \in Mutes(q, a) \/ (i = z /\ e.kind = "mute" /\ e.alarm = a)
        /\ \A i : i \in Counts(p) <=> i \in Counts(q) \/ (i = z /\ e.kind = "dropped")
    BY Longer
  <1>3. /\ \A a : \A i \in Turns(q, a) : i \in DOMAIN q
        /\ \A a : \A i \in Mutes(q, a) : i \in DOMAIN q
        /\ \A i \in Counts(q) : i \in DOMAIN q
    BY DEF Turns, Mutes, Counts
  <1>4. ASSUME NEW a \in Alarms, NEW i \in Turns(p, a), \A j \in Turns(p, a) : j <= i
        PROVE  p[i].kind = "raised" <=> a \in In(t.active)
    <2>1. CASE e.kind \in {"raised", "resolved"} /\ e.alarm = a
      <3>1. z \in Turns(p, a)
        BY <1>2, <2>1
      <3>2. i = z
        BY <1>1, <1>2, <1>3, <1>4, <3>1
      <3>. QED  BY <1>1, <2>1, <3>2
    <2>2. CASE ~(e.kind \in {"raised", "resolved"} /\ e.alarm = a)
      <3>1. i \in Turns(q, a) /\ \A j \in Turns(q, a) : j <= i
        BY <1>2, <1>4, <2>2
      <3>2. q[i].kind = "raised" <=> a \in In(s.active)
        BY <3>1 DEF Told
      <3>. QED  BY <1>1, <1>3, <2>2, <3>1, <3>2
    <2>. QED  BY <2>1, <2>2
  <1>5. ASSUME NEW a \in Alarms, NEW i \in Mutes(p, a), \A j \in Mutes(p, a) : j <= i
        PROVE  p[i].on <=> a \in t.muted
    <2>1. CASE e.kind = "mute" /\ e.alarm = a
      <3>1. z \in Mutes(p, a)
        BY <1>2, <2>1
      <3>2. i = z
        BY <1>1, <1>2, <1>3, <1>5, <3>1
      <3>. QED  BY <1>1, <2>1, <3>2
    <2>2. CASE ~(e.kind = "mute" /\ e.alarm = a)
      <3>1. i \in Mutes(q, a) /\ \A j \in Mutes(q, a) : j <= i
        BY <1>2, <1>5, <2>2
      <3>2. q[i].on <=> a \in s.muted
        BY <3>1 DEF Told
      <3>3. (a \in t.muted <=> a \in s.muted) /\ p[i] = q[i]
        BY <1>1, <1>3, <2>2, <3>1
      <3>. QED  BY <3>2, <3>3, Zenon
    <2>. QED  BY <2>1, <2>2
  <1>6. ASSUME NEW i \in Counts(p)  PROVE p[i].total <= t.dropped
    BY <1>1, <1>2, <1>3, <1>6
  <1>. QED  BY <1>4, <1>5, <1>6, Zenon DEF Told

\* What an event does not touch, a book has as the server has it, as before.
LEMMA AgreeStays ==
  ASSUME NEW q, NEW e, NEW p, NEW z, Behind(q, e, p, z), NEW s, NEW t, NEW b, Agree(b, q, s),
         \A a \in Alarms : (e.kind \in {"raised", "resolved"} /\ e.alarm = a)
                           \/ (a \in In(t.active) <=> a \in In(s.active)),
         \A a \in Alarms : (e.kind = "mute" /\ e.alarm = a) \/ (a \in t.muted <=> a \in s.muted),
         b.dropped <= t.dropped,
         t.dropped = s.dropped \/ (e.kind = "dropped" /\ e.total = t.dropped)
  PROVE  Agree(b, p, t)
  <1>1. p[z] = e /\ \A i \in DOMAIN q : p[i] = q[i]
    BY DEF Behind
  <1>2. /\ \A a : \A i : i \in Turns(p, a) <=> i \in Turns(q, a)
                        \/ (i = z /\ e.kind \in {"raised", "resolved"} /\ e.alarm = a)
        /\ \A a : \A i : i \in Mutes(p, a) <=> i \in Mutes(q, a) \/ (i = z /\ e.kind = "mute" /\ e.alarm = a)
        /\ \A i : i \in Counts(p) <=> i \in Counts(q) \/ (i = z /\ e.kind = "dropped")
    BY Longer
  <1>3. \A i \in Counts(q) : i \in DOMAIN q
    BY DEF Counts
  <1>4. ASSUME NEW a \in Alarms, Turns(p, a) = {}  PROVE a \in In(b.active) <=> a \in In(t.active)
    <2>1. Turns(q, a) = {} /\ ~(e.kind \in {"raised", "resolved"} /\ e.alarm = a)
      BY <1>2, <1>4
    <2>. QED  BY <2>1 DEF Agree
  <1>5. ASSUME NEW a \in Alarms, Mutes(p, a) = {}  PROVE a \in b.muted <=> a \in t.muted
    <2>1. Mutes(q, a) = {} /\ ~(e.kind = "mute" /\ e.alarm = a)
      BY <1>2, <1>5
    <2>. QED  BY <2>1 DEF Agree
  <1>6. b.dropped = t.dropped \/ \E i \in Counts(p) : p[i].total = t.dropped
    <2>1. CASE t.dropped = s.dropped
      BY <1>1, <1>2, <1>3, <2>1 DEF Agree
    <2>2. CASE e.kind = "dropped" /\ e.total = t.dropped
      BY <1>1, <1>2, <2>2
    <2>. QED  BY <2>1, <2>2
  <1>. QED  BY <1>4, <1>5, <1>6 DEF Agree

\* An event that closes nothing and leaves the history alone closes nothing.
LEMMA ClosedStays ==
  ASSUME NEW q, NEW e, NEW p, NEW z, Behind(q, e, p, z), NEW s, NEW t, Closed(q, s),
         e.kind # "resolved", t.history = s.history, Ended(q) \cap In(t.active) = {}
  PROVE  Closed(p, t) /\ Ended(p) = Ended(q)
  <1>1. \A i : i \in Closes(p) <=> i \in Closes(q)
    BY Longer
  <1>2. Ended(p) = Ended(q)
    BY Longer
  <1>3. \A c, d : Sooner(p, c, d) <=> Sooner(q, c, d)
    BY SoonerStays
  <1>4. \A i \in Closes(q) : p[i] = q[i]
    BY DEF Behind, Closes
  <1>. QED  BY <1>1, <1>2, <1>3, <1>4 DEF Closed

\* Of two alarms a queue closes one is sooner, and the other is not.
LEMMA OneIsSooner ==
  ASSUME NEW q \in Seq(Events), \A i, j \in Closes(q) : q[i].alarm = q[j].alarm => i = j
  PROVE  /\ \A a, c \in Ended(q) : a # c => Sooner(q, a, c) \/ Sooner(q, c, a)
         /\ \A a, c : Sooner(q, a, c) => ~Sooner(q, c, a) /\ a \in Ended(q) /\ c \in Ended(q) /\ a # c
  <1>1. \A i \in Closes(q) : i \in Nat
    BY DEF Closes
  <1>2. \A i, j \in Closes(q) : (i < j \/ j < i \/ i = j) /\ (i < j => i # j /\ ~(j < i))
    BY <1>1
  <1>3. ASSUME NEW a \in Ended(q), NEW c \in Ended(q), a # c  PROVE Sooner(q, a, c) \/ Sooner(q, c, a)
    <2>1. PICK i \in Closes(q) : q[i].alarm = a
      BY DEF Ended
    <2>2. PICK j \in Closes(q) : q[j].alarm = c
      BY DEF Ended
    <2>. QED  BY <1>2, <1>3, <2>1, <2>2 DEF Sooner
  <1>4. ASSUME NEW a, NEW c, Sooner(q, a, c)
        PROVE  ~Sooner(q, c, a) /\ a \in Ended(q) /\ c \in Ended(q) /\ a # c
    <2>1. PICK i \in Closes(q), j \in Closes(q) : i < j /\ q[i].alarm = a /\ q[j].alarm = c
      BY <1>4 DEF Sooner
    <2>2. a # c
      BY <1>2, <2>1
    <2>3. ~Sooner(q, c, a)
      <3>. SUFFICES ASSUME NEW v \in Closes(q), NEW u \in Closes(q), v < u, q[v].alarm = c, q[u].alarm = a
                    PROVE  FALSE
        BY DEF Sooner
      <3>1. v = j /\ u = i
        BY <2>1
      <3>. QED  BY <1>2, <2>1, <3>1
    <2>. QED  BY <2>1, <2>2, <2>3 DEF Ended
  <1>. QED  BY <1>3, <1>4

\* What is known of the history when an alarm that stood is closed and heads it.
ClosedNow(h, k, a) ==
  /\ a \in In(k) /\ In(k) \subseteq In(h) \cup {a}
  /\ \A c \in In(k) : c # a => Ahead(k, a, c)
  /\ \A c, d : c # a /\ d # a => (Ahead(k, c, d) <=> Ahead(h, c, d) /\ d \in In(k))
  /\ \A c \in In(h) : c \notin In(k) =>
       /\ Len(k) = Depth
       /\ \A d \in In(h) : d # c => d \in In(k) /\ Ahead(h, d, c)
  /\ Len(h) = Depth => Len(k) = Depth
  /\ \A c, d : Ahead(h, c, d) => ~Ahead(h, d, c)
  /\ \A c, d : Ahead(k, c, d) => ~Ahead(k, d, c)

\* Closing one more: the queue's ends head the history still, the newest first.
LEMMA ClosesOne ==
  ASSUME NEW q \in Seq(Events), NEW e, NEW p, NEW z, Behind(q, e, p, z), NEW s, NEW t, Closed(q, s),
         e.kind = "resolved", NEW a, a = e.alarm, a \in In(s.active), In(t.active) = In(s.active) \ {a},
         ClosedNow(s.history, t.history, a)
  PROVE  Closed(p, t) /\ Ended(p) = Ended(q) \cup {a}
  <1>. DEFINE h == s.history
              k == t.history
  <1>0. ClosedNow(h, k, a)
    OBVIOUS
  <1>. HIDE DEF h, k
  <1>1. Ended(p) = Ended(q) \cup {a}
    BY Longer
  <1>2. a \notin Ended(q)
    BY DEF Closed
  <1>3. \A i : i \in Closes(p) <=> i \in Closes(q) \/ i = z
    BY Longer
  <1>4. /\ p[z] = e /\ \A i \in Closes(q) : p[i] = q[i] /\ q[i].alarm # a
    BY <1>2 DEF Behind, Closes, Ended
  <1>5. /\ \A c, d : Sooner(q, c, d) => Sooner(p, c, d)
        /\ \A c, d : Sooner(p, c, d) => Sooner(q, c, d) \/ (d = a /\ c \in Ended(q))
        /\ \A c \in Ended(q) : Sooner(p, c, a)
    BY SoonerStays
  <1>6. /\ \A c, d \in Ended(q) : c # d => Sooner(q, c, d) \/ Sooner(q, d, c)
        /\ \A c, d : Sooner(q, c, d) => c \in Ended(q) /\ d \in Ended(q)
    <2>1. \A i, j \in Closes(q) : q[i].alarm = q[j].alarm => i = j
      BY DEF Closed
    <2>. QED  BY <2>1, OneIsSooner
  <1>7. \A i, j \in Closes(p) : p[i].alarm = p[j].alarm => i = j
    <2>1. \A i, j \in Closes(q) : q[i].alarm = q[j].alarm => i = j
      BY DEF Closed
    <2>. QED  BY <1>3, <1>4, <2>1
  <1>8. Ended(p) \cap In(t.active) = {}
    BY <1>1 DEF Closed
  <1>9. ASSUME NEW c \in Ended(p) \cap In(k), NEW d \in In(k), d \in Ended(p) => Sooner(p, d, c), c # d
        PROVE  Ahead(k, c, d)
    <2>1. CASE c = a
      BY <1>0, <1>9, <2>1 DEF ClosedNow
    <2>2. CASE d = a
      BY <1>1, <1>2, <1>5, <1>6, <1>9, <2>2
    <2>3. CASE c # a /\ d # a
      <3>1. c \in Ended(q) \cap In(h) /\ d \in In(h)
        BY <1>0, <1>1, <2>3 DEF ClosedNow
      <3>2. d \in Ended(q) => Sooner(q, d, c)
        BY <1>1, <1>5, <1>9, <2>3
      <3>3. Ahead(h, c, d)
        BY <1>9, <3>1, <3>2 DEF Closed, h
      <3>. QED  BY <1>0, <2>3, <3>3 DEF ClosedNow
    <2>. QED  BY <2>1, <2>2, <2>3
  <1>10. ASSUME NEW c \in Ended(p) \ In(k)  PROVE Len(k) = Depth /\ \A d \in In(k) : Sooner(p, c, d)
    <2>1. c # a /\ c \in Ended(q)
      BY <1>0, <1>1 DEF ClosedNow
    <2>2. CASE c \notin In(h)
      <3>1. Len(h) = Depth /\ \A d \in In(h) : Sooner(q, c, d)
        BY <2>1, <2>2 DEF Closed, h
      <3>2. \A d \in In(k) : d = a \/ d \in In(h)
        BY <1>0 DEF ClosedNow
      <3>. QED  BY <1>0, <1>5, <2>1, <3>1, <3>2 DEF ClosedNow
    <2>3. CASE c \in In(h)
      <3>1. Len(k) = Depth /\ \A d \in In(h) : d # c => d \in In(k) /\ Ahead(h, d, c)
        BY <1>0, <2>3 DEF ClosedNow
      <3>2. ASSUME NEW d \in In(k), d # a  PROVE Sooner(q, c, d)
        <4>1. d \in In(h) /\ d # c
          BY <1>0, <3>2 DEF ClosedNow
        <4>2. ~Ahead(h, c, d)
          BY <1>0, <3>1, <4>1 DEF ClosedNow
        <4>3. d \in Ended(q) /\ ~Sooner(q, d, c)
          BY <2>1, <2>3, <4>1, <4>2 DEF Closed, h
        <4>. QED  BY <1>6, <2>1, <4>1, <4>3
      <3>. QED  BY <1>5, <2>1, <3>1, <3>2
    <2>. QED  BY <2>2, <2>3
  <1>. QED  BY <1>1, <1>7, <1>8, <1>9, <1>10 DEF Closed, k

\* Closing one more: what is left of the history is in the book, in its order.
LEMMA RecallStays ==
  ASSUME NEW q, NEW p, NEW s, NEW t, NEW a, Ended(p) = Ended(q) \cup {a},
         NEW b, Recall(b, q, s), ClosedNow(s.history, t.history, a),
         \A c, d : Ahead(b.history, c, d) => ~Ahead(b.history, d, c)
  PROVE  Recall(b, p, t)
  <1>. DEFINE h == s.history
              k == t.history
              g == b.history
  <1>1. ClosedNow(h, k, a)
    OBVIOUS
  <1>2. /\ In(h) \ Ended(q) \subseteq In(g)
        /\ \A c, d \in In(h) \ Ended(q) : Ahead(h, c, d) => Ahead(g, c, d)
        /\ \A c \in In(h) \ Ended(q), d \in In(g) \ Ended(q) : Ahead(g, d, c) => d \in In(h)
        /\ \A d \in In(g) \ Ended(q) : d \notin In(h) => Len(h) = Depth
        /\ \A c, d : Ahead(g, c, d) => ~Ahead(g, d, c)
    BY DEF Recall
  <1>. HIDE DEF h, k, g
  <1>3. \A c \in In(k) \ Ended(p) : c # a /\ c \in In(h) \ Ended(q)
    BY <1>1 DEF ClosedNow
  <1>4. In(k) \ Ended(p) \subseteq In(g)
    BY <1>2, <1>3
  <1>5. ASSUME NEW c \in In(k) \ Ended(p), NEW d \in In(k) \ Ended(p), Ahead(k, c, d)  PROVE Ahead(g, c, d)
    <2>1. Ahead(h, c, d)
      BY <1>1, <1>3, <1>5 DEF ClosedNow
    <2>. QED  BY <1>2, <1>3, <2>1
  <1>6. ASSUME NEW c \in In(k) \ Ended(p), NEW d \in In(g) \ Ended(p), Ahead(g, d, c)
        PROVE  d \in In(k)
    <2>1. d \in In(h)
      BY <1>2, <1>3, <1>6
    <2>. SUFFICES ASSUME d \notin In(k)  PROVE FALSE
      OBVIOUS
    <2>2. c # d
      OBVIOUS
    <2>3. Ahead(h, c, d)
      BY <1>1, <1>3, <2>1, <2>2 DEF ClosedNow
    <2>4. Ahead(g, c, d)
      BY <1>2, <1>3, <2>1, <2>3
    <2>. QED  BY <1>2, <1>6, <2>4
  <1>7. ASSUME NEW d \in In(g) \ Ended(p), d \notin In(k)  PROVE Len(k) = Depth
    BY <1>1, <1>2, <1>7 DEF ClosedNow
  <1>. QED  BY <1>4, <1>5, <1>6, <1>7 DEF Recall, k, g

\* Closing an alarm that stood puts it at the head of the history.
LEMMA HeadsNow ==
  ASSUME A!AlertsAssumption, NEW h \in Seq(Alarms), Once(h), Len(h) <= Depth, NEW a \in Alarms
  PROVE  ClosedNow(h, A!Headed(h, a), a)
  <1>. DEFINE k == A!Headed(h, a)
  <1>1. /\ k \in Seq(Alarms) /\ Once(k) /\ Len(k) <= Depth /\ Len(h) <= Len(k)
        /\ a \in In(k) /\ In(k) \subseteq In(h) \cup {a}
        /\ \A c \in In(k) : c # a => Ahead(k, a, c)
        /\ \A c, d : c # a /\ d # a => (Ahead(k, c, d) <=> Ahead(h, c, d) /\ d \in In(k))
        /\ \A c \in In(h) : c \notin In(k) =>
             /\ a \notin In(h) /\ Len(h) = Depth /\ Len(k) = Depth
             /\ \A d \in In(h) : d # c => d \in In(k) /\ Ahead(h, d, c)
    BY Heads
  <1>. HIDE DEF k
  <1>2. \A c, d : Ahead(h, c, d) => ~Ahead(h, d, c)
    BY OneIsAhead
  <1>3. \A c, d : Ahead(k, c, d) => ~Ahead(k, d, c)
    BY <1>1, OneIsAhead
  <1>4. Len(h) = Depth => Len(k) = Depth
    <2>1. Len(h) \in Nat /\ Len(k) \in Nat /\ Depth \in Nat
      BY <1>1 DEF A!AlertsAssumption
    <2>. QED  BY <1>1, <2>1
  <1>. QED  BY <1>1, <1>2, <1>3, <1>4 DEF ClosedNow, k

\* What the server does, told behind what was told, is true; and a book that was right but for
\* what was told is right but for that and this.
LEMMA Says ==
  ASSUME A!AlertsAssumption, NEW q \in Seq(Events), NEW s \in Books, NEW e \in Events, True(q, s),
         e.kind = "raised" => e.alarm \notin Ended(q),
         e.kind = "resolved" => e.alarm \in In(s.active),
         e.kind = "dropped" => e.total = s.dropped + 1
  PROVE  LET p == Append(q, e)  t == A!Apply(s, e)
         IN  /\ True(p, t)
             /\ Ended(p) = Ended(q) \cup (IF e.kind = "resolved" THEN {e.alarm} ELSE {})
             /\ \A b \in Books : Fair(b, q, s) => Fair(b, p, t)
  <1>. DEFINE p == Append(q, e)
              t == A!Apply(s, e)
              z == Len(q) + 1
  <1>1. p \in Seq(Events) /\ Behind(q, e, p, z)
    BY OneBehind
  <1>2. /\ t \in Books
        /\ e.kind = "raised" => /\ e.alarm \in Alarms /\ In(t.active) = In(s.active) \cup {e.alarm}
                                /\ t.history = s.history /\ t.muted = s.muted /\ t.dropped = s.dropped
        /\ e.kind = "resolved" => /\ e.alarm \in Alarms /\ In(t.active) = In(s.active) \ {e.alarm}
                                  /\ t.history = A!Headed(s.history, e.alarm)
                                  /\ t.muted = s.muted /\ t.dropped = s.dropped
        /\ e.kind = "mute" => /\ e.alarm \in Alarms
                              /\ t.active = s.active /\ t.history = s.history /\ t.dropped = s.dropped
                              /\ t.muted = IF e.on THEN s.muted \cup {e.alarm} ELSE s.muted \ {e.alarm}
        /\ e.kind = "dropped" => /\ e.total \in Nat
                                 /\ t.active = s.active /\ t.history = s.history /\ t.muted = s.muted
                                 /\ t.dropped = IF e.total > s.dropped THEN e.total ELSE s.dropped
        /\ e.kind \in {"raised", "resolved", "mute", "dropped"}
        /\ s.dropped \in Nat
    BY Applied
  <1>. HIDE DEF p, t, z
  <1>3. Told(q, s) /\ Closed(q, s)
    BY DEF True
  <1>4. /\ s.dropped <= t.dropped
        /\ t.dropped = s.dropped \/ (e.kind = "dropped" /\ e.total = t.dropped)
        /\ e.kind = "dropped" => e.total <= t.dropped
        /\ t.dropped \in Nat
    BY <1>2
  <1>5. /\ \A a \in Alarms : (e.kind \in {"raised", "resolved"} /\ e.alarm = a)
                             \/ (a \in In(t.active) <=> a \in In(s.active))
        /\ e.kind \in {"raised", "resolved"} => (e.kind = "raised" <=> e.alarm \in In(t.active))
    BY <1>2
  <1>6. /\ \A a \in Alarms : (e.kind = "mute" /\ e.alarm = a) \/ (a \in t.muted <=> a \in s.muted)
        /\ e.kind = "mute" => (e.on <=> e.alarm \in t.muted)
    <2>1. CASE e.kind = "mute"
      <3>1. \A a : a \in t.muted <=> IF a = e.alarm THEN e.on ELSE a \in s.muted
        BY <1>2, <2>1, Zenon
      <3>. QED  BY <2>1, <3>1, Zenon
    <2>2. CASE e.kind # "mute"
      BY <1>2, <2>2
    <2>. QED  BY <2>1, <2>2
  <1>7. \A i \in Counts(q) : q[i].total <= t.dropped /\ q[i].total \in Nat
    <2>1. ASSUME NEW i \in Counts(q)  PROVE q[i].total <= s.dropped /\ q[i].total \in Nat
      <3>1. i \in DOMAIN q /\ q[i].kind = "dropped"
        BY DEF Counts
      <3>2. q[i] \in Events
        BY <3>1
      <3>3. q[i].total \in Nat
        BY <3>1, <3>2 DEF Events, A!AlertsAssumption
      <3>. QED  BY <1>3, <3>3 DEF Told
    <2>. QED  BY <1>2, <1>4, <2>1
  <1>8. Told(p, t)
    BY <1>1, <1>3, <1>4, <1>5, <1>6, <1>7, ToldStays
  <1>9. Ended(p) = Ended(q) \cup (IF e.kind = "resolved" THEN {e.alarm} ELSE {})
    BY <1>1, Longer
  <1>10. ASSUME NEW b \in Books, Agree(b, q, s)  PROVE Agree(b, p, t)
    <2>1. b.dropped <= t.dropped
      <3>1. b.dropped <= s.dropped /\ b.dropped \in Nat
        BY <1>10 DEF Agree, Books, A!AlertsAssumption
      <3>. QED  BY <1>2, <1>4, <3>1
    <2>. QED  BY <1>1, <1>4, <1>5, <1>6, <1>10, <2>1, AgreeStays
  <1>11. CASE e.kind = "resolved"
    <2>. DEFINE a == e.alarm
    <2>0. s.history \in Seq(Alarms) /\ Once(s.history) /\ Len(s.history) <= Depth
      BY DEF Books
    <2>1. a \in In(s.active) /\ In(t.active) = In(s.active) \ {a} /\ ClosedNow(s.history, t.history, a)
      BY <1>2, <1>11, <2>0, HeadsNow
    <2>2. Closed(p, t) /\ Ended(p) = Ended(q) \cup {a}
      BY <1>1, <1>3, <1>11, <2>1, ClosesOne
    <2>3. ASSUME NEW b \in Books, Recall(b, q, s)  PROVE Recall(b, p, t)
      <3>1. \A c, d : Ahead(b.history, c, d) => ~Ahead(b.history, d, c)
        <4>1. b.history \in Seq(Alarms) /\ Once(b.history)
          BY DEF Books
        <4>. QED  BY <4>1, OneIsAhead
      <3>. QED  BY <2>1, <2>2, <2>3, <3>1, RecallStays
    <2>. QED  BY <1>8, <1>9, <1>10, <2>2, <2>3 DEF True, Fair, p, t
  <1>12. CASE e.kind # "resolved"
    <2>1. t.history = s.history
      BY <1>2, <1>12
    <2>2. Ended(q) \cap In(t.active) = {}
      <3>1. Ended(q) \cap In(s.active) = {}
        BY <1>3 DEF Closed
      <3>2. In(t.active) \subseteq In(s.active) \cup (IF e.kind = "raised" THEN {e.alarm} ELSE {})
        BY <1>2, <1>12
      <3>. QED  BY <3>1, <3>2
    <2>3. Closed(p, t) /\ Ended(p) = Ended(q)
      BY <1>1, <1>3, <1>12, <2>1, <2>2, ClosedStays
    <2>4. ASSUME NEW b \in Books, Recall(b, q, s)  PROVE Recall(b, p, t)
      BY <2>1, <2>3, <2>4 DEF Recall
    <2>. QED  BY <1>8, <1>9, <1>10, <2>3, <2>4 DEF True, Fair, p, t
  <1>. QED  BY <1>11, <1>12

\* An alarm that stands is told again: nothing is untrue, and no book less right.
LEMMA Repeats ==
  ASSUME A!AlertsAssumption, NEW q \in Seq(Events), NEW s \in Books, NEW e \in Events, True(q, s),
         e.kind = "raised", e.alarm \in In(s.active)
  PROVE  LET p == Append(q, e)
         IN  True(p, s) /\ Ended(p) = Ended(q) /\ \A b \in Books : Fair(b, q, s) => Fair(b, p, s)
  <1>1. A!ToSet(s.active) = In(s.active)
    BY DEF A!ToSet, In
  <1>2. A!Apply(s, e) = s
    <2>1. s = [active |-> s.active, history |-> s.history, muted |-> s.muted, dropped |-> s.dropped]
      BY DEF Books
    <2>2. A!merged(s.active, e.alarm) = s.active
      BY <1>1 DEF A!merged
    <2>. QED  BY <2>1, <2>2 DEF A!Apply, A!Raised
  <1>3. e.alarm \notin Ended(q)
    BY DEF True, Closed
  <1>. DEFINE p == Append(q, e)
              t == A!Apply(s, e)
  <1>4. /\ True(p, t) /\ Ended(p) = Ended(q) \cup (IF e.kind = "resolved" THEN {e.alarm} ELSE {})
        /\ \A b \in Books : Fair(b, q, s) => Fair(b, p, t)
    <2>1. e.kind # "resolved" /\ e.kind # "dropped"
      OBVIOUS
    <2>. QED  BY <1>3, <2>1, Says
  <1>5. t = s
    BY <1>2
  <1>. HIDE DEF p, t
  <1>6. Ended(p) = Ended(q)
    BY <1>4
  <1>. QED  BY <1>4, <1>5, <1>6 DEF p

-----------------------------------------------------------------------------
(* One thing less is to be heard.                                            *)

\* How the ends of a queue without its first event stand to the queue's.
LEMMA EndsOfTheRest ==
  ASSUME NEW q \in Seq(Events), q # <<>>, \A i, j \in Closes(q) : q[i].alarm = q[j].alarm => i = j
  PROVE  LET r == Tail(q)  e == Head(q)
         IN  /\ \A i, j \in Closes(r) : r[i].alarm = r[j].alarm => i = j
             /\ e.kind = "resolved" => /\ e.alarm \in Ended(q) /\ Ended(r) = Ended(q) \ {e.alarm}
                                       /\ \A c \in Ended(r) : Sooner(q, e.alarm, c)
             /\ e.kind # "resolved" => Ended(r) = Ended(q)
             /\ \A a, c : Sooner(r, a, c) => Sooner(q, a, c)
             /\ \A a, c : Sooner(q, a, c) /\ a \in Ended(r) => Sooner(r, a, c)
             /\ \A a, c : Sooner(q, a, c) => a \in Ended(q) /\ c \in Ended(q)
             /\ \A a, c \in Ended(r) : a # c => Sooner(r, a, c) \/ Sooner(r, c, a)
  <1>. DEFINE r == Tail(q)
              e == Head(q)
  <1>1. /\ r \in Seq(Events) /\ e \in Events /\ e = q[1]
        /\ \A i \in Closes(r) : i + 1 \in Closes(q)
        /\ \A i \in Closes(q) : i = 1 \/ \E j \in Closes(r) : i = j + 1
        /\ \A i \in DOMAIN r : i \in Nat /\ i # 0 /\ r[i] = q[i + 1]
        /\ \A i \in DOMAIN q : i \in Nat /\ i # 0
        /\ 1 \in DOMAIN q
    BY Shorter
  <1>. HIDE DEF r, e
  <1>2. /\ \A i \in Closes(r) : i \in Nat /\ i # 0 /\ r[i] = q[i + 1] /\ i + 1 \in Closes(q) /\ 1 < i + 1
                              /\ i + 1 # 1
        /\ \A i \in Closes(q) : i \in Nat /\ ~(i < 1)
        /\ 1 \in Closes(q) <=> e.kind = "resolved"
    BY <1>1 DEF Closes
  <1>3. \A i, j \in Closes(r) : (i + 1 = j + 1 => i = j) /\ (i + 1 < j + 1 <=> i < j)
    BY <1>2
  <1>4. \A i, j \in Closes(r) : r[i].alarm = r[j].alarm => i = j
    BY <1>2, <1>3
  <1>5. ASSUME NEW a, NEW c, Sooner(r, a, c)  PROVE Sooner(q, a, c)
    <2>1. PICK i \in Closes(r), j \in Closes(r) : i < j /\ r[i].alarm = a /\ r[j].alarm = c
      BY <1>5 DEF Sooner
    <2>. QED  BY <1>2, <1>3, <2>1 DEF Sooner
  <1>6. Ended(r) \subseteq Ended(q)
    BY <1>2 DEF Ended
  <1>7. ASSUME NEW a \in Ended(q)  PROVE a \in Ended(r) \/ (e.kind = "resolved" /\ a = e.alarm)
    <2>1. PICK i \in Closes(q) : q[i].alarm = a
      BY DEF Ended
    <2>2. CASE i = 1
      BY <1>1, <1>2, <2>1, <2>2
    <2>3. CASE i # 1
      <3>1. PICK j \in Closes(r) : i = j + 1
        BY <1>1, <2>3
      <3>. QED  BY <1>2, <2>1, <3>1 DEF Ended
    <2>. QED  BY <2>2, <2>3
  <1>8. ASSUME e.kind = "resolved"
        PROVE  /\ e.alarm \in Ended(q) /\ e.alarm \notin Ended(r)
               /\ \A c \in Ended(r) : Sooner(q, e.alarm, c)
    <2>1. 1 \in Closes(q) /\ q[1].alarm = e.alarm
      BY <1>1, <1>2, <1>8
    <2>2. \A j \in Closes(r) : r[j].alarm # e.alarm
      BY <1>2, <2>1
    <2>3. e.alarm \in Ended(q) /\ e.alarm \notin Ended(r)
      BY <2>1, <2>2 DEF Ended
    <2>4. ASSUME NEW c \in Ended(r)  PROVE Sooner(q, e.alarm, c)
      <3>1. PICK j \in Closes(r) : r[j].alarm = c
        BY DEF Ended
      <3>. QED  BY <1>2, <2>1, <3>1 DEF Sooner
    <2>. QED  BY <2>3, <2>4
  <1>9. ASSUME NEW a, NEW c, Sooner(q, a, c), a \in Ended(r)  PROVE Sooner(r, a, c)
    <2>1. PICK i \in Closes(q), j \in Closes(q) : i < j /\ q[i].alarm = a /\ q[j].alarm = c
      BY <1>9 DEF Sooner
    <2>2. i # 1
      BY <1>1, <1>2, <1>8, <1>9, <2>1
    <2>3. j # 1
      BY <1>2, <2>1
    <2>4. PICK n \in Closes(r) : i = n + 1
      BY <1>1, <2>1, <2>2
    <2>5. PICK m \in Closes(r) : j = m + 1
      BY <1>1, <2>1, <2>3
    <2>. QED  BY <1>2, <1>3, <2>1, <2>4, <2>5 DEF Sooner
  <1>10. \A a, c : Sooner(q, a, c) => a \in Ended(q) /\ c \in Ended(q)
    BY OneIsSooner
  <1>11. \A a, c \in Ended(r) : a # c => Sooner(r, a, c) \/ Sooner(r, c, a)
    BY <1>1, <1>4, OneIsSooner
  <1>. QED  BY <1>4, <1>5, <1>6, <1>7, <1>8, <1>9, <1>10, <1>11 DEF r, e

\* What was told stays true of what is left of it to hear.
LEMMA RestIsTrue ==
  ASSUME NEW q \in Seq(Events), q # <<>>, NEW s, True(q, s)
  PROVE  True(Tail(q), s) /\ Ended(Tail(q)) \subseteq Ended(q)
  <1>. DEFINE r == Tail(q)
              e == Head(q)
  <1>1. /\ \A a : \A i \in Turns(r, a) : i + 1 \in Turns(q, a)
        /\ \A a : \A i \in Turns(q, a) : i = 1 \/ \E j \in Turns(r, a) : i = j + 1
        /\ \A a : \A i \in Mutes(r, a) : i + 1 \in Mutes(q, a)
        /\ \A a : \A i \in Mutes(q, a) : i = 1 \/ \E j \in Mutes(r, a) : i = j + 1
        /\ \A i \in Counts(r) : i + 1 \in Counts(q)
        /\ \A i \in DOMAIN r : i \in Nat /\ i # 0 /\ r[i] = q[i + 1]
    BY Shorter
  <1>2. Told(q, s) /\ Closed(q, s)
    BY DEF True
  <1>3. /\ \A i, j \in Closes(r) : r[i].alarm = r[j].alarm => i = j
        /\ e.kind = "resolved" => /\ e.alarm \in Ended(q) /\ Ended(r) = Ended(q) \ {e.alarm}
                                  /\ \A c \in Ended(r) : Sooner(q, e.alarm, c)
        /\ e.kind # "resolved" => Ended(r) = Ended(q)
        /\ \A a, c : Sooner(r, a, c) => Sooner(q, a, c)
        /\ \A a, c : Sooner(q, a, c) /\ a \in Ended(r) => Sooner(r, a, c)
    <2>1. \A i, j \in Closes(q) : q[i].alarm = q[j].alarm => i = j
      BY <1>2 DEF Closed
    <2>. QED  BY <2>1, EndsOfTheRest
  <1>. HIDE DEF r, e
  <1>4. /\ \A a : \A i \in Turns(r, a) : i \in DOMAIN r
        /\ \A a : \A i \in Mutes(r, a) : i \in DOMAIN r
        /\ \A i \in Counts(r) : i \in DOMAIN r
    BY DEF Turns, Mutes, Counts
  <1>5. ASSUME NEW a \in Alarms, NEW i \in Turns(r, a), \A j \in Turns(r, a) : j <= i
        PROVE  r[i].kind = "raised" <=> a \in In(s.active)
    <2>1. \A j \in Turns(q, a) : j <= i + 1
      <3>1. i \in Nat /\ \A j \in Turns(r, a) : j \in Nat
        BY <1>1, <1>4
      <3>2. ASSUME NEW j \in Turns(q, a)  PROVE j <= i + 1
        <4>1. CASE j = 1
          BY <3>1, <4>1
        <4>2. CASE j # 1
          <5>1. PICK n \in Turns(r, a) : j = n + 1
            BY <1>1, <4>2
          <5>. QED  BY <1>5, <3>1, <5>1
        <4>. QED  BY <4>1, <4>2
      <3>. QED  BY <3>2
    <2>2. i + 1 \in Turns(q, a) /\ r[i] = q[i + 1]
      BY <1>1, <1>4
    <2>. QED  BY <1>2, <2>1, <2>2 DEF Told
  <1>6. ASSUME NEW a \in Alarms, NEW i \in Mutes(r, a), \A j \in Mutes(r, a) : j <= i
        PROVE  r[i].on <=> a \in s.muted
    <2>1. \A j \in Mutes(q, a) : j <= i + 1
      <3>1. i \in Nat /\ \A j \in Mutes(r, a) : j \in Nat
        BY <1>1, <1>4
      <3>2. ASSUME NEW j \in Mutes(q, a)  PROVE j <= i + 1
        <4>1. CASE j = 1
          BY <3>1, <4>1
        <4>2. CASE j # 1
          <5>1. PICK n \in Mutes(r, a) : j = n + 1
            BY <1>1, <4>2
          <5>. QED  BY <1>6, <3>1, <5>1
        <4>. QED  BY <4>1, <4>2
      <3>. QED  BY <3>2
    <2>2. i + 1 \in Mutes(q, a) /\ r[i] = q[i + 1]
      BY <1>1, <1>4
    <2>. QED  BY <1>2, <2>1, <2>2, Zenon DEF Told
  <1>7. \A i \in Counts(r) : r[i].total <= s.dropped
    BY <1>1, <1>2, <1>4 DEF Told
  <1>8. Told(r, s)
    BY <1>5, <1>6, <1>7, Zenon DEF Told
  <1>9. Ended(r) \subseteq Ended(q) /\ \A a \in Ended(q) : a \in Ended(r) \/ (e.kind = "resolved" /\ a = e.alarm)
    BY <1>3
  <1>10. Ended(r) \cap In(s.active) = {}
    BY <1>2, <1>9 DEF Closed
  <1>11. ASSUME NEW a \in Ended(r) \cap In(s.history), NEW c \in In(s.history),
                c \in Ended(r) => Sooner(r, c, a), a # c
         PROVE  Ahead(s.history, a, c)
    <2>1. c \in Ended(q) => Sooner(q, c, a)
      BY <1>3, <1>9, <1>11
    <2>. QED  BY <1>2, <1>9, <1>11, <2>1 DEF Closed
  <1>12. ASSUME NEW a \in Ended(r) \ In(s.history)
         PROVE  Len(s.history) = Depth /\ \A c \in In(s.history) : Sooner(r, a, c)
    BY <1>2, <1>3, <1>9, <1>12 DEF Closed
  <1>13. Closed(r, s)
    BY <1>3, <1>10, <1>11, <1>12 DEF Closed
  <1>. QED  BY <1>8, <1>9, <1>13 DEF True, r

\* A book that was right but for a queue has heard the first of it: what its turns and its
\* counts are right but for is the rest.
LEMMA AgreeWithRest ==
  ASSUME A!AlertsAssumption, NEW q \in Seq(Events), q # <<>>, NEW s \in Books, Told(q, s),
         NEW b \in Books, Agree(b, q, s)
  PROVE  Agree(A!Apply(b, Head(q)), Tail(q), s)
  <1>. DEFINE r == Tail(q)
              e == Head(q)
              g == A!Apply(b, e)
  <1>1. /\ r \in Seq(Events) /\ e \in Events /\ e = q[1]
        /\ \A a : \A i \in Turns(q, a) : i = 1 \/ \E j \in Turns(r, a) : i = j + 1
        /\ \A a : \A i \in Mutes(q, a) : i = 1 \/ \E j \in Mutes(r, a) : i = j + 1
        /\ \A i \in Counts(q) : i = 1 \/ \E j \in Counts(r) : i = j + 1
        /\ \A i \in DOMAIN r : i \in Nat /\ i # 0 /\ r[i] = q[i + 1]
        /\ 1 \in DOMAIN q
    BY Shorter
  <1>2. /\ g \in Books
        /\ e.kind = "raised" => /\ e.alarm \in Alarms /\ In(g.active) = In(b.active) \cup {e.alarm}
                                /\ g.history = b.history /\ g.muted = b.muted /\ g.dropped = b.dropped
        /\ e.kind = "resolved" => /\ e.alarm \in Alarms /\ In(g.active) = In(b.active) \ {e.alarm}
                                  /\ g.history = A!Headed(b.history, e.alarm)
                                  /\ g.muted = b.muted /\ g.dropped = b.dropped
        /\ e.kind = "mute" => /\ e.alarm \in Alarms
                              /\ g.active = b.active /\ g.history = b.history /\ g.dropped = b.dropped
                              /\ g.muted = IF e.on THEN b.muted \cup {e.alarm} ELSE b.muted \ {e.alarm}
        /\ e.kind = "dropped" => /\ e.total \in Nat
                                 /\ g.active = b.active /\ g.history = b.history /\ g.muted = b.muted
                                 /\ g.dropped = IF e.total > b.dropped THEN e.total ELSE b.dropped
        /\ e.kind \in {"raised", "resolved", "mute", "dropped"}
        /\ b.dropped \in Nat
    BY <1>1, Applied
  <1>. HIDE DEF r, e, g
  <1>3. /\ \A a : 1 \in Turns(q, a) <=> e.kind \in {"raised", "resolved"} /\ e.alarm = a
        /\ \A a : 1 \in Mutes(q, a) <=> e.kind = "mute" /\ e.alarm = a
        /\ 1 \in Counts(q) <=> e.kind = "dropped"
    BY <1>1 DEF Turns, Mutes, Counts
  <1>4. ASSUME NEW a \in Alarms, Turns(r, a) = {}  PROVE a \in In(g.active) <=> a \in In(s.active)
    <2>1. \A i \in Turns(q, a) : i = 1
      BY <1>1, <1>4
    <2>2. CASE e.kind \in {"raised", "resolved"} /\ e.alarm = a
      <3>1. 1 \in Turns(q, a) /\ \A j \in Turns(q, a) : j <= 1
        BY <1>3, <2>1, <2>2
      <3>2. e.kind = "raised" <=> a \in In(s.active)
        BY <1>1, <3>1 DEF Told
      <3>. QED  BY <1>2, <2>2, <3>2
    <2>3. CASE ~(e.kind \in {"raised", "resolved"} /\ e.alarm = a)
      <3>1. Turns(q, a) = {}
        BY <1>3, <2>1, <2>3
      <3>2. a \in In(b.active) <=> a \in In(s.active)
        BY <3>1 DEF Agree
      <3>. QED  BY <1>2, <2>3, <3>2
    <2>. QED  BY <2>2, <2>3
  <1>5. ASSUME NEW a \in Alarms, Mutes(r, a) = {}  PROVE a \in g.muted <=> a \in s.muted
    <2>1. \A i \in Mutes(q, a) : i = 1
      BY <1>1, <1>5
    <2>2. CASE e.kind = "mute" /\ e.alarm = a
      <3>1. 1 \in Mutes(q, a) /\ \A j \in Mutes(q, a) : j <= 1
        BY <1>3, <2>1, <2>2
      <3>2. e.on <=> a \in s.muted
        BY <1>1, <3>1, Zenon DEF Told
      <3>3. a \in g.muted <=> e.on
        BY <1>2, <2>2, Zenon
      <3>. QED  BY <3>2, <3>3
    <2>3. CASE ~(e.kind = "mute" /\ e.alarm = a)
      <3>1. Mutes(q, a) = {}
        BY <1>3, <2>1, <2>3
      <3>2. a \in b.muted <=> a \in s.muted
        BY <3>1 DEF Agree
      <3>3. a \in g.muted <=> a \in b.muted
        <4>1. CASE e.kind = "mute"
          BY <1>2, <2>3, <4>1, Zenon
        <4>2. CASE e.kind # "mute"
          BY <1>2, <4>2
        <4>. QED  BY <4>1, <4>2
      <3>. QED  BY <3>2, <3>3
    <2>. QED  BY <2>2, <2>3
  <1>6. s.dropped \in Nat /\ b.dropped \in Nat
    BY DEF Books, A!AlertsAssumption
  <1>7. e.kind = "dropped" => e.total <= s.dropped
    BY <1>1, <1>3 DEF Told
  <1>8. g.dropped <= s.dropped
    BY <1>2, <1>6, <1>7 DEF Agree
  <1>9. g.dropped = s.dropped \/ \E i \in Counts(r) : r[i].total = s.dropped
    <2>1. CASE b.dropped = s.dropped
      BY <1>2, <1>6, <1>7, <2>1
    <2>2. CASE b.dropped # s.dropped
      <3>1. PICK i \in Counts(q) : q[i].total = s.dropped
        BY <2>2 DEF Agree
      <3>2. CASE i = 1
        <4>1. e.kind = "dropped" /\ e.total = s.dropped
          BY <1>1, <1>3, <3>1, <3>2
        <4>2. b.dropped <= s.dropped
          BY DEF Agree
        <4>. QED  BY <1>2, <1>6, <4>1, <4>2
      <3>3. CASE i # 1
        <4>1. PICK j \in Counts(r) : i = j + 1
          BY <1>1, <3>3
        <4>2. j \in DOMAIN r
          BY DEF Counts
        <4>. QED  BY <1>1, <3>1, <4>1, <4>2
      <3>. QED  BY <3>2, <3>3
    <2>. QED  BY <2>1, <2>2
  <1>. QED  BY <1>4, <1>5, <1>8, <1>9 DEF Agree, r, e, g

\* No more different things than there is room for.
LEMMA NoRoom ==
  ASSUME A!AlertsAssumption, NEW h \in Seq(Alarms), Once(h), Len(h) = Depth,
         NEW k \in Seq(Alarms), Once(k), Len(k) <= Depth, In(h) \subseteq In(k)
  PROVE  In(h) = In(k)
  <1>1. IsFiniteSet(In(h)) /\ Cardinality(In(h)) = Len(h) /\ IsFiniteSet(In(k)) /\ Cardinality(In(k)) = Len(k)
    BY OnceCounts
  <1>2. Len(h) \in Nat /\ Len(k) \in Nat
    OBVIOUS
  <1>3. Cardinality(In(h)) <= Cardinality(In(k)) /\ (Cardinality(In(h)) = Cardinality(In(k)) => In(h) = In(k))
    BY <1>1, FS_Subset
  <1>4. Len(h) <= Len(k) /\ Len(k) <= Len(h)
    BY <1>1, <1>3
  <1>5. Len(h) = Len(k)
    <2>1. \A n, m \in Nat : n <= m /\ m <= n => n = m
      OBVIOUS
    <2>. QED  BY <1>2, <1>4, <2>1, Zenon
  <1>. QED  BY <1>1, <1>3, <1>5

\* ... and so is its history.
LEMMA RecallOfRest ==
  ASSUME A!AlertsAssumption, NEW q \in Seq(Events), q # <<>>, NEW s \in Books, Closed(q, s),
         NEW b \in Books, Recall(b, q, s)
  PROVE  Recall(A!Apply(b, Head(q)), Tail(q), s)
  <1>. DEFINE r == Tail(q)
              e == Head(q)
              g == A!Apply(b, e)
  <1>1. e \in Events
    BY Shorter
  <1>2. /\ g \in Books
        /\ e.kind = "resolved" => e.alarm \in Alarms /\ g.history = A!Headed(b.history, e.alarm)
        /\ e.kind # "resolved" => g.history = b.history
    BY <1>1, Applied
  <1>3. /\ e.kind = "resolved" => /\ e.alarm \in Ended(q) /\ Ended(r) = Ended(q) \ {e.alarm}
        /\ e.kind # "resolved" => Ended(r) = Ended(q)
        /\ \A a, c : Sooner(q, a, c) => a \in Ended(q) /\ c \in Ended(q)
    <2>1. \A i, j \in Closes(q) : q[i].alarm = q[j].alarm => i = j
      BY DEF Closed
    <2>. QED  BY <2>1, EndsOfTheRest
  <1>. HIDE DEF r, e, g
  <1>4. CASE e.kind # "resolved"
    <2>1. g.history = b.history /\ Ended(r) = Ended(q)
      BY <1>2, <1>3, <1>4
    <2>2. Recall(g, r, s)
      BY <2>1 DEF Recall
    <2>. QED  BY <2>2 DEF r, e, g
  <1>5. CASE e.kind = "resolved"
    <2>. DEFINE c == e.alarm
                h == b.history
                k == g.history
                o == s.history
    <2>1. /\ h \in Seq(Alarms) /\ Once(h) /\ Len(h) <= Depth /\ c \in Alarms /\ k = A!Headed(h, c)
          /\ o \in Seq(Alarms) /\ Once(o) /\ Len(o) <= Depth
      BY <1>2, <1>5 DEF Books
    <2>2. /\ k \in Seq(Alarms) /\ Once(k)
          /\ c \in In(k) /\ In(k) \subseteq In(h) \cup {c}
          /\ \A a \in In(k) : a # c => Ahead(k, c, a)
          /\ \A a, d : a # c /\ d # c => (Ahead(k, a, d) <=> Ahead(h, a, d) /\ d \in In(k))
          /\ \A a \in In(h) : a \notin In(k) =>
               /\ c \notin In(h) /\ Len(h) = Depth
               /\ \A d \in In(h) : d # a => d \in In(k) /\ Ahead(h, d, a)
      BY <2>1, Heads
    <2>3. /\ In(o) \ Ended(q) \subseteq In(h)
          /\ \A a, d \in In(o) \ Ended(q) : Ahead(o, a, d) => Ahead(h, a, d)
          /\ \A a \in In(o) \ Ended(q), d \in In(h) \ Ended(q) : Ahead(h, d, a) => d \in In(o)
          /\ \A d \in In(h) \ Ended(q) : d \notin In(o) => Len(o) = Depth
      BY DEF Recall
    <2>4. /\ c \in Ended(q)
          /\ \A a \in Ended(q) \cap In(o), d \in In(o) \ Ended(q) : a # d => Ahead(o, a, d)
          /\ \A a \in Ended(q) : a \notin In(o) => Len(o) = Depth /\ In(o) \subseteq Ended(q)
      <3>1. c \in Ended(q)
        BY <1>3, <1>5
      <3>2. \A a \in Ended(q) \cap In(o), d \in In(o) \ Ended(q) : a # d => Ahead(o, a, d)
        BY DEF Closed
      <3>3. \A a \in Ended(q) : a \notin In(o) => Len(o) = Depth /\ \A d \in In(o) : Sooner(q, a, d)
        BY DEF Closed
      <3>. QED  BY <1>3, <3>1, <3>2, <3>3
    <2>5. Ended(r) = Ended(q) \ {c}
      BY <1>3, <1>5
    <2>6. /\ \A a, d : Ahead(o, a, d) => ~Ahead(o, d, a) /\ a # d
          /\ \A a, d : Ahead(k, a, d) => ~Ahead(k, d, a) /\ a # d
      <3>1. \A a, d : Ahead(o, a, d) => ~Ahead(o, d, a) /\ a # d
        BY <2>1, OneIsAhead
      <3>2. \A a, d : Ahead(k, a, d) => ~Ahead(k, d, a) /\ a # d
        BY <2>2, OneIsAhead
      <3>. QED  BY <3>1, <3>2
    <2>. HIDE DEF h, k, o, c
    <2>7. ASSUME NEW a \in In(o) \ Ended(r)  PROVE a \in In(k)
      <3>. SUFFICES ASSUME a \notin In(k)  PROVE FALSE
        OBVIOUS
      <3>1. a # c /\ a \in In(o) \ Ended(q)
        BY <2>2, <2>5, <2>7
      <3>2. c \notin In(h) /\ Len(h) = Depth /\ \A d \in In(h) : d # a => Ahead(h, d, a)
        BY <2>2, <2>3, <3>1
      <3>3. Ended(q) \subseteq In(o)
        BY <2>4, <3>1
      <3>4. In(h) \subseteq In(o)
        BY <2>3, <3>1, <3>2, <3>3
      <3>5. In(h) = In(o)
        BY <2>1, <3>2, <3>4, NoRoom
      <3>. QED  BY <2>4, <3>2, <3>3, <3>5
    <2>8. ASSUME NEW a \in In(o) \ Ended(r), NEW d \in In(o) \ Ended(r), Ahead(o, a, d)  PROVE Ahead(k, a, d)
      <3>1. a # d /\ a \in In(k) /\ d \in In(k)
        BY <2>6, <2>7, <2>8
      <3>2. CASE a = c
        BY <2>2, <3>1, <3>2
      <3>3. CASE d = c
        <4>1. a \in In(o) \ Ended(q) /\ c \in Ended(q) \cap In(o)
          BY <2>4, <2>5, <3>1, <3>3
        <4>. QED  BY <2>4, <2>6, <2>8, <3>1, <3>3, <4>1
      <3>4. CASE a # c /\ d # c
        <4>1. a \in In(o) \ Ended(q) /\ d \in In(o) \ Ended(q)
          BY <2>5, <3>4
        <4>. QED  BY <2>2, <2>3, <2>8, <3>1, <3>4, <4>1
      <3>. QED  BY <3>2, <3>3, <3>4
    <2>9. ASSUME NEW a \in In(o) \ Ended(r), NEW d \in In(k) \ Ended(r), Ahead(k, d, a)  PROVE d \in In(o)
      <3>1. a # d /\ a \in In(k)
        BY <2>6, <2>7, <2>9
      <3>2. a # c
        BY <2>2, <2>6, <2>9, <3>1
      <3>3. a \in In(o) \ Ended(q)
        BY <2>5, <3>2
      <3>4. CASE d = c
        BY <2>4, <3>3, <3>4
      <3>5. CASE d # c
        <4>1. Ahead(h, d, a) /\ d \in In(h) \ Ended(q)
          BY <2>2, <2>5, <2>9, <3>2, <3>5
        <4>. QED  BY <2>3, <3>3, <4>1
      <3>. QED  BY <3>4, <3>5
    <2>10. ASSUME NEW d \in In(k) \ Ended(r), d \notin In(o)  PROVE Len(o) = Depth
      <3>1. CASE d = c
        BY <2>4, <2>10, <3>1
      <3>2. CASE d # c
        BY <2>2, <2>3, <2>5, <2>10, <3>2
      <3>. QED  BY <3>1, <3>2
    <2>11. Recall(g, r, s)
      BY <2>7, <2>8, <2>9, <2>10 DEF Recall, o, k
    <2>. QED  BY <2>11 DEF r, e, g
  <1>. QED  BY <1>4, <1>5

\* A book right but for what waits is, once the first of it is applied, right but for the rest.
LEMMA RestIsFair ==
  ASSUME A!AlertsAssumption, NEW q \in Seq(Events), q # <<>>, NEW s \in Books, True(q, s),
         NEW b \in Books, Fair(b, q, s)
  PROVE  A!Apply(b, Head(q)) \in Books /\ Fair(A!Apply(b, Head(q)), Tail(q), s)
  <1>1. Head(q) \in Events
    BY Shorter
  <1>2. A!Apply(b, Head(q)) \in Books
    BY <1>1, Applied
  <1>3. Told(q, s) /\ Closed(q, s) /\ Agree(b, q, s) /\ Recall(b, q, s)
    BY DEF True, Fair
  <1>. QED  BY <1>2, <1>3, AgreeWithRest, RecallOfRest DEF Fair

\* What the server answers is right but for what waits already.
LEMMA OwnIsFair ==
  ASSUME A!AlertsAssumption, NEW q, NEW s \in Books
  PROVE  Fair(s, q, s)
  <1>1. s.dropped <= s.dropped
    BY DEF Books, A!AlertsAssumption
  <1>. QED  BY <1>1 DEF Fair, Agree, Recall

\* With nothing to hear, a book that is right but for it is the server's.
LEMMA NothingWaits ==
  ASSUME A!AlertsAssumption, NEW s \in Books, NEW b \in Books, Fair(b, <<>>, s)
  PROVE  /\ In(b.active) = In(s.active) /\ b.history = s.history
         /\ b.muted = s.muted /\ b.dropped = s.dropped
  <1>. DEFINE q == <<>>
  <1>1. /\ \A a : Turns(q, a) = {}
        /\ \A a : Mutes(q, a) = {}
        /\ Counts(q) = {} /\ Ended(q) = {}
    BY DEF Turns, Mutes, Counts, Ended, Closes
  <1>2. Agree(b, q, s) /\ Recall(b, q, s)
    BY DEF Fair
  <1>. HIDE DEF q
  <1>3. /\ b.active \in Seq(Alarms) /\ s.active \in Seq(Alarms)
        /\ b.history \in Seq(Alarms) /\ Once(b.history) /\ Len(b.history) <= Depth
        /\ s.history \in Seq(Alarms) /\ Once(s.history) /\ Len(s.history) <= Depth
        /\ b.muted \in SUBSET Alarms /\ s.muted \in SUBSET Alarms
    BY DEF Books
  <1>4. In(b.active) = In(s.active)
    <2>1. In(b.active) \subseteq Alarms /\ In(s.active) \subseteq Alarms
      BY <1>3 DEF In
    <2>. QED  BY <1>1, <1>2, <2>1 DEF Agree
  <1>5. b.muted = s.muted /\ b.dropped = s.dropped
    BY <1>1, <1>2, <1>3 DEF Agree
  <1>6. In(s.history) = In(b.history)
    <2>1. In(s.history) \subseteq In(b.history)
          /\ \A a \in In(b.history) : a \notin In(s.history) => Len(s.history) = Depth
      BY <1>1, <1>2 DEF Recall
    <2>2. CASE Len(s.history) = Depth
      BY <1>3, <2>1, <2>2, NoRoom
    <2>3. CASE Len(s.history) # Depth
      BY <2>1, <2>3
    <2>. QED  BY <2>2, <2>3
  <1>7. \A a, c \in Alarms : Ahead(s.history, a, c) => Ahead(b.history, a, c)
    <2>1. \A a, c : Ahead(s.history, a, c) => a \in In(s.history) /\ c \in In(s.history)
      BY <1>3, OneIsAhead
    <2>. QED  BY <1>1, <1>2, <2>1 DEF Recall
  <1>8. b.history = s.history
    BY <1>3, <1>6, <1>7, SameOrder
  <1>. QED  BY <1>4, <1>5, <1>8

-----------------------------------------------------------------------------
(* What waited is applied.                                                   *)

\* What waited is applied one after another.
LEMMA OneByOne ==
  ASSUME A!AlertsAssumption, pending \in Seq(Events), NEW b \in Books
  PROVE  \E f : /\ f \in [0..Len(pending) -> Books] /\ f[0] = b
                /\ \A n \in 1..Len(pending) : f[n] = A!Apply(f[n - 1], pending[n])
                /\ A!Drained(b) = f[Len(pending)]
  <1>. DEFINE step == [p \in (1..Len(pending)) \X Books |-> A!Apply(p[2], pending[p[1]])]
              after == CHOOSE g : g = [n \in 0..Len(pending) |->
                         IF n = 0 THEN b ELSE A!Apply(g[n - 1], pending[n])]
  <1>0. Len(pending) \in Nat
    OBVIOUS
  <1>1. step \in [(1..Len(pending)) \X Books -> Books]
    <2>1. ASSUME NEW p \in (1..Len(pending)) \X Books  PROVE A!Apply(p[2], pending[p[1]]) \in Books
      <3>1. p[2] \in Books /\ p[1] \in 1..Len(pending)
        OBVIOUS
      <3>2. pending[p[1]] \in Events
        BY <3>1
      <3>. QED  BY <3>1, <3>2, Applied
    <2>. QED  BY <2>1
  <1>2. PICK f \in [0..Len(pending) -> Books] :
          f[0] = b /\ \A n \in 1..Len(pending) : f[n] = step[<<n, f[n - 1]>>]
    <2>. DEFINE N == Len(pending)
    <2>1. N \in Nat /\ b \in Books /\ step \in [(1..N) \X Books -> Books]
      BY <1>0, <1>1
    <2>. HIDE DEF step, N
    <2>2. \E f : Goes(f, Books, N, b, step)
      BY <2>1, StepByStep
    <2>. QED  BY <2>2 DEF N, Goes
  <1>3. \A n \in 1..Len(pending) : f[n] = A!Apply(f[n - 1], pending[n])
    <2>. SUFFICES ASSUME NEW n \in 1..Len(pending)  PROVE f[n] = A!Apply(f[n - 1], pending[n])
      OBVIOUS
    <2>1. n - 1 \in 0..Len(pending)
      BY <1>0
    <2>2. <<n, f[n - 1]>> \in (1..Len(pending)) \X Books
      BY <2>1
    <2>3. step[<<n, f[n - 1]>>] = A!Apply(f[n - 1], pending[n])
      BY <2>2
    <2>. QED  BY <1>2, <2>3
  <1>4. f = [n \in 0..Len(pending) |-> IF n = 0 THEN b ELSE A!Apply(f[n - 1], pending[n])]
    <2>. HIDE DEF step
    <2>1. \A n \in 0..Len(pending) : n = 0 \/ n \in 1..Len(pending)
      BY <1>0
    <2>. QED  BY <1>2, <1>3, <2>1
  <1>5. after = [n \in 0..Len(pending) |-> IF n = 0 THEN b ELSE A!Apply(after[n - 1], pending[n])]
    <2>. HIDE DEF step
    <2>. QED  BY <1>4
  <1>6. after = f
    <2>. DEFINE T == {n \in Nat : n <= Len(pending) => after[n] = f[n]}
    <2>. HIDE DEF after, step
    <2>1. 0 \in T
      BY <1>0, <1>4, <1>5
    <2>2. ASSUME NEW n \in Nat, n \in T  PROVE n + 1 \in T
      <3>. SUFFICES ASSUME n + 1 <= Len(pending)  PROVE after[n + 1] = f[n + 1]
        OBVIOUS
      <3>1. n + 1 \in 0..Len(pending) /\ n + 1 # 0 /\ (n + 1) - 1 = n /\ after[n] = f[n]
        BY <1>0, <2>2
      <3>2. f[n + 1] = A!Apply(f[n], pending[n + 1])
        BY <3>1, <1>4
      <3>3. after[n + 1] = A!Apply(after[n], pending[n + 1])
        BY <3>1, <1>5
      <3>. QED  BY <3>1, <3>2, <3>3
    <2>3. Nat \subseteq T
      <3>. HIDE DEF T
      <3>. QED  BY <2>1, <2>2, Numbers
    <2>4. \A n \in 0..Len(pending) : after[n] = f[n]
      BY <1>0, <2>3
    <2>. QED  BY <2>4, <1>4, <1>5
  <1>7. A!Drained(b) = after[Len(pending)]
    BY DEF A!Drained
  <1>. HIDE DEF after, step
  <1>. QED  BY <1>2, <1>3, <1>6, <1>7

\* All of a list but its first.
LEMMA TailOf ==
  ASSUME NEW q \in Seq(Events), NEW n \in Nat, n < Len(q)
  PROVE  LET t == SubSeq(q, n + 1, Len(q))
         IN  /\ t \in Seq(Events) /\ t # <<>> /\ Head(t) = q[n + 1]
             /\ Tail(t) = SubSeq(q, (n + 1) + 1, Len(q))
  <1>. DEFINE t == SubSeq(q, n + 1, Len(q))
              u == SubSeq(q, (n + 1) + 1, Len(q))
  <1>1. Len(q) \in Nat /\ n + 1 <= Len(q)
    OBVIOUS
  <1>2. t \in Seq(Events) /\ Len(t) = Len(q) - n /\ \A i \in 1..(Len(q) - n) : t[i] = q[i + n]
    BY <1>1
  <1>3. u \in Seq(Events) /\ Len(u) = Len(q) - n - 1 /\ \A i \in 1..(Len(q) - n - 1) : u[i] = q[i + n + 1]
    BY <1>1
  <1>. HIDE DEF t, u
  <1>4. t # <<>> /\ Head(t) = q[n + 1]
    <2>1. Len(t) # 0 /\ t[1] = q[1 + n] /\ 1 + n = n + 1
      BY <1>1, <1>2
    <2>. QED  BY <1>2, <2>1
  <1>5. /\ Tail(t) \in Seq(Events) /\ Len(Tail(t)) = Len(t) - 1
        /\ \A i \in 1..(Len(t) - 1) : Tail(t)[i] = t[i + 1]
    BY <1>2, <1>4
  <1>6. Tail(t) = u
    <2>1. Len(Tail(t)) = Len(u)
      BY <1>1, <1>2, <1>3, <1>5
    <2>2. ASSUME NEW i \in 1..Len(u)  PROVE Tail(t)[i] = u[i]
      <3>1. i \in 1..(Len(t) - 1) /\ i + 1 \in 1..(Len(q) - n) /\ i \in 1..(Len(q) - n - 1) /\ i + 1 + n = i + n + 1
        BY <1>1, <1>2, <1>3
      <3>. QED  BY <1>2, <1>3, <1>5, <3>1
    <2>. QED  BY <1>3, <1>5, <2>1, <2>2, SeqEqual
  <1>. QED  BY <1>2, <1>4, <1>6 DEF t, u

\* A book right but for what waits and what is on its way is, drained, right but for what is on
\* its way.
LEMMA DrainedIsFair ==
  ASSUME A!AlertsAssumption, pending \in Seq(Events), wire \in Seq(Events), engine \in Books,
         NEW b \in Books, True(pending \o wire, engine), Fair(b, pending \o wire, engine)
  PROVE  Fair(A!Drained(b), wire, engine)
  <1>. DEFINE q == pending \o wire
              left(n) == SubSeq(q, n + 1, Len(q))
  <1>1. PICK f : /\ f \in [0..Len(pending) -> Books] /\ f[0] = b
                 /\ \A n \in 1..Len(pending) : f[n] = A!Apply(f[n - 1], pending[n])
                 /\ A!Drained(b) = f[Len(pending)]
    BY OneByOne
  <1>2. /\ q \in Seq(Events) /\ Len(q) = Len(pending) + Len(wire) /\ Len(pending) \in Nat /\ Len(wire) \in Nat
        /\ \A i \in 1..Len(pending) : q[i] = pending[i]
        /\ \A i \in 1..Len(wire) : q[i + Len(pending)] = wire[i]
    OBVIOUS
  <1>3. True(q, engine) /\ Fair(b, q, engine)
    OBVIOUS
  <1>. HIDE DEF q
  <1>4. left(0) = q
    BY <1>2
  <1>5. left(Len(pending)) = wire
    <2>. DEFINE l == left(Len(pending))
    <2>1. /\ l \in Seq(Events) /\ Len(l) = Len(wire)
          /\ \A i \in 1..Len(wire) : l[i] = q[i + Len(pending)]
      BY <1>2
    <2>. HIDE DEF l
    <2>2. wire \in Seq(Events) /\ \A i \in 1..Len(l) : l[i] = wire[i]
      BY <1>2, <2>1
    <2>3. l = wire
      BY <2>1, <2>2, SeqEqual
    <2>. QED  BY <2>3 DEF l
  <1>. DEFINE T == {n \in Nat : n <= Len(pending) =>
                      left(n) \in Seq(Events) /\ True(left(n), engine) /\ Fair(f[n], left(n), engine)}
  <1>6. 0 \in T
    BY <1>1, <1>2, <1>3, <1>4
  <1>7. ASSUME NEW n \in Nat, n \in T  PROVE n + 1 \in T
    <2>. SUFFICES ASSUME n + 1 <= Len(pending)
                  PROVE  /\ left(n + 1) \in Seq(Events) /\ True(left(n + 1), engine)
                         /\ Fair(f[n + 1], left(n + 1), engine)
      OBVIOUS
    <2>1. n <= Len(pending) /\ n < Len(q) /\ n \in 0..Len(pending) /\ n + 1 \in 1..Len(pending) /\ (n + 1) - 1 = n
      BY <1>2
    <2>2. True(left(n), engine) /\ Fair(f[n], left(n), engine)
      BY <1>7, <2>1
    <2>3. /\ left(n) \in Seq(Events) /\ left(n) # <<>> /\ Head(left(n)) = q[n + 1]
          /\ Tail(left(n)) = left(n + 1)
      BY <1>2, <2>1, TailOf
    <2>. HIDE DEF left
    <2>4. Head(left(n)) = pending[n + 1] /\ f[n + 1] = A!Apply(f[n], pending[n + 1]) /\ f[n] \in Books
      BY <1>1, <1>2, <2>1, <2>3
    <2>5. Fair(A!Apply(f[n], Head(left(n))), Tail(left(n)), engine)
      BY <2>2, <2>3, <2>4, RestIsFair
    <2>6. True(Tail(left(n)), engine)
      BY <2>2, <2>3, RestIsTrue
    <2>7. left(n + 1) \in Seq(Events)
      <3>1. Tail(left(n)) \in Seq(Events)
        BY <2>3
      <3>. QED  BY <2>3, <3>1
    <2>. QED  BY <2>3, <2>4, <2>5, <2>6, <2>7
  <1>8. Len(pending) \in T
    <2>. HIDE DEF T
    <2>1. Nat \subseteq T
      BY <1>6, <1>7, Numbers
    <2>. QED  BY <1>2, <2>1
  <1>9. Fair(f[Len(pending)], left(Len(pending)), engine)
    <2>. HIDE DEF left
    <2>. QED  BY <1>2, <1>8
  <1>. QED  BY <1>1, <1>5, <1>9

\* ... and a book it is in any case.
LEMMA DrainedIsBook ==
  ASSUME A!AlertsAssumption, pending \in Seq(Events), NEW b \in Books
  PROVE  A!Drained(b) \in Books
  <1>1. PICK f : f \in [0..Len(pending) -> Books] /\ A!Drained(b) = f[Len(pending)]
    BY OneByOne
  <1>. QED  BY <1>1

-----------------------------------------------------------------------------
(* The steps of the server, the hub and the console.                         *)

\* One more behind two queues is one more behind the second.
LEMMA BehindBoth ==
  ASSUME NEW T, NEW q \in Seq(T), NEW w \in Seq(T), NEW e \in T
  PROVE  q \o Append(w, e) = Append(q \o w, e)
  <1>. DEFINE l == q \o Append(w, e)
              k == Append(q \o w, e)
              N == Len(q) + Len(w)
  <1>1. Len(q) \in Nat /\ Len(w) \in Nat /\ N \in Nat
    OBVIOUS
  <1>2. l \in Seq(T) /\ k \in Seq(T) /\ Len(l) = N + 1 /\ Len(k) = N + 1
    BY <1>1
  <1>3. ASSUME NEW i \in 1..(N + 1)  PROVE l[i] = k[i]
    <2>1. CASE i = N + 1
      BY <1>1, <2>1
    <2>2. CASE i # N + 1
      BY <1>1, <2>2
    <2>. QED  BY <2>1, <2>2
  <1>. HIDE DEF l, k, N
  <1>4. l = k
    BY <1>2, <1>3, SeqEqual
  <1>. QED  BY <1>4 DEF l, k

\* The first of the second goes behind the first.
LEMMA OneGoesOver ==
  ASSUME NEW T, NEW q \in Seq(T), NEW w \in Seq(T), w # <<>>
  PROVE  Append(q, Head(w)) \o Tail(w) = q \o w
  <1>. DEFINE l == Append(q, Head(w)) \o Tail(w)
              k == q \o w
              N == Len(q) + Len(w)
  <1>1. Len(q) \in Nat /\ Len(w) \in Nat /\ N \in Nat /\ Len(w) # 0 /\ Head(w) = w[1] /\ w[1] \in T
    OBVIOUS
  <1>2. Tail(w) \in Seq(T) /\ Len(Tail(w)) = Len(w) - 1 /\ \A i \in 1..(Len(w) - 1) : Tail(w)[i] = w[i + 1]
    BY <1>1
  <1>3. l \in Seq(T) /\ k \in Seq(T) /\ Len(l) = N /\ Len(k) = N
    BY <1>1, <1>2
  <1>4. ASSUME NEW i \in 1..N  PROVE l[i] = k[i]
    <2>1. CASE i <= Len(q)
      BY <1>1, <1>2, <2>1
    <2>2. CASE i = Len(q) + 1
      BY <1>1, <1>2, <2>2
    <2>3. CASE i > Len(q) + 1
      <3>1. k[i] = w[i - Len(q)]
        BY <1>1, <2>3
      <3>2. l[i] = Tail(w)[i - Len(q) - 1] /\ i - Len(q) - 1 \in 1..(Len(w) - 1)
        BY <1>1, <1>2, <2>3
      <3>3. (i - Len(q) - 1) + 1 = i - Len(q)
        BY <1>1, <2>3
      <3>. QED  BY <1>2, <3>1, <3>2, <3>3
    <2>. QED  BY <1>1, <2>1, <2>2, <2>3
  <1>. HIDE DEF l, k, N
  <1>5. l = k
    BY <1>3, <1>4, SeqEqual
  <1>. QED  BY <1>5 DEF l, k

\* What is told of the server keeps the invariant when it is true and takes nothing from a book.
LEMMA SpeaksUp ==
  ASSUME AlertsInv, NEW e \in Events, A!Says(e), UNCHANGED <<hub, A!console, A!ghosts>>,
         engine' \in Books, In(engine'.active) \subseteq raisedEver',
         \A q \in Seq(Events) : True(q, engine) /\ Ended(q) \subseteq raisedEver =>
           /\ True(Append(q, e), engine') /\ Ended(Append(q, e)) \subseteq raisedEver'
           /\ \A b \in Books : Fair(b, q, engine) => Fair(b, Append(q, e), engine')
  PROVE  AlertsInv'
  <1>1. AlertTypes /\ ReadsHold /\ WireHolds /\ QueueHolds
    BY DEF AlertsInv
  <1>2. UNCHANGED <<hub, store, syncing, pending, generation, loads, landed, early, tainted>>
    BY DEF A!console, A!ghosts
  <1>3. hub = "up" => wire' = Append(wire, e)
    BY DEF A!Says
  <1>4. hub # "up" => wire' = wire
    BY DEF A!Says
  <1>5. wire \in Seq(Events) /\ pending \in Seq(Events) /\ store \in Books /\ loads \in SUBSET Reads
    BY <1>1 DEF AlertTypes
  <1>6. wire' \in Seq(Events)
    BY <1>3, <1>4, <1>5
  <1>7. AlertTypes'
    BY <1>1, <1>2, <1>6 DEF AlertTypes
  <1>8. ReadsHold'
    BY <1>1, <1>2 DEF ReadsHold
  <1>9. hub = "up" => True(wire', engine') /\ Ended(wire') \subseteq raisedEver'
    BY <1>1, <1>3, <1>5 DEF WireHolds
  <1>10. WireHolds'
    BY <1>1, <1>2, <1>4, <1>9 DEF WireHolds
  <1>11. QueueHolds'
    <2>. SUFFICES ASSUME hub = "up", ~early  PROVE QueueHolds'
      BY <1>2 DEF QueueHolds
    <2>. DEFINE q == pending \o wire
    <2>1. q \in Seq(Events)
      BY <1>5
    <2>2. pending' \o wire' = Append(q, e)
      <3>1. pending \o Append(wire, e) = Append(pending \o wire, e)
        BY <1>5, BehindBoth
      <3>. QED  BY <1>2, <1>3, <3>1
    <2>3. /\ True(q, engine) /\ Ended(q) \subseteq raisedEver
          /\ \A l \in loads : l.mine = generation /\ l.asked = "up" /\ l.answer # <<>> =>
               Fair(l.answer[1], q, engine)
          /\ landed = "under" /\ ~tainted => Fair(store, q, engine)
      BY <1>1 DEF QueueHolds
    <2>. HIDE DEF q
    <2>4. /\ True(Append(q, e), engine') /\ Ended(Append(q, e)) \subseteq raisedEver'
          /\ \A b \in Books : Fair(b, q, engine) => Fair(b, Append(q, e), engine')
      BY <2>1, <2>3
    <2>5. \A l \in loads : l.answer # <<>> => l.answer[1] \in Books
      BY <1>5 DEF Reads
    <2>. QED  BY <1>2, <1>5, <2>2, <2>3, <2>4, <2>5 DEF QueueHolds
  <1>. QED  BY <1>7, <1>8, <1>10, <1>11 DEF AlertsInv

\* What the server does keeps the invariant.
LEMMA ServerActs ==
  ASSUME A!AlertsAssumption, AlertsInv, NEW e \in Events, A!Happens(e),
         e.kind = "raised" => e.alarm \notin raisedEver,
         e.kind = "resolved" => e.alarm \in In(engine.active),
         e.kind = "dropped" => e.total = engine.dropped + 1,
         raisedEver' = raisedEver \cup (IF e.kind = "raised" THEN {e.alarm} ELSE {})
  PROVE  AlertsInv'
  <1>1. /\ engine' = A!Apply(engine, e) /\ A!Says(e) /\ UNCHANGED <<hub, A!console, A!ghosts>>
    BY DEF A!Happens
  <1>2. engine \in Books /\ In(engine.active) \subseteq raisedEver
    BY DEF AlertsInv, AlertTypes, WireHolds
  <1>3. /\ engine' \in Books
        /\ e.kind = "raised" => In(engine'.active) = In(engine.active) \cup {e.alarm}
        /\ e.kind = "resolved" => In(engine'.active) = In(engine.active) \ {e.alarm}
        /\ e.kind \notin {"raised", "resolved"} => engine'.active = engine.active
    BY <1>1, <1>2, Applied
  <1>4. In(engine'.active) \subseteq raisedEver'
    BY <1>2, <1>3
  <1>5. ASSUME NEW q \in Seq(Events), True(q, engine), Ended(q) \subseteq raisedEver
        PROVE  /\ True(Append(q, e), engine') /\ Ended(Append(q, e)) \subseteq raisedEver'
               /\ \A b \in Books : Fair(b, q, engine) => Fair(b, Append(q, e), engine')
    <2>1. e.kind = "raised" => e.alarm \notin Ended(q)
      BY <1>5
    <2>. DEFINE p == Append(q, e)
                t == A!Apply(engine, e)
    <2>2. /\ True(p, t)
          /\ Ended(p) = Ended(q) \cup (IF e.kind = "resolved" THEN {e.alarm} ELSE {})
          /\ \A b \in Books : Fair(b, q, engine) => Fair(b, p, t)
      BY <1>2, <1>5, <2>1, Says
    <2>. HIDE DEF p, t
    <2>3. Ended(p) \subseteq raisedEver'
      BY <1>2, <1>5, <2>2
    <2>. QED  BY <1>1, <2>2, <2>3 DEF p, t
  <1>. QED  BY <1>1, <1>3, <1>4, <1>5, SpeaksUp

\* Nothing told is true of any server.
LEMMA NothingToldIsTrue ==
  ASSUME NEW s
  PROVE  True(<<>>, s) /\ Ended(<<>>) = {}
  <1>1. /\ \A a : Turns(<<>>, a) = {}
        /\ \A a : Mutes(<<>>, a) = {}
        /\ Counts(<<>>) = {} /\ Closes(<<>>) = {} /\ Ended(<<>>) = {}
    BY DEF Turns, Mutes, Counts, Ended, Closes
  <1>. QED  BY <1>1 DEF True, Told, Closed

\* The invariant holds when the console starts.
LEMMA AlertsStart ==
  ASSUME A!AlertsAssumption, A!Init
  PROVE  AlertsInv
  <1>1. A!emptyAlerts \in Books /\ In(A!emptyAlerts.active) = {}
    <2>1. <<>> \in Seq(Alarms) /\ Once(<<>>) /\ Len(<<>>) = 0 /\ In(<<>>) = {}
      BY DEF Once, In
    <2>2. 0 \in 0..MaxTotal /\ 0 <= Depth
      BY DEF A!AlertsAssumption
    <2>3. A!emptyAlerts = [active |-> <<>>, history |-> <<>>, muted |-> {}, dropped |-> 0]
      BY DEF A!emptyAlerts
    <2>. QED  BY <2>1, <2>2, <2>3 DEF Books
  <1>2. AlertTypes
    <2>1. [mine |-> 1, asked |-> "off", answer |-> <<>>] \in Reads
      <3>1. <<>> \in Seq(Books)
        OBVIOUS
      <3>. QED  BY <3>1 DEF Reads
    <2>2. 1 \in 1..MaxLoads /\ <<>> \in Seq(Events)
      BY DEF A!AlertsAssumption
    <2>. QED  BY <1>1, <2>1, <2>2 DEF AlertTypes, A!Init
  <1>3. ReadsHold
    BY DEF ReadsHold, A!Init
  <1>4. WireHolds
    BY <1>1 DEF WireHolds, A!Init
  <1>5. QueueHolds
    BY DEF QueueHolds, A!Init
  <1>. QED  BY <1>2, <1>3, <1>4, <1>5 DEF AlertsInv

\* The server's own steps.
LEMMA EngineKeeps ==
  ASSUME A!AlertsAssumption, AlertsInv, NEW a \in Alarms,
         A!EngineRaises(a) \/ A!EngineResolves(a) \/ A!EngineMutes(a) \/ A!EngineDrops \/ A!Reannounces(a)
  PROVE  AlertsInv'
  <1>0. A!ToSet(engine.active) = In(engine.active)
    BY DEF A!ToSet, In
  <1>1. CASE A!EngineRaises(a)
    <2>. DEFINE e == [kind |-> "raised", alarm |-> a]
    <2>1. e \in Events /\ e.kind = "raised" /\ e.alarm = a
      BY DEF Events
    <2>2. A!Happens(e) /\ a \notin raisedEver /\ raisedEver' = raisedEver \cup {a}
      BY <1>1 DEF A!EngineRaises
    <2>. HIDE DEF e
    <2>. QED  BY <2>1, <2>2, ServerActs
  <1>2. CASE A!EngineResolves(a)
    <2>. DEFINE e == [kind |-> "resolved", alarm |-> a]
    <2>1. e \in Events /\ e.kind = "resolved" /\ e.alarm = a
      BY DEF Events
    <2>2. A!Happens(e) /\ a \in In(engine.active) /\ raisedEver' = raisedEver
      BY <1>0, <1>2 DEF A!EngineResolves
    <2>. HIDE DEF e
    <2>. QED  BY <2>1, <2>2, ServerActs
  <1>3. CASE A!EngineMutes(a)
    <2>. DEFINE e == [kind |-> "mute", alarm |-> a, on |-> a \notin engine.muted]
    <2>1. e \in Events
      BY DEF Events
    <2>2. e.kind = "mute"
      OBVIOUS
    <2>3. A!Happens(e) /\ raisedEver' = raisedEver
      BY <1>3, Zenon DEF A!EngineMutes
    <2>. HIDE DEF e
    <2>. QED  BY <2>1, <2>2, <2>3, ServerActs
  <1>4. CASE A!EngineDrops
    <2>. DEFINE e == [kind |-> "dropped", total |-> engine.dropped + 1]
    <2>1. engine.dropped \in 0..MaxTotal /\ engine.dropped < MaxTotal /\ MaxTotal \in Nat
      BY <1>4 DEF A!EngineDrops, AlertsInv, AlertTypes, Books, A!AlertsAssumption
    <2>2. engine.dropped + 1 \in 0..MaxTotal
      BY <2>1
    <2>3. e \in Events /\ e.kind = "dropped" /\ e.total = engine.dropped + 1
      BY <2>2 DEF Events
    <2>4. A!Happens(e) /\ raisedEver' = raisedEver
      BY <1>4 DEF A!EngineDrops
    <2>. HIDE DEF e
    <2>. QED  BY <2>3, <2>4, ServerActs
  <1>5. CASE A!Reannounces(a)
    <2>. DEFINE e == [kind |-> "raised", alarm |-> a]
    <2>1. e \in Events /\ e.kind = "raised" /\ e.alarm = a
      BY DEF Events
    <2>2. A!Says(e) /\ a \in In(engine.active) /\ UNCHANGED <<engine, raisedEver, hub, A!console, A!ghosts>>
      BY <1>0, <1>5 DEF A!Reannounces, A!server
    <2>. HIDE DEF e
    <2>3. engine \in Books /\ In(engine.active) \subseteq raisedEver
      BY DEF AlertsInv, AlertTypes, WireHolds
    <2>4. ASSUME NEW q \in Seq(Events), True(q, engine), Ended(q) \subseteq raisedEver
          PROVE  /\ True(Append(q, e), engine') /\ Ended(Append(q, e)) \subseteq raisedEver'
                 /\ \A b \in Books : Fair(b, q, engine) => Fair(b, Append(q, e), engine')
      BY <2>1, <2>2, <2>3, <2>4, Repeats
    <2>. QED  BY <2>1, <2>2, <2>3, <2>4, SpeaksUp
  <1>. QED  BY <1>1, <1>2, <1>3, <1>4, <1>5

\* A snapshot is asked for: it owns the answer and the queue both.
LEMMA FetchKeeps ==
  ASSUME A!AlertsAssumption, AlertsInv, A!Load, hub' \in {"off", "up", "down"},
         UNCHANGED <<engine, raisedEver, wire, landed, early, tainted>>,
         hub' # hub => hub = "down" /\ hub' = "up"
  PROVE  AlertsInv'
  <1>1. AlertTypes /\ ReadsHold /\ WireHolds /\ QueueHolds
    BY DEF AlertsInv
  <1>. DEFINE l == [mine |-> generation + 1, asked |-> hub', answer |-> <<>>]
  <1>2. /\ generation < MaxLoads /\ generation' = generation + 1 /\ syncing' = TRUE
        /\ loads' = loads \cup {l} /\ UNCHANGED <<store, pending>>
    BY DEF A!Load
  <1>3. generation \in 1..MaxLoads /\ MaxLoads \in Nat
    BY <1>1 DEF AlertTypes, A!AlertsAssumption
  <1>4. generation + 1 \in 1..MaxLoads /\ generation + 1 \in Nat /\ \A i \in 1..generation : i \in 1..(generation + 1) /\ i # generation + 1
        /\ generation + 1 \in 1..(generation + 1)
    BY <1>2, <1>3
  <1>5. l \in Reads /\ l.mine = generation + 1 /\ l.answer = <<>> /\ l.asked = hub'
    <2>1. <<>> \in Seq(Books)
      OBVIOUS
    <2>. QED  BY <1>4, <2>1 DEF Reads
  <1>. HIDE DEF l
  <1>6. AlertTypes'
    BY <1>1, <1>2, <1>4, <1>5 DEF AlertTypes
  <1>7. \A m \in loads : m.mine \in 1..generation
    BY <1>1 DEF ReadsHold
  <1>8. ReadsHold'
    <2>1. \A m \in loads' : m.mine \in 1..generation'
      BY <1>2, <1>4, <1>5, <1>7
    <2>2. \A m, n \in loads' : m.mine = n.mine => m = n
      BY <1>1, <1>2, <1>4, <1>5, <1>7 DEF ReadsHold
    <2>3. syncing' <=> \E m \in loads' : m.mine = generation'
      BY <1>2, <1>5
    <2>. QED  BY <2>1, <2>2, <2>3 DEF ReadsHold
  <1>9. WireHolds'
    <2>1. hub' = "up" => True(wire, engine) /\ Ended(wire) \subseteq raisedEver
      <3>1. CASE hub = "up"
        BY <1>1, <3>1 DEF WireHolds
      <3>2. CASE hub # "up"
        <4>1. wire = <<>>
          BY <1>1, <3>2 DEF WireHolds
        <4>. QED  BY <4>1, NothingToldIsTrue
      <3>. QED  BY <3>1, <3>2
    <2>2. hub' # "up" => hub = hub'
      BY <1>1 DEF AlertTypes
    <2>. QED  BY <1>1, <1>2, <1>5, <2>1, <2>2 DEF WireHolds
  <1>10. QueueHolds'
    <2>. SUFFICES ASSUME hub' = "up", ~early  PROVE QueueHolds'
      BY DEF QueueHolds
    <2>1. \A m \in loads' : m.mine = generation' => m.answer = <<>>
      BY <1>2, <1>4, <1>5, <1>7
    <2>2. CASE hub = "up"
      BY <1>1, <1>2, <2>1, <2>2 DEF QueueHolds
    <2>3. CASE hub # "up"
      <3>1. wire = <<>> /\ pending = <<>> /\ landed # "under"
        BY <1>1, <2>3 DEF WireHolds
      <3>2. pending \o wire = <<>>
        BY <3>1
      <3>3. True(pending \o wire, engine) /\ Ended(pending \o wire) \subseteq raisedEver
        BY <3>2, NothingToldIsTrue
      <3>. QED  BY <1>2, <2>1, <3>1, <3>3 DEF QueueHolds
    <2>. QED  BY <2>2, <2>3
  <1>. QED  BY <1>6, <1>8, <1>9, <1>10 DEF AlertsInv

\* The hub comes up for the first time.
LEMMA HubStartsKeeps ==
  ASSUME A!AlertsAssumption, AlertsInv, A!HubStarts
  PROVE  AlertsInv'
  <1>1. AlertTypes /\ ReadsHold /\ WireHolds /\ QueueHolds
    BY DEF AlertsInv
  <1>2. /\ hub = "off" /\ hub' = "up"
        /\ UNCHANGED <<engine, raisedEver, wire, store, syncing, pending, generation, loads, landed, early, tainted>>
    BY DEF A!HubStarts, A!server, A!console, A!ghosts
  <1>3. wire = <<>> /\ landed # "under" /\ (\A l \in loads : l.asked # "up") /\ (~early => pending = <<>>)
    BY <1>1, <1>2 DEF WireHolds
  <1>4. True(wire, engine) /\ Ended(wire) = {}
    BY <1>3, NothingToldIsTrue
  <1>5. AlertTypes'
    BY <1>1, <1>2 DEF AlertTypes
  <1>6. ReadsHold'
    BY <1>1, <1>2 DEF ReadsHold
  <1>7. WireHolds'
    BY <1>1, <1>2, <1>4 DEF WireHolds
  <1>8. ~early => True(pending \o wire, engine) /\ Ended(pending \o wire) = {}
    <2>1. ~early => pending \o wire = wire
      BY <1>3
    <2>. QED  BY <1>4, <2>1
  <1>9. QueueHolds'
    BY <1>2, <1>3, <1>8 DEF QueueHolds
  <1>. QED  BY <1>5, <1>6, <1>7, <1>9 DEF AlertsInv

\* The hub goes down.
LEMMA HubDropsKeeps ==
  ASSUME A!AlertsAssumption, AlertsInv, A!HubDrops
  PROVE  AlertsInv'
  <1>1. AlertTypes /\ ReadsHold /\ WireHolds /\ QueueHolds
    BY DEF AlertsInv
  <1>2. /\ hub' = "down" /\ wire' = <<>> /\ landed' = "none" /\ early' = (pending # <<>>)
        /\ engine' = engine \/ engine' = [engine EXCEPT !.dropped = 0, !.history = <<>>]
        /\ loads' = {[l EXCEPT !.asked = "down"] : l \in loads}
        /\ UNCHANGED <<raisedEver, store, syncing, pending, generation, tainted>>
    BY Zenon DEF A!HubDrops
  <1>3. engine \in Books
    BY <1>1 DEF AlertTypes
  <1>4. engine' \in Books /\ engine'.active = engine.active
    <2>1. CASE engine' = engine
      BY <1>3, <2>1
    <2>2. CASE engine' = [engine EXCEPT !.dropped = 0, !.history = <<>>]
      <3>1. <<>> \in Seq(Alarms) /\ Once(<<>>) /\ Len(<<>>) = 0
        BY DEF Once
      <3>2. 0 \in 0..MaxTotal /\ 0 <= Depth
        BY DEF A!AlertsAssumption
      <3>. QED  BY <1>3, <2>2, <3>1, <3>2 DEF Books
    <2>. QED  BY <1>2, <2>1, <2>2
  <1>5. \A l \in loads : /\ [l EXCEPT !.asked = "down"] \in Reads /\ [l EXCEPT !.asked = "down"].mine = l.mine
                         /\ [l EXCEPT !.asked = "down"].asked = "down"
    BY <1>1 DEF AlertTypes, Reads
  <1>6. /\ \A m \in loads' : m \in Reads /\ m.asked = "down" /\ \E l \in loads : m = [l EXCEPT !.asked = "down"] /\ m.mine = l.mine
        /\ \A l \in loads : \E m \in loads' : m.mine = l.mine
    BY <1>2, <1>5
  <1>7. AlertTypes'
    BY <1>1, <1>2, <1>4, <1>6 DEF AlertTypes
  <1>8. ReadsHold'
    <2>1. \A m \in loads' : m.mine \in 1..generation
      BY <1>1, <1>6 DEF ReadsHold
    <2>2. ASSUME NEW m \in loads', NEW n \in loads', m.mine = n.mine  PROVE m = n
      <3>1. PICK l \in loads : m = [l EXCEPT !.asked = "down"] /\ m.mine = l.mine
        BY <1>6
      <3>2. PICK k \in loads : n = [k EXCEPT !.asked = "down"] /\ n.mine = k.mine
        BY <1>6
      <3>3. l = k
        BY <1>1, <2>2, <3>1, <3>2 DEF ReadsHold
      <3>. QED  BY <3>1, <3>2, <3>3
    <2>3. syncing <=> \E m \in loads' : m.mine = generation
      BY <1>1, <1>6 DEF ReadsHold
    <2>. QED  BY <1>2, <2>1, <2>2, <2>3 DEF ReadsHold
  <1>9. WireHolds'
    BY <1>1, <1>2, <1>4, <1>6 DEF WireHolds
  <1>10. QueueHolds'
    BY <1>2 DEF QueueHolds
  <1>. QED  BY <1>7, <1>8, <1>9, <1>10 DEF AlertsInv

\* An event is heard: it waits, or it is taken in.
LEMMA HearsKeeps ==
  ASSUME A!AlertsAssumption, AlertsInv, A!Hears
  PROVE  AlertsInv'
  <1>1. AlertTypes /\ ReadsHold /\ WireHolds /\ QueueHolds
    BY DEF AlertsInv
  <1>2. /\ hub = "up" /\ wire # <<>> /\ wire' = Tail(wire)
        /\ UNCHANGED <<engine, raisedEver, hub, syncing, generation, loads, landed, early, tainted>>
    BY DEF A!Hears, A!server, A!ghosts
  <1>3. /\ wire \in Seq(Events) /\ pending \in Seq(Events) /\ store \in Books /\ engine \in Books
        /\ Head(wire) \in Events /\ Tail(wire) \in Seq(Events)
    <2>1. wire \in Seq(Events) /\ pending \in Seq(Events) /\ store \in Books /\ engine \in Books
      BY <1>1 DEF AlertTypes
    <2>. QED  BY <1>2, <2>1, Shorter
  <1>4. True(Tail(wire), engine) /\ Ended(Tail(wire)) \subseteq raisedEver
    <2>1. True(wire, engine) /\ Ended(wire) \subseteq raisedEver
      BY <1>1, <1>2 DEF WireHolds
    <2>. QED  BY <1>2, <1>3, <2>1, RestIsTrue
  <1>5. ReadsHold'
    BY <1>1, <1>2 DEF ReadsHold
  <1>6. CASE syncing
    <2>1. pending' = Append(pending, Head(wire)) /\ store' = store
      BY <1>6 DEF A!Hears, A!queued
    <2>2. pending' \in Seq(Events)
      BY <1>3, <2>1
    <2>3. AlertTypes'
      BY <1>1, <1>2, <1>3, <2>1, <2>2 DEF AlertTypes
    <2>4. WireHolds'
      BY <1>1, <1>2, <1>4, <1>6 DEF WireHolds
    <2>5. pending' \o wire' = pending \o wire
      <3>1. Append(pending, Head(wire)) \o Tail(wire) = pending \o wire
        BY <1>2, <1>3, OneGoesOver
      <3>. QED  BY <1>2, <2>1, <3>1
    <2>6. QueueHolds'
      BY <1>1, <1>2, <2>1, <2>5 DEF QueueHolds
    <2>. QED  BY <1>5, <2>3, <2>4, <2>6 DEF AlertsInv
  <1>7. CASE ~syncing
    <2>1. pending' = pending /\ store' = A!Apply(store, Head(wire)) /\ pending = <<>>
      BY <1>1, <1>7 DEF A!Hears, A!queued, WireHolds
    <2>2. store' \in Books
      BY <1>3, <2>1, Applied
    <2>3. AlertTypes'
      BY <1>1, <1>2, <1>3, <2>1, <2>2 DEF AlertTypes
    <2>4. WireHolds'
      BY <1>1, <1>2, <1>4, <2>1 DEF WireHolds
    <2>5. pending \o wire = wire /\ pending' \o wire' = Tail(wire)
      BY <1>2, <1>3, <2>1
    <2>6. True(wire, engine) /\ (Fair(store, wire, engine) => Fair(store', Tail(wire), engine))
      <3>1. True(wire, engine)
        BY <1>1, <1>2 DEF WireHolds
      <3>. QED  BY <1>2, <1>3, <2>1, <3>1, RestIsFair
    <2>7. \A l \in loads : l.mine # generation
      BY <1>1, <1>7 DEF ReadsHold
    <2>8. QueueHolds'
      BY <1>1, <1>2, <1>4, <2>5, <2>6, <2>7 DEF QueueHolds
    <2>. QED  BY <1>5, <2>3, <2>4, <2>8 DEF AlertsInv
  <1>. QED  BY <1>6, <1>7

\* The server answers with what it holds.
LEMMA ServedKeeps ==
  ASSUME A!AlertsAssumption, AlertsInv, NEW l \in loads, A!Served(l)
  PROVE  AlertsInv'
  <1>1. AlertTypes /\ ReadsHold /\ WireHolds /\ QueueHolds
    BY DEF AlertsInv
  <1>. DEFINE k == [l EXCEPT !.answer = <<engine>>]
  <1>2. /\ l.answer = <<>> /\ loads' = (loads \ {l}) \cup {k}
        /\ UNCHANGED <<engine, raisedEver, hub, wire, store, syncing, pending, generation, landed, early, tainted>>
    BY DEF A!Served, A!server, A!ghosts
  <1>3. k \in Reads /\ k.mine = l.mine /\ k.asked = l.asked /\ k.answer[1] = engine
    <2>1. engine \in Books /\ l \in Reads
      BY <1>1 DEF AlertTypes
    <2>2. <<engine>> \in Seq(Books) /\ <<engine>>[1] = engine
      BY <2>1
    <2>3. l = [mine |-> l.mine, asked |-> l.asked, answer |-> l.answer]
      BY <2>1 DEF Reads
    <2>. QED  BY <2>1, <2>2, <2>3 DEF Reads
  <1>. HIDE DEF k
  <1>4. AlertTypes'
    BY <1>1, <1>2, <1>3 DEF AlertTypes
  <1>5. ReadsHold'
    <2>1. \A m \in loads' : m.mine \in 1..generation
      BY <1>1, <1>2, <1>3 DEF ReadsHold
    <2>2. \A m, n \in loads' : m.mine = n.mine => m = n
      BY <1>1, <1>2, <1>3 DEF ReadsHold
    <2>3. syncing <=> \E m \in loads' : m.mine = generation
      BY <1>1, <1>2, <1>3 DEF ReadsHold
    <2>. QED  BY <1>2, <2>1, <2>2, <2>3 DEF ReadsHold
  <1>6. WireHolds'
    BY <1>1, <1>2, <1>3 DEF WireHolds
  <1>7. Fair(engine, pending \o wire, engine)
    BY <1>1, OwnIsFair DEF AlertTypes
  <1>8. QueueHolds'
    BY <1>1, <1>2, <1>3, <1>7 DEF QueueHolds
  <1>. QED  BY <1>4, <1>5, <1>6, <1>8 DEF AlertsInv

\* A newer one owns the answer: this one does nothing.
LEMMA SupersededKeeps ==
  ASSUME A!AlertsAssumption, AlertsInv, NEW l \in loads, A!Superseded(l)
  PROVE  AlertsInv'
  <1>1. AlertTypes /\ ReadsHold /\ WireHolds /\ QueueHolds
    BY DEF AlertsInv
  <1>2. /\ l.mine # generation /\ loads' = loads \ {l}
        /\ UNCHANGED <<engine, raisedEver, hub, wire, store, syncing, pending, generation, landed, early, tainted>>
    BY DEF A!Superseded, A!server, A!ghosts
  <1>3. AlertTypes'
    BY <1>1, <1>2 DEF AlertTypes
  <1>4. ReadsHold'
    BY <1>1, <1>2 DEF ReadsHold
  <1>5. WireHolds'
    BY <1>1, <1>2 DEF WireHolds
  <1>6. QueueHolds'
    BY <1>1, <1>2 DEF QueueHolds
  <1>. QED  BY <1>3, <1>4, <1>5, <1>6 DEF AlertsInv

\* The newest snapshot comes or fails, and what waited is applied.
LEMMA SettlesKeeps ==
  ASSUME A!AlertsAssumption, AlertsInv, NEW l \in loads, A!Landed(l) \/ A!Failed(l)
  PROVE  AlertsInv'
  <1>1. AlertTypes /\ ReadsHold /\ WireHolds /\ QueueHolds
    BY DEF AlertsInv
  <1>2. PICK b \in Books : /\ store' = A!Drained(b)
                           /\ (landed' = "under" /\ ~tainted' /\ hub = "up" =>
                                 ~early /\ Fair(b, pending \o wire, engine))
                           /\ (landed' = "under" => hub = "up")
                           /\ tainted' \in BOOLEAN
    <2>1. CASE A!Landed(l)
      <3>1. l \in Reads /\ l.answer # <<>> /\ l.mine = generation
        BY <1>1, <2>1 DEF A!Landed, A!Settles, AlertTypes
      <3>2. l.answer[1] \in Books
        BY <3>1 DEF Reads
      <3>3. store' = A!Drained(l.answer[1])
        BY <2>1 DEF A!Landed, A!Settles, A!taken
      <3>4. /\ landed' = (IF hub = "up" /\ l.asked = "up" THEN "under" ELSE "before") /\ tainted' = early
        BY <2>1 DEF A!Landed
      <3>5. tainted' \in BOOLEAN
        BY <1>1, <3>4 DEF AlertTypes
      <3>6. landed' = "under" => hub = "up" /\ l.asked = "up"
        BY <3>4
      <3>7. landed' = "under" /\ ~tainted' /\ hub = "up" => ~early /\ Fair(l.answer[1], pending \o wire, engine)
        BY <1>1, <3>1, <3>4, <3>6 DEF QueueHolds
      <3>. QED  BY <3>2, <3>3, <3>5, <3>6, <3>7
    <2>2. CASE A!Failed(l)
      <3>1. store' = A!Drained(store) /\ store \in Books
        BY <1>1, <2>2 DEF A!Failed, A!Settles, AlertTypes
      <3>2. tainted' = (tainted \/ early) /\ landed' = landed
        BY <2>2, Zenon DEF A!Failed
      <3>3. tainted' \in BOOLEAN /\ (~tainted' => ~tainted /\ ~early)
        BY <1>1, <3>2, Zenon DEF AlertTypes
      <3>4. landed' = "under" => hub = "up"
        BY <1>1, <3>2 DEF WireHolds
      <3>5. landed' = "under" /\ ~tainted' /\ hub = "up" => ~early /\ Fair(store, pending \o wire, engine)
        BY <1>1, <3>2, <3>3 DEF QueueHolds
      <3>. QED  BY <3>1, <3>3, <3>4, <3>5
    <2>. QED  BY <2>1, <2>2
  <1>3. /\ l.mine = generation /\ loads' = loads \ {l} /\ syncing' = FALSE /\ pending' = <<>> /\ early' = FALSE
        /\ UNCHANGED <<engine, raisedEver, hub, wire, generation>>
    BY DEF A!Landed, A!Failed, A!Settles, A!server
  <1>4. wire \in Seq(Events) /\ pending \in Seq(Events) /\ engine \in Books
    BY <1>1 DEF AlertTypes
  <1>5. store' \in Books
    BY <1>2, <1>4, DrainedIsBook
  <1>6. AlertTypes'
    <2>1. tainted' \in BOOLEAN /\ early' \in BOOLEAN /\ syncing' \in BOOLEAN
      BY <1>2, <1>3
    <2>2. <<>> \in Seq(Events)
      OBVIOUS
    <2>3. engine' \in Books /\ wire' \in Seq(Events) /\ pending' \in Seq(Events)
      BY <1>3, <1>4, <2>2
    <2>4. hub' \in {"off", "up", "down"} /\ generation' \in 1..MaxLoads /\ loads' \in SUBSET Reads
      BY <1>1, <1>3 DEF AlertTypes
    <2>. QED  BY <1>5, <2>1, <2>3, <2>4 DEF AlertTypes
  <1>7. \A m \in loads' : m \in loads /\ m.mine # generation
    BY <1>1, <1>3 DEF ReadsHold
  <1>8. ReadsHold'
    BY <1>1, <1>3, <1>7 DEF ReadsHold
  <1>9. WireHolds'
    BY <1>1, <1>2, <1>3, <1>7 DEF WireHolds
  <1>10. QueueHolds'
    <2>. SUFFICES ASSUME hub = "up"  PROVE QueueHolds'
      BY <1>3 DEF QueueHolds
    <2>1. pending' \o wire' = wire
      BY <1>3, <1>4
    <2>2. True(wire, engine) /\ Ended(wire) \subseteq raisedEver
      BY <1>1 DEF WireHolds
    <2>3. landed' = "under" /\ ~tainted' => Fair(store', wire, engine)
      <3>. SUFFICES ASSUME landed' = "under", ~tainted'  PROVE Fair(store', wire, engine)
        OBVIOUS
      <3>1. ~early /\ Fair(b, pending \o wire, engine)
        BY <1>2
      <3>2. True(pending \o wire, engine)
        BY <1>1, <3>1 DEF QueueHolds
      <3>. QED  BY <1>2, <1>4, <3>1, <3>2, DrainedIsFair
    <2>. QED  BY <1>3, <1>7, <2>1, <2>2, <2>3 DEF QueueHolds
  <1>. QED  BY <1>6, <1>8, <1>9, <1>10 DEF AlertsInv

\* Every step of the alarms keeps the invariant.
LEMMA AlertsKeep ==
  ASSUME A!AlertsAssumption, AlertsInv, [A!Next]_A!vars
  PROVE  AlertsInv'
  <1>1. CASE \E a \in Alarms : A!EngineRaises(a) \/ A!EngineResolves(a) \/ A!EngineMutes(a) \/ A!Reannounces(a)
    BY <1>1, EngineKeeps
  <1>2. CASE A!EngineDrops
    <2>1. PICK e \in Events : A!Happens(e) /\ e.kind = "dropped" /\ e.total = engine.dropped + 1
      <3>. DEFINE e == [kind |-> "dropped", total |-> engine.dropped + 1]
      <3>1. engine.dropped \in 0..MaxTotal /\ engine.dropped < MaxTotal /\ MaxTotal \in Nat
        BY <1>2 DEF A!EngineDrops, AlertsInv, AlertTypes, Books, A!AlertsAssumption
      <3>2. engine.dropped + 1 \in 0..MaxTotal
        BY <3>1
      <3>3. e \in Events /\ e.kind = "dropped" /\ e.total = engine.dropped + 1
        BY <3>2 DEF Events
      <3>4. A!Happens(e)
        BY <1>2 DEF A!EngineDrops
      <3>. HIDE DEF e
      <3>. QED  BY <3>3, <3>4
    <2>2. raisedEver' = raisedEver
      BY <1>2 DEF A!EngineDrops
    <2>. QED  BY <2>1, <2>2, ServerActs
  <1>3. CASE A!PanelTick
    <2>1. A!Load /\ UNCHANGED <<engine, raisedEver, hub, wire, landed, early, tainted>>
      BY <1>3 DEF A!PanelTick, A!server, A!ghosts
    <2>2. hub' \in {"off", "up", "down"}
      BY <2>1 DEF AlertsInv, AlertTypes
    <2>. QED  BY <2>1, <2>2, FetchKeeps
  <1>4. CASE A!Hears
    BY <1>4, HearsKeeps
  <1>5. CASE \E l \in loads : A!Served(l) \/ A!Landed(l) \/ A!Failed(l) \/ A!Superseded(l)
    BY <1>5, ServedKeeps, SettlesKeeps, SupersededKeeps
  <1>6. CASE A!HubStarts
    BY <1>6, HubStartsKeeps
  <1>7. CASE A!HubDrops
    BY <1>7, HubDropsKeeps
  <1>8. CASE A!HubReturns
    <2>1. A!Load /\ hub = "down" /\ hub' = "up" /\ UNCHANGED <<engine, raisedEver, wire, landed, early, tainted>>
      BY <1>8 DEF A!HubReturns, A!server, A!ghosts
    <2>. QED  BY <2>1, FetchKeeps
  <1>9. CASE UNCHANGED A!vars
    <2>1. UNCHANGED <<engine, raisedEver, hub, wire, store, syncing, pending, generation, loads, landed, early, tainted>>
      BY <1>9 DEF A!vars
    <2>. QED  BY <2>1 DEF AlertsInv, AlertTypes, ReadsHold, WireHolds, QueueHolds
  <1>. QED  BY <1>1, <1>2, <1>3, <1>4, <1>5, <1>6, <1>7, <1>8, <1>9 DEF A!Next

\* The invariant says of each variable what it is.
LEMMA AlertsTypes ==
  ASSUME A!AlertsAssumption, AlertsInv
  PROVE  A!TypeOK
  <1>1. AlertTypes /\ ReadsHold
    BY DEF AlertsInv
  <1>2. ASSUME NEW s \in {engine, store}
        PROVE  /\ A!IsInjective(s.active) /\ A!ToSet(s.active) \subseteq Alarms
               /\ A!IsInjective(s.history) /\ Len(s.history) <= Depth /\ s.muted \subseteq Alarms
    <2>1. s \in Books
      BY <1>1 DEF AlertTypes
    <2>. QED  BY <2>1 DEF Books, Once, A!IsInjective, A!ToSet
  <1>3. engine.dropped \in 0..MaxTotal /\ store.dropped \in 0..MaxTotal
    BY <1>1 DEF AlertTypes, Books
  <1>4. /\ hub \in {"off", "up", "down"} /\ generation \in 1..MaxLoads
        /\ \A l \in loads : l.mine \in 1..generation /\ l.asked \in {"off", "up", "down"}
        /\ (syncing <=> \E l \in loads : l.mine = generation)
    BY <1>1 DEF AlertTypes, ReadsHold, Reads
  <1>. QED  BY <1>2, <1>3, <1>4 DEF A!TypeOK

\* ... and that with nothing on its way the console shows what the server holds.
LEMMA ShowsTheSame ==
  ASSUME A!AlertsAssumption, AlertsInv
  PROVE  A!CaughtUp
  <1>. SUFFICES ASSUME A!Quiet, landed = "under", ~tainted  PROVE A!Same
    BY DEF A!CaughtUp
  <1>1. AlertTypes /\ WireHolds /\ QueueHolds
    BY DEF AlertsInv
  <1>2. hub = "up" /\ wire = <<>> /\ pending = <<>> /\ ~early
    BY <1>1 DEF A!Quiet, WireHolds
  <1>3. pending \o wire = <<>>
    BY <1>2
  <1>4. Fair(store, <<>>, engine) /\ engine \in Books /\ store \in Books
    BY <1>1, <1>2, <1>3 DEF QueueHolds, AlertTypes
  <1>5. /\ In(store.active) = In(engine.active) /\ store.history = engine.history
        /\ store.muted = engine.muted /\ store.dropped = engine.dropped
    BY <1>4, NothingWaits
  <1>6. A!ToSet(store.active) = In(store.active) /\ A!ToSet(engine.active) = In(engine.active)
    BY DEF A!ToSet, In
  <1>. QED  BY <1>5, <1>6 DEF A!Same

\* The invariant, for the whole of what the alarms do.
LEMMA AlertsHold == A!Spec => []AlertsInv
  <1>1. A!AlertsAssumption
    BY PanelsAssumption DEF PanelsAssumption
  <1>2. A!Init => AlertsInv
    BY <1>1, AlertsStart
  <1>3. AlertsInv /\ [A!Next]_(A!vars) => AlertsInv'
    BY <1>1, AlertsKeep
  <1>. QED
    BY <1>2, <1>3, PTL DEF A!Spec

\* Once a snapshot asked for under this connection has landed and nothing more is on its way, the
\* console shows the alarms that stand, their history, what is silenced and what was lost as the
\* server has them, whatever was raised, resolved or silenced meanwhile (alertStore and
\* useHubBridge: an event that meets a snapshot in flight waits for it).  Left out is a snapshot
\* that landed over events queued before an outage, until one is asked for again.
THEOREM TheConsoleCatchesUp == A!Spec => []CaughtUp
  <1>1. AlertsInv => CaughtUp
    <2>1. A!AlertsAssumption
      BY PanelsAssumption DEF PanelsAssumption
    <2>. QED  BY <2>1, AlertsTypes, ShowsTheSame DEF CaughtUp
  <1>. QED
    BY <1>1, AlertsHold, PTL

-----------------------------------------------------------------------------
(* The windows that float.  For any sizes of viewport, floors, snapping      *)
(* distance and arrow step that meet FloatAssumption, any messages and any   *)
(* pulls of the pointer: the boxes stay boxes of whole pixels, and a change  *)
(* of the viewport brings every window back within reach.                    *)

Box == [x : Int, y : Int, w : Int, h : Int]

Window == [id : Nat \ {0}, pane : Messages \cup {"chart"}, box : Box, fixed : BOOLEAN,
           full : BOOLEAN, wasAt : Box \cup {None}]

ZoomOK(z) == /\ z \in [id : {0}, zoomed : BOOLEAN, box : Box \cup {None}, full : BOOLEAN,
                        wasAt : Box \cup {None}]
             /\ z.zoomed => z.box \in Box

Held == [id : Nat, handle : {"bar", "grip"}, from : Box]
Offered == [id : Nat, box : Box]

\* What stands where, and what a drag may rely on: every box is one of whole pixels, and
\* the chart thrown open has one.
WindowTypes ==
    /\ view \in Viewports
    /\ windows \in Seq(Window)
    /\ ZoomOK(zoom)
    /\ grabbed # None => grabbed \in Held
    /\ frame # None => frame \in Offered
    /\ count \in Nat /\ moves \in Nat

-----------------------------------------------------------------------------
(* The boxes.                                                                  *)

\* The standard place is a box.
LEMMA OpeningBoxIsABox ==
  ASSUME NEW v \in Viewports PROVE OpeningBox(v) \in Box
BY FloatAssumption DEF OpeningBox, Box, Larger, Half

\* A window that fills a viewport is in reach of it.
LEMMA FullBoxInReach ==
  ASSUME NEW v \in Viewports
  PROVE  FullBox(v) \in Box /\ InReach(FullBox(v), v)
BY FloatAssumption DEF FullBox, Box, InReach

\* A box wide enough to be held, moved by anything, has its bar in reach.
LEMMA MovedInReach ==
  ASSUME NEW v \in Viewports, NEW b \in Box, NEW d, d[1] \in Int, d[2] \in Int
  PROVE  /\ Moved(b, d, v) \in Box
         /\ b.w >= HeldPx => InReach(Moved(b, d, v), v)
<1> DEFINE across == Docked(b.x + d[1], b.w, v.w)
           down == Docked(b.y + d[2], b.h, v.h)
<1>1. across \in Int /\ down \in Int
  BY FloatAssumption DEF Docked, Box
<1>2. Moved(b, d, v) = [x |-> Clamp(across, HeldPx - b.w, v.w - HeldPx), y |-> Clamp(down, 0, v.h - HeldPx),
                        w |-> b.w, h |-> b.h]
  BY DEF Moved, OnScreen, Box
<1>3. /\ Clamp(across, HeldPx - b.w, v.w - HeldPx) \in Int
      /\ Clamp(down, 0, v.h - HeldPx) \in 0 .. (v.h - HeldPx)
  BY <1>1, FloatAssumption DEF Clamp, Larger, Smaller, Box
<1>4. ASSUME b.w >= HeldPx
      PROVE  Clamp(across, HeldPx - b.w, v.w - HeldPx) \in (HeldPx - b.w) .. (v.w - HeldPx)
  BY <1>1, <1>4, FloatAssumption DEF Clamp, Larger, Smaller, Box
<1> QED
  BY <1>2, <1>3, <1>4, FloatAssumption DEF InReach, Box

\* Sizing keeps a box a box, and never makes it too narrow to be held.
LEMMA SizedIsWide ==
  ASSUME NEW v \in Viewports, NEW b \in Box, NEW d, d[1] \in Int, d[2] \in Int
  PROVE  Sized(b, d, v) \in Box /\ Sized(b, d, v).w >= HeldPx
<1>1. /\ Grown(b.x, b.w + d[1], MinW, v.w) \in Int
      /\ Grown(b.x, b.w + d[1], MinW, v.w) >= MinW - Snap
      /\ Grown(b.y, b.h + d[2], MinH, v.h) \in Int
  BY FloatAssumption DEF Grown, Near, Clamp, Larger, Smaller, Box
<1> QED
  BY <1>1, FloatAssumption DEF Sized, Box

\* What a change of the viewport does to a box brings it back in reach.
LEMMA SettledInReach ==
  ASSUME NEW v \in Viewports, NEW b \in Box
  PROVE  Settled(b, v) \in Box /\ InReach(Settled(b, v), v)
BY SizedIsWide, MovedInReach DEF Settled

LEMMA ApplyIsABox ==
  ASSUME NEW v \in Viewports, NEW b \in Box, NEW d \in Pulls \cup Nudges, NEW handle
  PROVE  Apply(handle, b, d, v) \in Box
<1>1. d[1] \in Int /\ d[2] \in Int
  BY FloatAssumption DEF Nudges
<1> QED
  BY <1>1, SizedIsWide, MovedInReach DEF Apply

-----------------------------------------------------------------------------
(* What the steps do to the stack.                                             *)

\* A window that stands is in the stack, or is the chart thrown open, and has a box.
LEMMA StandingIsThere ==
  ASSUME WindowTypes, NEW id \in Standing
  PROVE  /\ id # 0 => /\ At(id) \in DOMAIN windows /\ Of(id) = windows[At(id)]
                      /\ Of(id) \in Window
         /\ id = 0 => Of(id) = zoom /\ zoom.zoomed
         /\ Of(id).box \in Box
<1>1. \A i \in DOMAIN windows : windows[i] \in Window
  BY DEF WindowTypes
<1>2. CASE id = 0
  <2>1. id \notin Ids
    BY <1>1, <1>2 DEF Ids, Window
  <2>2. zoom.zoomed /\ Of(id) = zoom
    BY <1>2, <2>1 DEF Standing, Of
  <2> QED
    BY <1>2, <2>2 DEF WindowTypes, ZoomOK
<1>3. CASE id # 0
  <2>1. \E i \in DOMAIN windows : windows[i].id = id
    BY <1>3 DEF Standing, Ids
  <2>2. At(id) \in DOMAIN windows
    BY <2>1 DEF At
  <2> QED
    BY <1>1, <1>3, <2>2 DEF Of, Window
<1> QED
  BY <1>2, <1>3

\* What a window of the stack is made of.
LEMMA StackOfWindows ==
  ASSUME WindowTypes, NEW i \in DOMAIN windows
  PROVE  windows[i] \in Window /\ windows[i].id \in Nat /\ windows[i].box \in Box
<1>1. windows[i] \in Window
  BY DEF WindowTypes
<1> QED
  BY <1>1 DEF Window

LEMMA RemovedIsAStack ==
  ASSUME WindowTypes, NEW i \in DOMAIN windows
  PROVE  RemoveAt(windows, i) \in Seq(Window)
<1>1. windows \in Seq(Window) /\ Len(windows) \in Nat /\ i \in 1 .. Len(windows)
  BY LenProperties DEF WindowTypes
<1>2. SubSeq(windows, 1, i - 1) \in Seq(Window)
  BY <1>1, SubSeqProperties
<1>3. SubSeq(windows, i + 1, Len(windows)) \in Seq(Window)
  BY <1>1, SubSeqProperties
<1> QED
  BY <1>2, <1>3, ConcatProperties DEF RemoveAt

LEMMA RaisedIsAStack ==
  ASSUME WindowTypes, NEW i \in DOMAIN windows, NEW w \in Window
  PROVE  Raised(i, w) \in Seq(Window)
BY RemovedIsAStack, AppendProperties DEF Raised

LEMMA TouchKeepsTypes ==
  ASSUME WindowTypes, NEW id \in Standing, NEW w, Touch(id, w),
         id # 0 => w \in Window, id = 0 => ZoomOK(w)
  PROVE  windows' \in Seq(Window) /\ ZoomOK(zoom)'
<1>1. CASE id = 0
  BY <1>1 DEF Touch, WindowTypes, ZoomOK
<1>2. CASE id # 0
  <2>1. At(id) \in DOMAIN windows
    BY <1>2, StandingIsThere
  <2> QED
    BY <1>2, <2>1, RaisedIsAStack DEF Touch, WindowTypes, ZoomOK
<1> QED
  BY <1>1, <1>2

LEMMA WithABox ==
  ASSUME NEW w \in Window, NEW b \in Box
  PROVE  [w EXCEPT !.box = b] \in Window
BY DEF Window

LEMMA PlaceKeepsTypes ==
  ASSUME WindowTypes, NEW id, NEW b \in Box, Place(id, b)
  PROVE  windows' \in Seq(Window) /\ ZoomOK(zoom)'
<1>1. CASE id = 0
  BY <1>1 DEF Place, WindowTypes, ZoomOK
<1>2. CASE id # 0
  <2>1. \A i \in DOMAIN windows : windows[i] \in Window /\ [windows[i] EXCEPT !.box = b] \in Window
    BY WithABox DEF WindowTypes
  <2>2. DOMAIN windows = 1 .. Len(windows) /\ Len(windows) \in Nat
    BY LenProperties DEF WindowTypes
  <2>3. windows' \in [1 .. Len(windows) -> Window]
    BY <1>2, <2>1, <2>2 DEF Place
  <2> QED
    BY <1>2, <2>2, <2>3 DEF Place, WindowTypes, ZoomOK
<1> QED
  BY <1>1, <1>2

\* A window that opens joins the stack.
LEMMA OpensKeepsTypes ==
  ASSUME WindowTypes, NEW pane \in Messages \cup {"chart"}, NEW b \in Box, Opens(pane, b)
  PROVE  windows' \in Seq(Window) /\ count' \in Nat
BY AppendProperties DEF Opens, WindowTypes, Window

-----------------------------------------------------------------------------
(* Types.                                                                      *)

LEMMA StackTypes == WindowTypes /\ Stack => WindowTypes'
<1> SUFFICES ASSUME WindowTypes, Stack PROVE WindowTypes'
  OBVIOUS
<1> USE OpeningBoxIsABox DEF WindowTypes
<1>1. ASSUME NEW m \in Messages, OpenMessage(m) PROVE WindowTypes'
  <2>1. ASSUME NEW i \in DOMAIN windows, windows' = Raised(i, windows[i]), UNCHANGED count
        PROVE  WindowTypes'
    BY <1>1, <2>1, RaisedIsAStack DEF OpenMessage
  <2>2. ASSUME Opens(m, OpeningBox(view)) PROVE WindowTypes'
    BY <1>1, <2>2, OpensKeepsTypes DEF OpenMessage
  <2> QED
    BY <1>1, <2>1, <2>2 DEF OpenMessage
<1>2. ASSUME Toggle PROVE WindowTypes'
  <2>1. ZoomOK(zoom)'
    BY <1>2 DEF Toggle, ZoomOK
  <2> QED
    BY <1>2, <2>1 DEF Toggle
<1>3. ZoomOK(Shut)
  BY DEF Shut, ZoomOK
<1>4. ASSUME Keep PROVE WindowTypes'
  <2>1. Moved(zoom.box, <<0, 0>>, view) \in Box
    <3>1. zoom.box \in Box
      BY <1>4 DEF Keep, ZoomOK
    <3>2. <<0, 0>>[1] \in Int /\ <<0, 0>>[2] \in Int
      OBVIOUS
    <3> QED
      BY <3>1, <3>2, MovedInReach
  <2>2. windows' \in Seq(Window) /\ count' \in Nat
    BY <1>4, <2>1, OpensKeepsTypes DEF Keep
  <2> QED
    BY <1>3, <1>4, <2>2 DEF Keep, Unmounts, ZoomOK
<1>5. ASSUME NEW id \in Standing, Close(id) PROVE WindowTypes'
  <2>1. windows' \in Seq(Window)
    BY <1>5, StandingIsThere, RemovedIsAStack DEF Close
  <2>2. ZoomOK(zoom)'
    BY <1>3, <1>5 DEF Close, ZoomOK
  <2> QED
    BY <1>5, <2>1, <2>2 DEF Close, Unmounts
<1>6. ASSUME EscapeFromZoom \/ EscapeTop PROVE WindowTypes'
  <2>1. CASE EscapeFromZoom
    BY <1>5, <2>1 DEF EscapeFromZoom, Standing
  <2>2. CASE EscapeTop
    <3>1. Len(windows) \in DOMAIN windows
      BY <2>2, LenProperties, EmptySeq DEF EscapeTop
    <3>2. Last(windows).id \in Standing
      BY <3>1 DEF Last, Standing, Ids
    <3> QED
      BY <1>5, <2>2, <3>2 DEF EscapeTop
  <2> QED
    BY <1>6, <2>1, <2>2
<1>7. ASSUME NEW id \in Standing, Swell(id) PROVE WindowTypes'
  <2> DEFINE w == Of(id)
  <2>1. w.box \in Box /\ FullBox(view) \in Box
    BY StandingIsThere, FullBoxInReach
  <2>2. ASSUME w \in Window PROVE PutBack(w) \in Window /\ Filling(w) \in Window
    BY <2>1, <2>2 DEF Window, PutBack, Filling
  <2>3. ASSUME id = 0 PROVE ZoomOK(PutBack(w)) /\ ZoomOK(Filling(w))
    <3>1. w = zoom /\ zoom.zoomed
      BY <2>3, StandingIsThere
    <3> QED
      BY <2>1, <3>1 DEF ZoomOK, PutBack, Filling
  <2>4. Touch(id, IF w.full THEN PutBack(w) ELSE Filling(w))
    BY <1>7 DEF Swell
  <2>5. windows' \in Seq(Window) /\ ZoomOK(zoom)'
    BY <2>2, <2>3, <2>4, StandingIsThere, TouchKeepsTypes
  <2> QED
    BY <1>7, <2>5 DEF Swell
<1>8. ASSUME NEW id \in Standing, Fix(id) PROVE WindowTypes'
  <2> DEFINE w == [Of(id) EXCEPT !.fixed = ~@]
  <2>1. id # 0 /\ w \in Window
    BY <1>8, StandingIsThere DEF Fix, Window
  <2>2. Touch(id, w)
    BY <1>8 DEF Fix
  <2>3. windows' \in Seq(Window) /\ ZoomOK(zoom)'
    BY <2>1, <2>2, TouchKeepsTypes
  <2> QED
    BY <1>8, <2>3 DEF Fix
<1> QED
  BY <1>1, <1>2, <1>4, <1>5, <1>6, <1>7, <1>8 DEF Stack

LEMMA HandlesTypes == WindowTypes /\ Handles => WindowTypes'
<1> SUFFICES ASSUME WindowTypes, Handles PROVE WindowTypes'
  OBVIOUS
<1> USE DEF WindowTypes
<1>1. ASSUME NEW id \in Standing, NEW h \in {"bar", "grip"}, Take(id, h) PROVE WindowTypes'
  <2>1. id # 0 => Of(id) \in Window
    BY StandingIsThere
  <2>2. id = 0 => ZoomOK(Of(id))
    BY StandingIsThere
  <2>3. windows' \in Seq(Window) /\ ZoomOK(zoom)'
    BY <1>1, <2>1, <2>2, TouchKeepsTypes DEF Take
  <2>4. grabbed' \in Held
    <3>1. \A i \in DOMAIN windows : windows[i].id \in Nat
      BY StackOfWindows
    <3>2. id \in Nat
      BY <3>1 DEF Standing, Ids
    <3>3. Of(id).box \in Box
      BY StandingIsThere
    <3> QED
      BY <1>1, <3>2, <3>3 DEF Take, Held
  <2> QED
    BY <1>1, <2>3, <2>4 DEF Take
<1>2. ASSUME NEW id \in Standing, NEW h \in {"bar", "grip"}, NEW d \in Nudges, Nudge(id, h, d)
      PROVE  WindowTypes'
  <2> DEFINE w == [Of(id) EXCEPT !.box = Apply(h, @, d, view)]
  <2>1. Apply(h, Of(id).box, d, view) \in Box
    BY StandingIsThere, ApplyIsABox
  <2>2. id # 0 => w \in Window
    BY <2>1, StandingIsThere, WithABox
  <2>3. id = 0 => ZoomOK(w)
    BY <2>1, StandingIsThere DEF ZoomOK
  <2>4. Touch(id, w)
    BY <1>2 DEF Nudge
  <2>5. windows' \in Seq(Window) /\ ZoomOK(zoom)'
    BY <2>2, <2>3, <2>4, TouchKeepsTypes
  <2> QED
    BY <1>2, <2>5 DEF Nudge
<1>3. ASSUME NEW d \in Pulls, Drag(d) PROVE WindowTypes'
  <2>1. grabbed \in Held
    BY <1>3 DEF Drag
  <2>2. Apply(grabbed.handle, grabbed.from, d, view) \in Box
    BY <2>1, ApplyIsABox DEF Held
  <2>3. frame' \in Offered
    BY <1>3, <2>1, <2>2 DEF Drag, Held, Offered
  <2> QED
    BY <1>3, <2>3 DEF Drag, ZoomOK
<1>4. ASSUME Drop PROVE WindowTypes'
  BY <1>4 DEF Drop, ZoomOK
<1>5. ASSUME Frame PROVE WindowTypes'
  <2>1. frame.box \in Box
    BY <1>5 DEF Frame, Offered
  <2>2. windows' \in Seq(Window) /\ ZoomOK(zoom)'
    BY <1>5, <2>1, PlaceKeepsTypes DEF Frame
  <2> QED
    BY <1>5, <2>2 DEF Frame
<1> QED
  BY <1>1, <1>2, <1>3, <1>4, <1>5 DEF Handles

-----------------------------------------------------------------------------
(* A change of the viewport.                                                   *)

\* What follows a viewport is a window with a box in reach of it.
LEMMA FollowInReach ==
  ASSUME NEW v \in Viewports, NEW w, w.box \in Box
  PROVE  /\ w \in Window => Follow(w, v) \in Window /\ InReach(Follow(w, v).box, v)
         /\ ZoomOK(w) => ZoomOK(Follow(w, v)) /\ InReach(Follow(w, v).box, v)
<1> DEFINE b == IF w.full THEN FullBox(v) ELSE Settled(w.box, v)
<1>1. b \in Box /\ InReach(b, v)
  BY FullBoxInReach, SettledInReach
<1>2. Follow(w, v) = [w EXCEPT !.box = b]
  BY DEF Follow
<1> HIDE DEF b
<1>3. ASSUME w \in Window PROVE Follow(w, v) \in Window /\ Follow(w, v).box = b
  BY <1>1, <1>2, <1>3, WithABox DEF Window
<1>4. ASSUME ZoomOK(w) PROVE ZoomOK(Follow(w, v)) /\ Follow(w, v).box = b
  BY <1>1, <1>2, <1>4 DEF ZoomOK
<1> QED
  BY <1>1, <1>3, <1>4

LEMMA ResizeReaches ==
  ASSUME WindowTypes, NEW v \in Viewports, Resize(v)
  PROVE  WindowTypes' /\ AllInReach(windows', zoom', view')
<1> USE DEF WindowTypes
<1>1. DOMAIN windows = 1 .. Len(windows) /\ Len(windows) \in Nat
  BY LenProperties
<1>2. \A i \in 1 .. Len(windows) :
         Follow(windows[i], v) \in Window /\ InReach(Follow(windows[i], v).box, v)
  <2> SUFFICES ASSUME NEW i \in 1 .. Len(windows)
               PROVE  Follow(windows[i], v) \in Window /\ InReach(Follow(windows[i], v).box, v)
    OBVIOUS
  <2>1. windows[i] \in Window /\ windows[i].box \in Box
    BY <1>1, StackOfWindows
  <2> QED
    BY <2>1, FollowInReach
<1>3. windows' = [i \in 1 .. Len(windows) |-> Follow(windows[i], v)]
  BY <1>1 DEF Resize
<1>4. windows' \in Seq(Window) /\ \A i \in DOMAIN windows' : InReach(windows'[i].box, v)
  BY <1>1, <1>2, <1>3
<1>5. ZoomOK(zoom)' /\ (zoom'.zoomed => InReach(zoom'.box, v))
  <2>1. CASE zoom.zoomed
    <3>1. zoom.box \in Box
      BY <2>1 DEF ZoomOK
    <3> QED
      BY <2>1, <3>1, FollowInReach DEF Resize, ZoomOK
  <2>2. CASE ~zoom.zoomed
    BY <2>2 DEF Resize, ZoomOK
  <2> QED
    BY <2>1, <2>2
<1>6. view' = v
  BY DEF Resize
<1> QED
  BY <1>4, <1>5, <1>6 DEF Resize, AllInReach

-----------------------------------------------------------------------------

\* Whatever the reader opens, presses, drags and types, every box stays a box of whole
\* pixels, and the chart thrown open and every window of the stack have one.
THEOREM FloatTypes == Spec => []WindowTypes
<1>1. Init => WindowTypes
  BY DEF Init, WindowTypes, ZoomOK
<1>2. WindowTypes /\ [Next]_vars => WindowTypes'
  <2> SUFFICES ASSUME WindowTypes, [Next]_vars PROVE WindowTypes'
    OBVIOUS
  <2>1. CASE UNCHANGED vars
    BY <2>1 DEF vars, WindowTypes, ZoomOK
  <2> QED
    BY <2>1, StackTypes, HandlesTypes, ResizeReaches DEF Next
<1> QED
  BY <1>1, <1>2, PTL DEF Spec

\* Only a resize changes the viewport, so each change of it leaves every window in reach.
THEOREM ResizeBringsBackHolds == Spec => ResizeBringsBack
<1>1. WindowTypes /\ [Next]_vars => [view' # view => AllInReach(windows', zoom', view')]_vars
  <2> SUFFICES ASSUME WindowTypes, Next, view' # view PROVE AllInReach(windows', zoom', view')
    BY DEF vars
  <2>1. ASSUME Stack PROVE view' = view
    BY <2>1 DEF Stack, OpenMessage, Toggle, Keep, Close, EscapeFromZoom, EscapeTop, Swell, Fix
  <2>2. ASSUME Handles PROVE view' = view
    BY <2>2 DEF Handles, Take, Nudge, Drag, Drop, Frame
  <2> QED
    BY <2>1, <2>2, ResizeReaches DEF Next
<1> QED
  BY <1>1, FloatTypes, PTL DEF Spec, ResizeBringsBack
=============================================================================
