------------------------------ MODULE MCServer ------------------------------
(***************************************************************************)
(* The server's callers, for TLC: the subscriber under the console and the *)
(* rules (Subscriptions), and the dials of two consoles (BrokerDial) on a  *)
(* host that does not redial.  They share nothing here: which one moves is *)
(* the part chosen at the start.                                           *)
(***************************************************************************)
EXTENDS Subscriptions, TLC

CONSTANTS
  Wide, Mid, Narrow,
  Readers, Sup, Brokers, Reasons, Lost, Closed,
  MaxLate,  \* bound: callbacks MQTTnet has yet to run
  Parts

VARIABLES
  connected, offline, failure, attempted, link, certs, mgrGate, late, callback,
  dial, dialGate, attempt, remembered, saved, hangup,
  part

D == INSTANCE BrokerDial

ASSUME ServerAssumption == D!DialAssumption

dials == <<connected, offline, failure, attempted, link, certs, mgrGate, late, callback,
           dial, dialGate, attempt, remembered, saved, hangup>>

\* '#', 'plant/#' and 'plant/oven': each covers the ones under it.
Chain == {<<Wide, Mid>>, <<Wide, Narrow>>, <<Mid, Narrow>>}
Pair  == {<<Wide, Narrow>>}
-----------------------------------------------------------------------------
Idle == \A c \in Callers : call[c].stage = "idle"

\* One call at a time, each answered, and a link that drops between them: what a
\* test of the subscriber can arrange.
OneAtATime ==
  \/ \E c \in Callers : CallStep(c)
  \/ Idle /\ (Starts \/ RulesChange \/ LinkDrops)
  \/ DropTold
  \/ told /\ LinkUp

\* The console and the rules at once, on links a reader dials: the restore of a
\* redial, which is one more call for the console, is left to the other part, and
\* so is the filter between the two.
WithoutMid ==
  /\ Mid \notin wanted'
  /\ \A c \in Callers : \A b \in call'[c].subs : Mid \notin Named(b.reqs)

TwoOwners ==
  /\ \/ \E c \in Callers : CallStep(c) \/ NoAnswer(c)
     \/ Starts \/ RulesChange
     \/ LinkDrops \/ DropTold
     \/ LinkUp /\ call'["restore"] = NoCall
  /\ WithoutMid

\* People alone, on a host that does not redial.
PeopleOnly == (D!DialSystem \/ D!Environment) /\ Cardinality(late') <= MaxLate

MCInit == Init /\ D!DialInit /\ part \in Parts

MCNext ==
  /\ UNCHANGED part
  /\ \/ part = "sequential" /\ OneAtATime /\ UNCHANGED dials
     \/ part = "concurrent" /\ TwoOwners /\ UNCHANGED dials
     \/ part = "people" /\ PeopleOnly /\ UNCHANGED vars

MCSpec == MCInit /\ [][MCNext]_<<vars, dials, part>>

\* What moves.  Without a restore nothing reads what the console held at the drop.
View ==
  CASE part = "sequential" -> <<part, vars>>
    [] part = "concurrent" ->
         <<part, owners, quiet, atQos, consoleQos, call, wanted, refused, up, told, broker>>
    [] part = "people" -> <<part, dials>>
-----------------------------------------------------------------------------
\* With one call at a time a filter somebody holds arrives, by its own standing
\* order or by one that covers it (MqttnetSubscriber's _quiet and resubscription).
HeldIsHeard == part # "people" => TypeOK /\ (part = "sequential" => HearsWhatItHolds)

\* With one call at a time no filter stands recorded under another that stands
\* (Sift and QuietenCoveredAsync).
NoneStandsUnderAnother == part = "sequential" => NoKnownDoubling

\* Two consoles pressing Connect at once leave no dial running that nobody can call
\* off (ConnectionService's _attempt).
Abortable == part = "people" => D!Abortable
==============================================================================
