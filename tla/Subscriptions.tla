---------------------------- MODULE Subscriptions ----------------------------
(***************************************************************************)
(* MqttnetSubscriber: one client's filters, held by several owners at once *)
(* (the console, the alert rules, the flows), and FilterSync, the pump     *)
(* that keeps an engine's own filters up.                                  *)
(*                                                                         *)
(* A filter that a wider one covers is held and not asked for (_quiet): a  *)
(* broker sends one copy of a message per filter that matches it.  What is *)
(* wanted, what is recorded and what the broker sends are three things     *)
(* here, and the properties relate them.                                   *)
(*                                                                         *)
(* A call runs from await to await in one step.  A packet reaches the      *)
(* broker as it is sent, in the order the packets are sent (one connection *)
(* keeps it); its answer is waited for.  What the broker holds is external.*)
(* Grant times, the replay window and the deadlines are left out: that a   *)
(* record was written again is kept, as a compare-and-swap sees it.        *)
(***************************************************************************)
EXTENDS Naturals, FiniteSets

CONSTANTS
  Filters,
  Covers,      \* TopicFilterCover.Covers, as a set of <<wide, narrow>>
  MaxQos,      \* bound: the levels a reader asks for
  RuleQos,     \* AlertEngine.RuleQos
  Refusable,   \* filters this broker may refuse
  None

Qos == 0..MaxQos

ASSUME SubscriptionAssumption ==
  /\ Covers \subseteq Filters \X Filters
  /\ \A f \in Filters : <<f, f>> \notin Covers
  /\ \A f, g, h \in Filters : <<f, g>> \in Covers /\ <<g, h>> \in Covers => <<f, h>> \in Covers
  /\ MaxQos \in Nat /\ RuleQos \in Qos
  /\ Refusable \subseteq Filters /\ None \notin Filters /\ None \notin Qos

VARIABLES
  \* MqttnetSubscriber
  owners,      \* _filters: who holds each filter; {} is no record
  quiet,       \* _quiet
  atQos,       \* _qosAtBroker, absent read as 0
  consoleQos,  \* _consoleQos, absent read as 0
  heldAtDrop,  \* _heldAtDrop
  call,        \* the calls in progress
  \* FilterSync, for the rules
  wanted,      \* the filters the rules want
  refused,     \* _refused
  \* the client and the broker
  up,          \* IsConnected
  told,        \* OnDisconnectedAsync has run for the last link
  broker       \* the standing orders of this client, at their QoS

vars == <<owners, quiet, atQos, consoleQos, heldAtDrop, call, wanted, refused, up, told, broker>>
-----------------------------------------------------------------------------
Owners  == {"console", "rules"}
Callers == {"console", "rules", "restore"}  \* a request, the pump, the supervisor's redial
OwnerOf(c) == IF c = "rules" THEN "rules" ELSE "console"

Requests == [filter : Filters, qos : Qos]
Named(reqs) == {r.filter : r \in reqs}

\* subs, unsubs: what the call has still to ask for and to let go of; by: for
\* whom it is asking; granted, no: the broker's answer; wide, narrow: what is
\* being quietened; filter, was, fresh: what is being let go of, as it was read.
NoCall == [stage |-> "idle", subs |-> {}, unsubs |-> {}, by |-> {}, granted |-> {}, no |-> {},
           wide |-> None, narrow |-> {}, filter |-> None, was |-> {}, fresh |-> FALSE]

Held == {f \in Filters : owners[f] # {}}

\* A record that was written again is not the one a caller read.
Rewritten(calls, fs) ==
  [c \in Callers |-> [calls[c] EXCEPT !.fresh = @ /\ calls[c].filter \notin fs]]

\* CoveredBy: the filters that are up and bring in what this one would.
Covering(r) ==
  {g \in Held \ (quiet \union {r.filter}) : atQos[g] >= r.qos /\ <<g, r.filter>> \in Covers}

\* Sift: what is not worth asking for, because of what is up or of the batch.
\* (Width looks at a wider filter first, but for one with both a '+' and a '#'
\* under a plain '#': that order is left out.)
Sifted(reqs) ==
  {r \in reqs : \/ Covering(r) # {}
                \/ \E s \in reqs : s.qos >= r.qos /\ <<s.filter, r.filter>> \in Covers}

\* For every filter of the batch, at the QoS it was asked for.
AtQosOf(q, reqs) == [f \in Filters |-> IF \E r \in reqs : r.filter = f
                                        THEN (CHOOSE r \in reqs : r.filter = f).qos ELSE q[f]]
-----------------------------------------------------------------------------
(* SubscribeAsync.                                                          *)

\* The batch is sifted, what is covered is recorded, and the rest is asked.
Ask(c) ==
  /\ call[c].stage = "next" /\ up
  /\ \E b \in call[c].subs :
       LET silent == Sifted(b.reqs)
           asked  == b.reqs \ silent
           rest   == Rewritten([call EXCEPT ![c].subs = @ \ {b}], Named(silent))
       IN /\ owners' = [f \in Filters |-> IF f \in Named(silent) THEN owners[f] \union b.by
                                                                 ELSE owners[f]]
          /\ quiet' = quiet \union Named(silent)
          /\ consoleQos' = IF "console" \in b.by THEN AtQosOf(consoleQos, silent) ELSE consoleQos
          /\ \E no \in SUBSET {r \in asked : r.filter \in Refusable} :
               /\ broker' = AtQosOf(broker, asked \ no)
               /\ call' = IF asked = {} THEN rest
                          ELSE [rest EXCEPT ![c].stage = "suback", ![c].by = b.by,
                                            ![c].granted = asked \ no, ![c].no = Named(no)]
  /\ UNCHANGED <<atQos, heldAtDrop, wanted, refused, up, told>>

\* Granted: the claim, the levels, and a standing order of its own.
RecordsThen(c, stage) ==
  \E r \in call[c].granted :
    /\ \A s \in call[c].granted : <<s.filter, r.filter>> \notin Covers
    /\ owners' = [owners EXCEPT ![r.filter] = @ \union call[c].by]
    /\ consoleQos' = IF "console" \in call[c].by THEN AtQosOf(consoleQos, {r}) ELSE consoleQos
    /\ quiet' = quiet \ {r.filter}
    /\ atQos' = [atQos EXCEPT ![r.filter] = r.qos]
    /\ call' = Rewritten([call EXCEPT ![c].stage = stage, ![c].granted = @ \ {r},
                                      ![c].wide = r.filter, ![c].narrow = Held], {r.filter})
    /\ UNCHANGED <<heldAtDrop, wanted, refused, up, told, broker>>

\* Mutant: the narrow filters that were up first are left up.
RecordAlone(c) == call[c].stage \in {"suback", "recording"} /\ RecordsThen(c, "recording")

\* The SUBACK: a granted filter is recorded, widest first (Width), and then what it
\* covers is quietened.
Record(c) == call[c].stage \in {"suback", "recording"} /\ RecordsThen(c, "quieten")

\* Everything granted is recorded; a refusal is then thrown.
AskEnds(c) ==
  /\ call[c].stage \in {"suback", "recording"} /\ call[c].granted = {}
  /\ IF call[c].no = {}
       THEN call' = [call EXCEPT ![c].stage = "next", ![c].by = {}] /\ UNCHANGED refused
       ELSE /\ call' = [call EXCEPT ![c] = NoCall]
            /\ refused' = IF c = "rules" THEN refused \union call[c].no ELSE refused
  /\ UNCHANGED <<owners, quiet, atQos, consoleQos, heldAtDrop, wanted, up, told, broker>>

Quietens(c, n) ==
  /\ n \in call[c].narrow \ (quiet \union {call[c].wide})
  /\ atQos[call[c].wide] >= atQos[n] /\ <<call[c].wide, n>> \in Covers

QuietensTo(c, level) ==
  /\ call[c].stage = "quieten"
  /\ \E n \in Filters :
       /\ Quietens(c, n)
       /\ quiet' = quiet \union {n}
       /\ atQos' = [atQos EXCEPT ![n] = level]
       /\ broker' = [broker EXCEPT ![n] = None]
       /\ call' = [call EXCEPT ![c].stage = "quietack", ![c].narrow = @ \ {n}]
  /\ UNCHANGED <<owners, consoleQos, heldAtDrop, wanted, refused, up, told>>

\* Quiet first, then the UNSUBSCRIBE.
Quieten(c) == QuietensTo(c, 0)

\* Answered or not: the worst of it is a duplicate.
Quietened(c) ==
  /\ \/ /\ call[c].stage = "quietack"
        /\ call' = [call EXCEPT ![c].stage = "quieten"]
     \/ /\ call[c].stage = "quieten"
        /\ \A n \in Filters : ~Quietens(c, n)
        /\ call' = [call EXCEPT ![c].stage = "recording", ![c].wide = None, ![c].narrow = {}]
  /\ UNCHANGED <<owners, quiet, atQos, consoleQos, heldAtDrop, wanted, refused, up, told, broker>>
-----------------------------------------------------------------------------
(* UnsubscribeAsync.                                                        *)

\* The record is read.  A claim that is not there is let go of already.
Read(c, f) ==
  IF OwnerOf(c) \in owners[f]
    THEN [call[c] EXCEPT !.stage = "release", !.filter = f, !.was = owners[f],
                         !.unsubs = @ \ {f}, !.fresh = TRUE]
    ELSE [call[c] EXCEPT !.stage = "next", !.filter = None, !.was = {},
                         !.unsubs = @ \ {f}, !.fresh = FALSE]

LetGo(c) ==
  /\ call[c].stage = "next" /\ call[c].subs = {} /\ up
  /\ \E f \in call[c].unsubs : call' = [call EXCEPT ![c] = Read(c, f)]
  /\ UNCHANGED <<owners, quiet, atQos, consoleQos, heldAtDrop, wanted, refused, up, told, broker>>

Done(c) == [call[c] EXCEPT !.stage = "next", !.filter = None, !.was = {}, !.fresh = FALSE]

\* Somebody else is still watching: the claim goes, if the record is the one read.
Release(c) ==
  LET f == call[c].filter
      left == call[c].was \ {OwnerOf(c)}
  IN /\ call[c].stage = "release" /\ left # {}
     /\ IF call[c].fresh
          THEN /\ owners' = [owners EXCEPT ![f] = left]
               /\ call' = Rewritten([call EXCEPT ![c] = Done(c)], {f})
          ELSE call' = [call EXCEPT ![c] = Read(c, f)] /\ UNCHANGED owners
     /\ UNCHANGED <<quiet, atQos, consoleQos, heldAtDrop, wanted, refused, up, told, broker>>

\* The last claim on a quiet filter: there is no standing order to take down.
ReleaseQuiet(c) ==
  LET f == call[c].filter
  IN /\ call[c].stage = "release" /\ call[c].was = {OwnerOf(c)} /\ f \in quiet
     /\ quiet' = quiet \ {f}
     /\ owners' = IF call[c].fresh THEN [owners EXCEPT ![f] = {}] ELSE owners
     /\ call' = Rewritten([call EXCEPT ![c] = Done(c)], IF call[c].fresh THEN {f} ELSE {})
     /\ UNCHANGED <<atQos, consoleQos, heldAtDrop, wanted, refused, up, told, broker>>

\* The last claim: the broker is told first.
Unsubscribe(c) ==
  LET f == call[c].filter
  IN /\ call[c].stage = "release" /\ call[c].was = {OwnerOf(c)} /\ f \notin quiet /\ up
     /\ broker' = [broker EXCEPT ![f] = None]
     /\ call' = [call EXCEPT ![c].stage = "unsuback"]
     /\ UNCHANGED <<owners, quiet, atQos, consoleQos, heldAtDrop, wanted, refused, up, told>>

\* CoveredBy, with the record of the filter gone.
Uncovered(own, f) ==
  {g \in quiet : own[g] # {} /\ \A h \in Filters \ (quiet \union {g}) :
     own[h] # {} /\ <<h, g>> \in Covers => (IF h = f THEN 0 ELSE atQos[h]) < consoleQos[g]}

\* What the filter covered is asked for, owner by owner, at the QoS the console
\* asked (ResubscribeUncoveredAsync).
Resubscribes(c, own, orphans) ==
  LET f == call[c].filter
      batch(o) == [by |-> o, reqs |-> {[filter |-> g, qos |-> consoleQos[g]] :
                                       g \in {h \in orphans : own[h] = o}}]
      after == [Done(c) EXCEPT !.subs = {batch(own[g]) : g \in orphans}]
  IN /\ owners' = own
     /\ atQos' = [atQos EXCEPT ![f] = 0]
     /\ quiet' = quiet \ orphans
     /\ call' = Rewritten([call EXCEPT ![c] = after], IF own # owners THEN {f} ELSE {})
     /\ UNCHANGED <<consoleQos, heldAtDrop, wanted, refused, up, told, broker>>

\* Mutants: the record removed whoever wrote it since; nobody looks underneath.
UnsubscribedRegardless(c) ==
  LET own == [owners EXCEPT ![call[c].filter] = {}]
  IN call[c].stage = "unsuback" /\ Resubscribes(c, own, Uncovered(own, call[c].filter))

UnsubscribedAlone(c) ==
  /\ call[c].stage = "unsuback"
  /\ Resubscribes(c, IF call[c].fresh THEN [owners EXCEPT ![call[c].filter] = {}] ELSE owners, {})

\* The record goes if it is the one read.
Unsubscribed(c) ==
  LET own == IF call[c].fresh THEN [owners EXCEPT ![call[c].filter] = {}] ELSE owners
  IN call[c].stage = "unsuback" /\ Resubscribes(c, own, Uncovered(own, call[c].filter))
-----------------------------------------------------------------------------
(* Who calls.                                                               *)

Start(c, subs, unsubs) ==
  call' = [call EXCEPT ![c] = [NoCall EXCEPT !.stage = "next", !.subs = subs, !.unsubs = unsubs]]

ConsoleAsks ==
  /\ call["console"].stage = "idle" /\ up
  /\ \E r \in Requests : Start("console", {[by |-> {"console"}, reqs |-> {r}]}, {})
  /\ UNCHANGED <<owners, quiet, atQos, consoleQos, heldAtDrop, wanted, refused, up, told, broker>>

ConsoleLetsGo ==
  /\ call["console"].stage = "idle" /\ up
  /\ \E f \in Held : Start("console", {}, {f})
  /\ UNCHANGED <<owners, quiet, atQos, consoleQos, heldAtDrop, wanted, refused, up, told, broker>>

\* SyncAsync: one SUBSCRIBE for what is missing, then what is no longer wanted.
Sync ==
  LET mine    == {f \in Filters : "rules" \in owners[f]}
      missing == wanted \ (mine \union refused)
      gone    == mine \ wanted
  IN /\ call["rules"].stage = "idle" /\ up
     /\ missing \union gone # {}
     /\ Start("rules", IF missing = {} THEN {}
                       ELSE {[by |-> {"rules"}, reqs |-> [filter : missing, qos : {RuleQos}]]},
              gone)
     /\ UNCHANGED <<owners, quiet, atQos, consoleQos, heldAtDrop, wanted, refused, up, told, broker>>

\* A rule is saved: Changed().
RulesChange ==
  /\ wanted' \in SUBSET Filters /\ wanted' # wanted
  /\ refused' = {}
  /\ UNCHANGED <<owners, quiet, atQos, consoleQos, heldAtDrop, call, up, told, broker>>

\* Nothing is left of it, or there is no client to ask.
CallEnds(c) ==
  /\ \/ /\ call[c].stage = "next"
        /\ (~up \/ (call[c].subs = {} /\ call[c].unsubs = {}))
     \/ /\ call[c].stage = "release" /\ ~up
        /\ call[c].was = {OwnerOf(c)} /\ call[c].filter \notin quiet
  /\ call' = [call EXCEPT ![c] = NoCall]
  /\ UNCHANGED <<owners, quiet, atQos, consoleQos, heldAtDrop, wanted, refused, up, told, broker>>

\* The broker does not answer in time, the link went, or the caller gave up (which
\* alone ends the wait of a quietening): what the broker was told, it may have done.
NoAnswer(c) ==
  /\ call[c].stage \in {"suback", "unsuback", "quietack"}
  /\ call' = [call EXCEPT ![c] = NoCall]
  /\ UNCHANGED <<owners, quiet, atQos, consoleQos, heldAtDrop, wanted, refused, up, told, broker>>
-----------------------------------------------------------------------------
(* The link.                                                                *)

LinkDrops ==
  /\ up /\ told
  /\ up' = FALSE /\ told' = FALSE
  /\ broker' = [f \in Filters |-> None]
  /\ UNCHANGED <<owners, quiet, atQos, consoleQos, heldAtDrop, call, wanted, refused>>

\* OnDisconnectedAsync, on MQTTnet's own time.
DropTold ==
  /\ ~told
  /\ told' = TRUE
  /\ heldAtDrop' = {[filter |-> f, qos |-> consoleQos[f]] :
                    f \in {g \in Filters : "console" \in owners[g]}}
  /\ owners' = [f \in Filters |-> {}]
  /\ quiet' = {}
  /\ atQos' = [f \in Filters |-> 0] /\ consoleQos' = [f \in Filters |-> 0]
  /\ call' = Rewritten(call, Filters)
  /\ UNCHANGED <<wanted, refused, up, broker>>

\* The link is up again.  After the supervisor's redial the console's filters are
\* restored (RestoreConsoleFiltersAsync); after a reader's own dial they are not.
LinkUp ==
  /\ ~up
  /\ up' = TRUE /\ refused' = {}
  /\ \/ /\ call["restore"].stage = "idle" /\ heldAtDrop # {}
        /\ Start("restore", {[by |-> {"console"}, reqs |-> heldAtDrop]}, {})
        /\ heldAtDrop' = {}
     \/ UNCHANGED <<call, heldAtDrop>>
  /\ UNCHANGED <<owners, quiet, atQos, consoleQos, wanted, told, broker>>
-----------------------------------------------------------------------------
Init ==
  /\ owners = [f \in Filters |-> {}] /\ quiet = {}
  /\ atQos = [f \in Filters |-> 0] /\ consoleQos = [f \in Filters |-> 0]
  /\ heldAtDrop = {} /\ call = [c \in Callers |-> NoCall]
  /\ wanted = {} /\ refused = {}
  /\ up = TRUE /\ told = TRUE /\ broker = [f \in Filters |-> None]

CallStep(c) ==
  \/ Ask(c) \/ Record(c) \/ AskEnds(c) \/ Quieten(c) \/ Quietened(c)
  \/ LetGo(c) \/ Release(c) \/ ReleaseQuiet(c) \/ Unsubscribe(c) \/ Unsubscribed(c)
  \/ CallEnds(c)

Starts == ConsoleAsks \/ ConsoleLetsGo \/ Sync
Link   == LinkDrops \/ DropTold \/ LinkUp

Next ==
  \/ \E c \in Callers : CallStep(c) \/ NoAnswer(c)
  \/ Starts \/ RulesChange \/ Link

Spec == Init /\ [][Next]_vars
-----------------------------------------------------------------------------
(* Properties.                                                              *)

Stages == {"idle", "next", "suback", "recording", "quieten", "quietack", "release", "unsuback"}

CallRecords ==
  [stage : Stages, subs : SUBSET [by : SUBSET Owners, reqs : SUBSET Requests],
   unsubs : SUBSET Filters, by : SUBSET Owners, granted : SUBSET Requests, no : SUBSET Filters,
   wide : Filters \union {None}, narrow : SUBSET Filters, filter : Filters \union {None},
   was : SUBSET Owners, fresh : BOOLEAN]

\* The fields of the subscriber and of the pump hold what their types say
\* (MqttnetSubscriber._filters, _quiet, _qosAtBroker; FilterSync._refused).
TypeOK ==
  /\ owners \in [Filters -> SUBSET Owners] /\ quiet \subseteq Filters
  /\ atQos \in [Filters -> Qos] /\ consoleQos \in [Filters -> Qos]
  /\ heldAtDrop \subseteq Requests
  /\ DOMAIN call = Callers /\ \A c \in Callers : call[c] \in CallRecords
  /\ wanted \subseteq Filters /\ refused \subseteq Filters
  /\ up \in BOOLEAN /\ told \in BOOLEAN
  /\ broker \in [Filters -> Qos \union {None}]

\* Nobody is asking, and the last drop is booked: what is recorded is meant.
Settled == up /\ told /\ \A c \in Callers : call[c].stage = "idle"

Sends(f) == broker[f] # None
Brings(g, f) == Sends(g) /\ (g = f \/ <<g, f>> \in Covers)

\* A filter somebody holds arrives: it has a standing order of its own, or one
\* that covers it has (what _quiet and ResubscribeUncoveredAsync are for).
HearsWhatItHolds == Settled => \A f \in Held : \E g \in Filters : Brings(g, f)

\* No message is sent twice for two filters that one standing order would serve
\* (Sift and QuietenCoveredAsync).
NoDoubling ==
  Settled => \A c \in Covers : Sends(c[1]) /\ Sends(c[2]) => broker[c[1]] < broker[c[2]]

\* No filter is recorded as standing under another one that is, whichever of the
\* two was asked for first (Sift and QuietenCoveredAsync): where a message does
\* come twice, the narrow filter is one that is taken for quiet.
NoKnownDoubling ==
  Settled => \A c \in Covers : {c[1], c[2]} \subseteq Held \ quiet => atQos[c[1]] < atQos[c[2]]

\* An owner's claim on a filter is lost to that owner's own letting go of it, or
\* to a drop of the link: never to what another owner does at the same time (the
\* compare-and-swap of UnsubscribeAsync).
ClaimsAreKept ==
  [][\A f \in Filters, o \in Owners :
       o \in owners[f] /\ o \notin owners'[f] =>
         \/ ~told /\ told'
         \/ \E c \in Callers : /\ OwnerOf(c) = o /\ call[c].filter = f
                               /\ call[c].stage \in {"release", "unsuback"}]_vars
=============================================================================
