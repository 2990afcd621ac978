---------------------------- MODULE LinkSupervisor ----------------------------
(***************************************************************************)
(* BrokerLinkSupervisor: the loop that looks at the broker link every      *)
(* second and climbs a ladder of waits while a wanted link is down, with   *)
(* the three other hands on it: Try now, Stop trying, and a rule or a flow *)
(* that is saved and wants a link.                                         *)
(*                                                                         *)
(* The connection service is seen as the supervisor sees it: its state,    *)
(* its failure, the count and the endpoint of the readers' dials, and one  *)
(* reader's dial and one of the supervisor's contending for its gate.  A   *)
(* dial's steps inside the gate, which BrokerDial tells apart, are two     *)
(* here: it begins, and it ends.                                           *)
(*                                                                         *)
(* Time is a countdown to the next attempt, in seconds.                    *)
(***************************************************************************)
EXTENDS Naturals, Sequences

CONSTANTS
  Brokers, Reasons, None,
  DeclinedReasons,  \* Declines: reasons a redial would not change
  Backoff,          \* seconds to wait before each successive retry
  ConnectOnStart,   \* BrokerLinkOptions.ConnectOnStart
  MaxAttempts       \* bound: the attempt count saturates here

\* None stands for null: it is no broker, no reason, no count and no name.
ASSUME SupervisorAssumption ==
  /\ None \notin Brokers /\ None \notin Reasons /\ None \notin Nat
  /\ None \notin {"reader", "sup", "startup", "redial", "retry", "wanted"}
  /\ DeclinedReasons \subseteq Reasons
  /\ Backoff \in Seq(Nat \ {0}) /\ Len(Backoff) > 0
  /\ ConnectOnStart \in BOOLEAN
  /\ MaxAttempts \in Nat \ {0}

VARIABLES
  \* ConnectionService and the manager, as seen from outside
  state,       \* CurrentState
  why,         \* CurrentFailure's reason
  at,          \* the broker of the link, or of the failure
  late,        \* the reason of a drop that is not explained yet
  saved,       \* the saved settings
  dial,        \* the reader's dial and the supervisor's
  gate,        \* whose dial is inside the gate
  attempt,     \* whose dial is the registered attempt
  hangup,      \* a hang-up waits for the gate
  lastReader,  \* LastReaderEndpoint
  unseen,      \* ReaderDials # _readerDialsSeen
  \* BrokerLinkSupervisor
  enabled,     \* _enabled
  wanted,      \* _wanted
  ladder,      \* _active, _dueAt, _rung, _attempts, _gaveUp, _declined, _since
  trying,      \* who holds _dialling
  loop,        \* where ExecuteAsync stands
  retry,       \* where a RetryNowAsync request stands
  want         \* where a WantedAsync request stands

doorVars == <<state, why, at, late, saved, dial, gate, attempt, hangup, lastReader, unseen>>
supVars  == <<enabled, wanted, ladder, trying, loop, retry, want>>
vars     == <<doorVars, supVars>>
-----------------------------------------------------------------------------
States  == {"Disconnected", "Connecting", "Connected", "Faulted"}
Dialers == {"reader", "sup"}

NoDial == [stage |-> "idle", to |-> None, cancelled |-> FALSE, was |-> "Disconnected", why |-> None]

Move(d, stage) == [dial EXCEPT ![d].stage = stage]
Ended(d)       == [dial EXCEPT ![d] = NoDial]

\* A dial leaves the service: the gate, and _attempt if it is still its own.
Released(d) == gate' = None /\ attempt' = IF attempt = d THEN None ELSE attempt

\* due: seconds left to the next attempt; since: an outage has been seen.
Rested == [active |-> FALSE, due |-> None, rung |-> 0, attempts |-> 0, gaveUp |-> FALSE,
           declined |-> FALSE, since |-> FALSE]

\* The schedule alone stood down: the outage goes on.
StoodDown(l) == [l EXCEPT !.active = FALSE, !.due = None, !.rung = 0]

Revived(l) == [l EXCEPT !.gaveUp = FALSE, !.declined = FALSE]

\* NextRung: the wait at this rung of the ladder, which flattens at the last.
NextRung(l) ==
  LET r == IF l.rung < Len(Backoff) THEN l.rung + 1 ELSE l.rung
  IN  [l EXCEPT !.due = Backoff[r], !.rung = r]

CountAttempt(l) == [l EXCEPT !.attempts = IF @ < MaxAttempts THEN @ + 1 ELSE @]
-----------------------------------------------------------------------------
(* The connection service.                                                  *)

\* A person presses Connect.
ReaderAsks(b) ==
  /\ dial["reader"].stage = "idle"
  /\ dial' = [dial EXCEPT !["reader"] = [NoDial EXCEPT !.stage = "asked", !.to = b]]
  /\ lastReader' = b /\ unseen' = TRUE
  /\ UNCHANGED <<state, why, at, late, saved, gate, attempt, hangup, supVars>>

\* ConnectAsync up to the gate: a repeat returns at once, a reader's dial calls
\* off the one that stood there, and the supervisor's does not.
Register(d) ==
  /\ dial[d].stage = "asked"
  /\ ~(state = "Connected" /\ at = dial[d].to)
  /\ attempt' = d
  /\ dial' = IF d = "reader" /\ attempt = "sup"
               THEN [Move(d, "gate") EXCEPT !["sup"].cancelled = TRUE]
               ELSE Move(d, "gate")
  /\ UNCHANGED <<state, why, at, late, saved, gate, hangup, lastReader, unseen>>

Skips(d) ==
  /\ dial[d].stage = "asked"
  /\ state = "Connected" /\ at = dial[d].to
  /\ dial' = Ended(d)
  /\ UNCHANGED <<state, why, at, late, saved, gate, attempt, hangup, lastReader, unseen>>

\* Through the gates: the old link goes down and the state is Connecting.
DialBegins(d) ==
  /\ dial[d].stage = "gate" /\ ~dial[d].cancelled /\ gate = None
  /\ gate' = d
  /\ dial' = [dial EXCEPT ![d].stage = "dialing",
                          ![d].was = IF state = "Connected" THEN "Faulted" ELSE state,
                          ![d].why = why]
  /\ state' = "Connecting" /\ why' = None /\ at' = dial[d].to
  /\ UNCHANGED <<late, saved, attempt, hangup, lastReader, unseen>>

\* The old link's DISCONNECT cannot be sent: the dial leaves as it is.
DialThrows(d) ==
  /\ dial[d].stage = "gate" /\ ~dial[d].cancelled /\ gate = None
  /\ state = "Connected"
  /\ state' = "Connecting" /\ why' = None /\ at' = dial[d].to
  /\ dial' = Ended(d) /\ Released(d)
  /\ UNCHANGED <<late, saved, hangup, lastReader, unseen>>

\* The CONNECT is accepted, and what it was made with is saved (or fails to be).
DialWorks(d) ==
  /\ dial[d].stage = "dialing"
  /\ state' = "Connected"
  /\ saved' \in {dial[d].to, saved}
  /\ dial' = Ended(d) /\ Released(d)
  /\ UNCHANGED <<why, at, late, hangup, lastReader, unseen>>

DialFails(d, r) ==
  /\ dial[d].stage = "dialing" /\ ~dial[d].cancelled
  /\ state' = "Faulted" /\ why' = r
  /\ dial' = Ended(d) /\ Released(d)
  /\ UNCHANGED <<at, late, saved, hangup, lastReader, unseen>>

\* Called off: the link is left as it was found, or was never touched.
DialCalledOff(d) ==
  /\ dial[d].cancelled
  /\ \/ /\ dial[d].stage = "gate" /\ gate = None
        /\ UNCHANGED <<state, why>>
     \/ /\ dial[d].stage = "dialing"
        /\ state' = IF dial[d].was = "Connecting" THEN "Disconnected" ELSE dial[d].was
        /\ why' = IF dial[d].was = "Faulted" THEN dial[d].why ELSE None
  /\ dial' = Ended(d) /\ Released(d)
  /\ UNCHANGED <<at, late, saved, hangup, lastReader, unseen>>

CallOff == IF attempt = None THEN dial ELSE [dial EXCEPT ![attempt].cancelled = TRUE]

\* A person aborts the dial in flight.
AbortAttempt ==
  /\ attempt # None
  /\ dial' = CallOff
  /\ UNCHANGED <<state, why, at, late, saved, gate, attempt, hangup, lastReader, unseen, supVars>>

\* DisconnectAsync: the registered dial is called off, and the gate is awaited.
HangUp ==
  /\ ~hangup
  /\ hangup' = TRUE
  /\ dial' = CallOff
  /\ UNCHANGED <<state, why, at, late, saved, gate, attempt, lastReader, unseen, supVars>>

HangUpLands ==
  /\ hangup /\ gate = None
  /\ hangup' = FALSE
  /\ state' = "Disconnected" /\ why' = None
  /\ UNCHANGED <<at, late, saved, dial, gate, attempt, lastReader, unseen, supVars>>

\* ... or the request goes away while it waits.
HangUpGone ==
  /\ hangup
  /\ hangup' = FALSE
  /\ UNCHANGED <<state, why, at, late, saved, dial, gate, attempt, lastReader, unseen, supVars>>

LinkDrops(r) ==
  /\ state = "Connected" /\ late = None
  /\ state' = "Faulted" /\ why' = None /\ late' = r
  /\ UNCHANGED <<at, saved, dial, gate, attempt, hangup, lastReader, unseen, supVars>>

\* The callback that says why, which a faulted link takes whoever faulted it.
DropExplained ==
  /\ late # None
  /\ late' = None
  /\ why' = IF state = "Faulted" THEN late ELSE why
  /\ UNCHANGED <<state, at, saved, dial, gate, attempt, hangup, lastReader, unseen, supVars>>

DialStep(d) ==
  \/ Register(d) \/ Skips(d) \/ DialBegins(d) \/ DialThrows(d) \/ DialWorks(d)
  \/ \E r \in Reasons : DialFails(d, r)
  \/ DialCalledOff(d)

ReaderDials == DialStep("reader") /\ UNCHANGED supVars
-----------------------------------------------------------------------------
(* AttemptAsync, for whichever caller holds _dialling.                      *)

\* The attempt is over, and its caller goes on (one whose request went away may
\* be thrown past the rest of it).
TryEnds ==
  /\ trying' = None
  /\ loop' = CASE trying = "startup" -> "poll"
               [] trying = "redial"  -> "after"
               [] OTHER              -> loop
  /\ retry' \in IF trying # "retry" THEN {retry}
               ELSE IF retry = "gone" THEN {"idle", "after"} ELSE {"after"}
  /\ want' = IF trying = "wanted" THEN "idle" ELSE want

\* Mutant: with nothing saved, _dialling is not released.
ReadSettingsHolding ==
  /\ trying # None /\ dial["sup"].stage = "idle" /\ saved # None
  /\ IF trying = "redial" /\ state = "Disconnected"
       THEN TryEnds /\ UNCHANGED <<dial, ladder>>
       ELSE /\ dial' = [dial EXCEPT !["sup"] = [NoDial EXCEPT !.stage = "asked", !.to = saved]]
            /\ ladder' = CountAttempt(ladder)
            /\ UNCHANGED <<trying, loop, retry, want>>
  /\ UNCHANGED <<state, why, at, late, saved, gate, attempt, hangup, lastReader, unseen,
                 enabled, wanted>>

\* The settings are read; the loop's redial asks again whether somebody hung up.
ReadSettings ==
  /\ trying # None /\ dial["sup"].stage = "idle"
  /\ IF saved = None \/ (trying = "redial" /\ state = "Disconnected")
       THEN TryEnds /\ UNCHANGED <<dial, ladder>>
       ELSE /\ dial' = [dial EXCEPT !["sup"] = [NoDial EXCEPT !.stage = "asked", !.to = saved]]
            /\ ladder' = CountAttempt(ladder)
            /\ UNCHANGED <<trying, loop, retry, want>>
  /\ UNCHANGED <<state, why, at, late, saved, gate, attempt, hangup, lastReader, unseen,
                 enabled, wanted>>

SupervisorDials ==
  /\ DialStep("sup")
  /\ IF dial'["sup"].stage = "idle" THEN TryEnds ELSE UNCHANGED <<trying, loop, retry, want>>
  /\ UNCHANGED <<enabled, wanted, ladder>>

\* The request a Try now or a save came with goes away: it leaves at the gate, or
\* its dial is called off, and nothing after it is done.  (Left at the gate, its
\* attempt stays registered; to call off what is not running is to do nothing.)
CallerGone ==
  /\ trying \in {"retry", "wanted"} /\ retry # "gone"
  /\ \/ /\ dial["sup"].stage = "gate"
        /\ dial' = Ended("sup")
        /\ attempt' = IF attempt = "sup" THEN None ELSE attempt
        /\ trying' = None
        /\ retry' = IF trying = "retry" THEN "idle" ELSE retry
        /\ want' = IF trying = "wanted" THEN "idle" ELSE want
     \/ /\ dial["sup"].stage = "dialing"
        /\ dial' = [dial EXCEPT !["sup"].cancelled = TRUE]
        /\ retry' = IF trying = "retry" THEN "gone" ELSE retry
        /\ UNCHANGED <<attempt, trying, want>>
  /\ UNCHANGED <<state, why, at, late, saved, gate, hangup, lastReader, unseen, enabled,
                 wanted, ladder, loop>>
-----------------------------------------------------------------------------
(* StartUpAsync and SuperviseAsync: the loop.                               *)

\* Whether an enabled rule or flow could be read to want a link is left open.
StartUp ==
  /\ loop = "start"
  /\ \/ loop' = "poll" /\ UNCHANGED <<wanted, trying>>
     \/ /\ ConnectOnStart
        /\ wanted' = TRUE
        /\ IF trying = None THEN trying' = "startup" /\ loop' = "trying"
                            ELSE loop' = "poll" /\ UNCHANGED trying
  /\ UNCHANGED <<doorVars, enabled, ladder, retry, want>>

\* A reader's dial at the broker of an outage being worked on is a hurry-up, if the
\* failure is there to tell it by; any other is taken for the reader leaving.
AtTheOutage == ladder.since /\ state # "Connected" /\ why # None /\ lastReader = at
ReaderLeft  == unseen /\ ~AtTheOutage

Ladder == IF ReaderLeft THEN Rested ELSE ladder
Wanted == wanted /\ ~ReaderLeft

\* An outage begins the first time a wanted link is seen down.
Outage == [Ladder EXCEPT !.since = @ \/ Wanted]

Looks == loop = "poll" /\ unseen' = FALSE
LooksOnly ==
  UNCHANGED <<state, why, at, late, saved, dial, gate, attempt, hangup, lastReader, enabled,
              retry, want>>

\* Mutant: a dial in flight is the end of the outage.
PollForgets ==
  /\ Looks
  /\ state = "Connecting" /\ Ladder.since
  /\ ladder' = Rested /\ wanted' = Wanted
  /\ UNCHANGED <<loop, trying>> /\ LooksOnly

\* A dial in flight is a moment of an outage, not the end of one.
PollSeesDial ==
  /\ Looks
  /\ state = "Connecting" /\ Ladder.since
  /\ ladder' = Ladder /\ wanted' = Wanted
  /\ UNCHANGED <<loop, trying>> /\ LooksOnly

PollRests ==
  /\ Looks
  /\ state # "Faulted" /\ ~(state = "Connecting" /\ Ladder.since)
  /\ ladder' = Rested
  /\ wanted' = (Wanted \/ state = "Connected")
  /\ UNCHANGED <<loop, trying>> /\ LooksOnly

\* The option, the wanting, the giving up: the outage is somebody else's.
HandsOff == ~enabled \/ ~Wanted \/ Outage.gaveUp

\* Mutant: standing down is resting, as if the outage were over.
PollRestsInstead ==
  /\ Looks
  /\ state = "Faulted" /\ HandsOff
  /\ ladder' = [Rested EXCEPT !.since = Outage.since] /\ wanted' = Wanted
  /\ UNCHANGED <<loop, trying>> /\ LooksOnly

PollStandsDown ==
  /\ Looks
  /\ state = "Faulted" /\ HandsOff
  /\ ladder' = StoodDown(Outage) /\ wanted' = Wanted
  /\ UNCHANGED <<loop, trying>> /\ LooksOnly

Hopeless == Outage.declined \/ why \in DeclinedReasons

PollDeclines ==
  /\ Looks
  /\ state = "Faulted" /\ ~HandsOff /\ Hopeless
  /\ ladder' = [StoodDown(Outage) EXCEPT !.declined = TRUE] /\ wanted' = Wanted
  /\ UNCHANGED <<loop, trying>> /\ LooksOnly

PollSchedules ==
  /\ Looks
  /\ state = "Faulted" /\ ~HandsOff /\ ~Hopeless /\ Outage.due = None
  /\ ladder' = NextRung([Outage EXCEPT !.active = TRUE, !.attempts = 0]) /\ wanted' = Wanted
  /\ UNCHANGED <<loop, trying>> /\ LooksOnly

\* Mutant: every look schedules the rung again.
PollClimbsLater ==
  /\ Looks
  /\ state = "Faulted" /\ ~HandsOff /\ ~Hopeless /\ Outage.due # None
  /\ ladder' = NextRung(Outage) /\ wanted' = Wanted
  /\ UNCHANGED <<loop, trying>> /\ LooksOnly

\* Due, or not yet.  A redial that finds somebody dialling is over at once.
PollClimbs ==
  /\ Looks
  /\ state = "Faulted" /\ ~HandsOff /\ ~Hopeless /\ Outage.due # None
  /\ ladder' = [Outage EXCEPT !.active = TRUE] /\ wanted' = Wanted
  /\ IF Outage.due > 0 THEN UNCHANGED <<loop, trying>>
     ELSE IF trying = None THEN loop' = "trying" /\ trying' = "redial"
     ELSE loop' = "after" /\ UNCHANGED trying
  /\ LooksOnly

Poll ==
  \/ PollSeesDial \/ PollRests \/ PollStandsDown \/ PollDeclines \/ PollSchedules \/ PollClimbs

\* After a redial, whatever became of it, the next rung is scheduled.
AfterRedial ==
  /\ loop = "after"
  /\ loop' = "poll"
  /\ ladder' = NextRung(ladder)
  /\ UNCHANGED <<doorVars, enabled, wanted, trying, retry, want>>

\* A second passes.
Tick ==
  /\ ladder.due \in Nat \ {0}
  /\ ladder' = [ladder EXCEPT !.due = @ - 1]
  /\ UNCHANGED <<doorVars, enabled, wanted, trying, loop, retry, want>>
-----------------------------------------------------------------------------
(* The other hands on it.                                                   *)

\* Mutant: Try now dials beside whatever is dialling.
RetryNowBeside ==
  /\ retry = "idle"
  /\ ladder' = [Revived(ladder) EXCEPT !.rung = 0, !.due = None]
  /\ trying' = "retry" /\ retry' = "trying"
  /\ UNCHANGED <<doorVars, enabled, wanted, loop, want>>

\* Try now: a fresh go, from the bottom rung.
RetryNow ==
  /\ retry = "idle"
  /\ ladder' = [Revived(ladder) EXCEPT !.rung = 0, !.due = None]
  /\ IF trying = None THEN trying' = "retry" /\ retry' = "trying"
                      ELSE retry' = "after" /\ UNCHANGED trying
  /\ UNCHANGED <<doorVars, enabled, wanted, loop, want>>

AfterRetry ==
  /\ retry = "after"
  /\ retry' = "idle"
  /\ IF enabled /\ state = "Faulted"
       THEN wanted' = TRUE /\ ladder' = NextRung([ladder EXCEPT !.active = TRUE])
       ELSE UNCHANGED <<wanted, ladder>>
  /\ UNCHANGED <<doorVars, enabled, trying, loop, want>>

\* A rule or a flow is saved and wants a link.
WantLink ==
  /\ want = "idle"
  /\ ConnectOnStart /\ state \notin {"Connected", "Connecting"}
  /\ wanted' = TRUE
  /\ ladder' = Revived(ladder)
  /\ IF trying = None THEN trying' = "wanted" /\ want' = "trying" ELSE UNCHANGED <<trying, want>>
  /\ UNCHANGED <<doorVars, enabled, loop, retry>>

\* Stop trying: this outage, and the dial in flight with it.
Cancel ==
  /\ ladder' = [StoodDown(ladder) EXCEPT !.gaveUp = TRUE]
  /\ dial' = CallOff
  /\ UNCHANGED <<state, why, at, late, saved, gate, attempt, hangup, lastReader, unseen,
                 enabled, wanted, trying, loop, retry, want>>

SetEnabled(on) ==
  /\ enabled' = on
  /\ ladder' = IF on THEN Revived(ladder) ELSE StoodDown(ladder)
  /\ UNCHANGED <<doorVars, wanted, trying, loop, retry, want>>
-----------------------------------------------------------------------------
Init ==
  /\ state = "Disconnected" /\ why = None /\ at = None /\ late = None
  /\ saved \in Brokers \union {None}
  /\ dial = [d \in Dialers |-> NoDial]
  /\ gate = None /\ attempt = None /\ hangup = FALSE
  /\ lastReader = None /\ unseen = FALSE
  /\ enabled \in BOOLEAN /\ wanted = FALSE /\ ladder = Rested
  /\ trying = None /\ loop = "start" /\ retry = "idle" /\ want = "idle"

\* What the code does of itself.
System ==
  \/ ReaderDials \/ HangUpLands \/ DropExplained
  \/ ReadSettings \/ SupervisorDials
  \/ StartUp \/ Poll \/ AfterRedial \/ Tick \/ AfterRetry

People ==
  \/ \E b \in Brokers : ReaderAsks(b)
  \/ AbortAttempt \/ HangUp \/ HangUpGone \/ Cancel \/ RetryNow
  \/ \E on \in BOOLEAN : SetEnabled(on)

World ==
  \/ \E r \in Reasons : LinkDrops(r)
  \/ WantLink \/ CallerGone

Next == System \/ People \/ World

Fairness ==
  /\ WF_vars(ReaderDials) /\ WF_vars(HangUpLands) /\ WF_vars(DropExplained)
  /\ WF_vars(ReadSettings) /\ SF_vars(SupervisorDials)
  /\ WF_vars(StartUp) /\ WF_vars(Poll) /\ WF_vars(AfterRedial) /\ WF_vars(Tick)
  /\ WF_vars(AfterRetry)

Spec == Init /\ [][Next]_vars /\ Fairness
-----------------------------------------------------------------------------
(* What holds.                                                              *)

DialRecords ==
  [stage : {"idle", "asked", "gate", "dialing"}, to : Brokers \union {None},
   cancelled : BOOLEAN, was : States \ {"Connected"}, why : Reasons \union {None}]

Ladders ==
  [active : BOOLEAN, due : Nat \union {None}, rung : 0..Len(Backoff),
   attempts : 0..MaxAttempts, gaveUp : BOOLEAN, declined : BOOLEAN, since : BOOLEAN]

\* Every variable has the type its field has in the source.
TypeOK ==
  /\ state \in States /\ why \in Reasons \union {None} /\ late \in Reasons \union {None}
  /\ at \in Brokers \union {None} /\ saved \in Brokers \union {None}
  /\ dial \in [Dialers -> DialRecords]
  /\ gate \in Dialers \union {None} /\ attempt \in Dialers \union {None} /\ hangup \in BOOLEAN
  /\ lastReader \in Brokers \union {None} /\ unseen \in BOOLEAN
  /\ enabled \in BOOLEAN /\ wanted \in BOOLEAN /\ ladder \in Ladders
  /\ trying \in {None, "startup", "redial", "retry", "wanted"}
  /\ loop \in {"start", "poll", "trying", "after"}
  /\ retry \in {"idle", "trying", "gone", "after"} /\ want \in {"idle", "trying"}

\* Whoever holds _dialling is waiting for its own attempt, and nobody else of the
\* supervisor is: a Try now and a save never dial beside the loop.
OneTry ==
  /\ loop = "trying" <=> trying \in {"startup", "redial"}
  /\ retry \in {"trying", "gone"} <=> trying = "retry"
  /\ want = "trying" <=> trying = "wanted"
  /\ dial["sup"].stage # "idle" => trying # None

\* The reader pressed Connect since the last look: for another broker than the one the
\* link is about, or at a moment when nothing says what failed, a dial being in flight or a
\* drop not told of yet.  The second may be the very broker that is down (see DialIsAMoment).
WentElsewhere == unseen /\ lastReader # at
NothingToGoBy == unseen /\ why = None

\* An outage is over only when the link is up, or somebody closed it, or the reader went to
\* another broker: not because the supervisor is dialling, nor because a reader's dial at the
\* broker that is down has failed, nor because a schedule stood down.  Let through is the
\* reader's dial of which a look cannot tell where it goes.
OutageRemembered ==
  [][ladder.since /\ ~ladder'.since =>
       \/ state \in {"Connected", "Disconnected"}
       \/ WentElsewhere \/ NothingToGoBy]_vars

\* Stop trying holds for as long as the outage does: only a person, a save, the end of the
\* outage, or a reader's dial that is taken for leaving - before the outage was seen, any -
\* takes it back.
StopHolds ==
  [][ladder.gaveUp /\ ~ladder'.gaveUp =>
       \/ RetryNow \/ WantLink \/ SetEnabled(TRUE)
       \/ WentElsewhere \/ NothingToGoBy \/ (unseen /\ ~ladder.since)
       \/ state # "Faulted"]_vars

\* _dialling is always released: no try leaves the supervisor unable to dial.
TriesEnd == []<>(trying = None)

\* A wanted link that stays down, for a reason worth a redial, is redialled again
\* and again while the option is on and nobody else has a hand on it.
Climbable ==
  /\ state = "Faulted" \/ dial["sup"].stage # "idle"
  /\ enabled /\ wanted /\ saved # None
  /\ ~ladder.gaveUp /\ ~ladder.declined /\ why \notin DeclinedReasons
  /\ dial["reader"].stage = "idle" /\ ~ReaderLeft /\ ~hangup
  /\ retry = "idle" /\ want = "idle"

KeepsClimbing == <>[]Climbable => []<>(dial["sup"].stage = "dialing")
-----------------------------------------------------------------------------
(* What the comments and the tests say, and the code does not keep.         *)

\* "A dial in flight is not the end of an outage, it is a moment in one": a Connect pressed
\* on the broker that is down, where there is no other to go to, leaves the outage what it was.
DialIsAMoment ==
  [][ladder.since /\ state = "Connecting" /\ Brokers = {at} => ladder'.since]_vars
=============================================================================
