------------------------ MODULE LinkSupervisorProofs ------------------------
(***************************************************************************)
(* Proofs about LinkSupervisor, for any brokers, reasons and ladder of     *)
(* waits: its types, that only one try is ever under way, that an outage   *)
(* is remembered, and that Stop trying holds.                              *)
(***************************************************************************)
EXTENDS LinkSupervisor, TLAPS

\* The inductive invariant: who holds _dialling and whose dial it is are the same.
IInv == TypeOK /\ OneTry
-----------------------------------------------------------------------------
(* What the operators on a ladder and on a dial keep.                       *)

\* The ladder at rest.
LEMMA RestedType == Rested \in Ladders
BY SupervisorAssumption DEF Rested, Ladders

\* A ladder that stood down is a ladder, of the same outage, given up on as it was.
LEMMA StoodDownKept ==
  ASSUME NEW l \in Ladders
  PROVE  /\ StoodDown(l) \in Ladders
         /\ StoodDown(l).since = l.since /\ StoodDown(l).gaveUp = l.gaveUp
<1> DEFINE m == [l EXCEPT !.active = FALSE]
           n == [m EXCEPT !.due = None]
           o == [n EXCEPT !.rung = 0]
<1>1. m \in Ladders /\ m.since = l.since /\ m.gaveUp = l.gaveUp
  BY DEF Ladders
<1>2. n \in Ladders /\ n.since = l.since /\ n.gaveUp = l.gaveUp
  <2> HIDE DEF m
  <2> QED BY <1>1 DEF Ladders
<1>3. 0 \in 0..Len(Backoff)
  BY SupervisorAssumption
<1>4. o \in Ladders /\ o.since = l.since /\ o.gaveUp = l.gaveUp
  <2> HIDE DEF n
  <2> QED BY <1>2, <1>3 DEF Ladders
<1>5. StoodDown(l) = o
  BY DEF StoodDown
<1> QED BY <1>4, <1>5

\* A ladder that is revived is a ladder, of the same outage.
LEMMA RevivedKept ==
  ASSUME NEW l \in Ladders
  PROVE  Revived(l) \in Ladders /\ Revived(l).since = l.since
<1> DEFINE m == [l EXCEPT !.gaveUp = FALSE]
           n == [m EXCEPT !.declined = FALSE]
<1>1. m \in Ladders /\ m.since = l.since
  BY DEF Ladders
<1>2. n \in Ladders /\ n.since = l.since
  <2> HIDE DEF m
  <2> QED BY <1>1 DEF Ladders
<1>3. Revived(l) = n
  BY DEF Revived
<1> QED BY <1>2, <1>3

\* A ladder with one more attempt is a ladder, the same but for the count.
LEMMA CountAttemptKept ==
  ASSUME NEW l \in Ladders
  PROVE  /\ CountAttempt(l) \in Ladders
         /\ CountAttempt(l).since = l.since /\ CountAttempt(l).gaveUp = l.gaveUp
<1>1. (IF l.attempts < MaxAttempts THEN l.attempts + 1 ELSE l.attempts) \in 0..MaxAttempts
  BY SupervisorAssumption DEF Ladders
<1> QED BY <1>1 DEF CountAttempt, Ladders

\* The next rung is on the ladder, and its wait is one of the ladder's.
LEMMA NextRungKept ==
  ASSUME NEW l \in Ladders
  PROVE  /\ NextRung(l) \in Ladders /\ NextRung(l).due \in Nat \ {0}
         /\ NextRung(l).since = l.since /\ NextRung(l).gaveUp = l.gaveUp
<1> DEFINE r == IF l.rung < Len(Backoff) THEN l.rung + 1 ELSE l.rung
<1>1. r \in 1..Len(Backoff)
  BY SupervisorAssumption DEF Ladders
<1>2. Backoff[r] \in Nat \ {0}
  BY <1>1, SupervisorAssumption
<1> HIDE DEF r
<1> DEFINE m == [l EXCEPT !.due = Backoff[r]]
           n == [m EXCEPT !.rung = r]
<1>3. m \in Ladders /\ m.due = Backoff[r] /\ m.since = l.since /\ m.gaveUp = l.gaveUp
  BY <1>2 DEF Ladders
<1>4. r \in 0..Len(Backoff)
  BY <1>1, SupervisorAssumption
<1>5. n \in Ladders /\ n.due = Backoff[r] /\ n.since = l.since /\ n.gaveUp = l.gaveUp
  <2> HIDE DEF m
  <2> QED BY <1>3, <1>4 DEF Ladders
<1>6. NextRung(l) = n
  BY DEF NextRung, r
<1> QED BY <1>2, <1>5, <1>6

\* A ladder that is started afresh is one, of the same outage.
LEMMA StartedKept ==
  ASSUME NEW l \in Ladders
  PROVE  /\ NextRung([l EXCEPT !.active = TRUE, !.attempts = 0]) \in Ladders
         /\ NextRung([l EXCEPT !.active = TRUE, !.attempts = 0]).since = l.since
<1> DEFINE m == [l EXCEPT !.active = TRUE]
           n == [m EXCEPT !.attempts = 0]
<1>1. m \in Ladders /\ m.since = l.since
  BY DEF Ladders
<1>2. 0 \in 0..MaxAttempts
  BY SupervisorAssumption
<1>3. n \in Ladders /\ n.since = l.since
  <2> HIDE DEF m
  <2> QED BY <1>1, <1>2 DEF Ladders
<1>4. n = [l EXCEPT !.active = TRUE, !.attempts = 0]
  OBVIOUS
<1> HIDE DEF n
<1>5. NextRung(n) \in Ladders /\ NextRung(n).since = l.since
  BY <1>3, NextRungKept
<1> QED BY <1>4, <1>5

\* The dial that is none.
LEMMA NoDialType == NoDial \in DialRecords /\ NoDial.stage = "idle"
BY SupervisorAssumption DEF NoDial, DialRecords, States

\* A dial that is just asked for.
LEMMA AskedType ==
  ASSUME NEW b \in Brokers
  PROVE  /\ [NoDial EXCEPT !.stage = "asked", !.to = b] \in DialRecords
         /\ [NoDial EXCEPT !.stage = "asked", !.to = b].stage = "asked"
<1> DEFINE m == [NoDial EXCEPT !.stage = "asked"]
           n == [m EXCEPT !.to = b]
<1>1. m \in DialRecords /\ m.stage = "asked"
  BY NoDialType DEF DialRecords
<1>2. n \in DialRecords /\ n.stage = "asked"
  <2> HIDE DEF m
  <2> QED BY <1>1 DEF DialRecords
<1>3. n = [NoDial EXCEPT !.stage = "asked", !.to = b]
  OBVIOUS
<1> QED BY <1>2, <1>3

\* Calling off the registered dial, or none, moves no dial to another stage.
LEMMA CallOffKept ==
  ASSUME TypeOK
  PROVE  /\ CallOff \in [Dialers -> DialRecords]
         /\ \A d \in Dialers : CallOff[d].stage = dial[d].stage
BY SupervisorAssumption DEF CallOff, TypeOK, DialRecords, Dialers

\* What a look takes the ladder for is a ladder; its outage and its giving up are
\* those of the ladder unless the reader left.
LEMMA LookedAt ==
  ASSUME TypeOK
  PROVE  /\ Ladder \in Ladders /\ Outage \in Ladders /\ Wanted \in BOOLEAN
         /\ ~ReaderLeft => Ladder = ladder
         /\ Ladder.since => Outage.since
         /\ Outage.gaveUp = Ladder.gaveUp
<1>1. ReaderLeft \in BOOLEAN
  BY DEF TypeOK, ReaderLeft, AtTheOutage
<1>2. Wanted \in BOOLEAN
  BY <1>1 DEF TypeOK, Wanted
<1>3. Ladder \in Ladders /\ (~ReaderLeft => Ladder = ladder)
  BY RestedType DEF TypeOK, Ladder
<1> QED BY <1>2, <1>3 DEF Outage, Ladders
-----------------------------------------------------------------------------
(* Types.                                                                   *)

\* A dial that only moves to another stage keeps its type and its other fields.
LEMMA MoveKept ==
  ASSUME TypeOK, NEW d \in Dialers, NEW s \in {"idle", "asked", "gate", "dialing"}
  PROVE  /\ Move(d, s) \in [Dialers -> DialRecords] /\ Move(d, s)[d].stage = s
         /\ \A e \in Dialers : e # d => Move(d, s)[e] = dial[e]
BY DEF Move, TypeOK, DialRecords

\* A dial that is over leaves the other as it is.
LEMMA EndedKept ==
  ASSUME TypeOK, NEW d \in Dialers
  PROVE  /\ Ended(d) \in [Dialers -> DialRecords] /\ Ended(d)[d].stage = "idle"
         /\ \A e \in Dialers : e # d => Ended(d)[e] = dial[e]
BY NoDialType DEF Ended, TypeOK

\* What a dial leaves has its type.
LEMMA ReleasedType ==
  ASSUME TypeOK, NEW d \in Dialers, Released(d)
  PROVE  gate' = None /\ attempt' \in Dialers \union {None}
BY DEF Released, TypeOK

\* The part of TypeOK that is the connection service's.
DoorTypes ==
  /\ state \in States /\ why \in Reasons \union {None} /\ late \in Reasons \union {None}
  /\ at \in Brokers \union {None} /\ saved \in Brokers \union {None}
  /\ dial \in [Dialers -> DialRecords]
  /\ gate \in Dialers \union {None} /\ attempt \in Dialers \union {None} /\ hangup \in BOOLEAN
  /\ lastReader \in Brokers \union {None} /\ unseen \in BOOLEAN

\* Any step of a dial keeps the service's types and the other dial's stage, and is
\* the step of a dial that is under way.
LEMMA DialStepKept ==
  ASSUME TypeOK, NEW d \in Dialers, DialStep(d)
  PROVE  /\ DoorTypes'
         /\ dial[d].stage # "idle"
         /\ \A e \in Dialers : e # d => dial'[e].stage = dial[e].stage
<1> USE DEF States
<1>0. DoorTypes /\ dial[d] \in DialRecords /\ dial[d].to \in Brokers \union {None}
  BY DEF TypeOK, DoorTypes, DialRecords
<1>1. CASE Register(d)
  <2> DEFINE m == Move(d, "gate")
             n == [m EXCEPT !["sup"].cancelled = TRUE]
  <2>1. /\ m \in [Dialers -> DialRecords]
        /\ \A e \in Dialers : e # d => m[e] = dial[e]
    BY MoveKept
  <2>2. /\ n \in [Dialers -> DialRecords]
        /\ \A e \in Dialers : n[e].stage = m[e].stage
    <3> HIDE DEF m
    <3> QED BY <2>1 DEF DialRecords, Dialers
  <2>3. dial' \in {m, n} /\ attempt' = d
    BY <1>1 DEF Register
  <2>4. /\ dial' \in [Dialers -> DialRecords]
        /\ \A e \in Dialers : e # d => dial'[e].stage = dial[e].stage
    BY <2>1, <2>2, <2>3
  <2> QED BY <1>1, <2>3, <2>4, <1>0 DEF Register, DoorTypes
<1>2. CASE Skips(d)
  BY <1>2, <1>0, EndedKept DEF Skips, DoorTypes
<1>3. CASE DialBegins(d)
  <2> DEFINE w == IF state = "Connected" THEN "Faulted" ELSE state
             m == [dial EXCEPT ![d].stage = "dialing"]
             n == [m EXCEPT ![d].was = w]
             o == [n EXCEPT ![d].why = why]
  <2>1. w \in States \ {"Connected"}
    BY <1>0 DEF DoorTypes
  <2>2. m \in [Dialers -> DialRecords] /\ \A e \in Dialers : e # d => m[e] = dial[e]
    BY <1>0 DEF DoorTypes, DialRecords
  <2>3. n \in [Dialers -> DialRecords] /\ \A e \in Dialers : e # d => n[e] = m[e]
    <3> HIDE DEF m, w
    <3> QED BY <2>1, <2>2 DEF DialRecords
  <2>4. o \in [Dialers -> DialRecords] /\ \A e \in Dialers : e # d => o[e] = n[e]
    <3> HIDE DEF n
    <3>1. why \in Reasons \union {None}
      BY <1>0 DEF DoorTypes
    <3> QED BY <3>1, <2>3 DEF DialRecords
  <2>5. dial' = o
    BY <1>3 DEF DialBegins
  <2> HIDE DEF m, n, o
  <2> QED BY <1>3, <1>0, <2>2, <2>3, <2>4, <2>5 DEF DialBegins, DoorTypes
<1>4. CASE DialThrows(d)
  BY <1>4, <1>0, EndedKept, ReleasedType DEF DialThrows, DoorTypes
<1>5. CASE DialWorks(d)
  BY <1>5, <1>0, EndedKept, ReleasedType DEF DialWorks, DoorTypes
<1>6. ASSUME NEW r \in Reasons, DialFails(d, r) PROVE DoorTypes' /\ dial[d].stage # "idle"
                 /\ \A e \in Dialers : e # d => dial'[e].stage = dial[e].stage
  BY <1>6, <1>0, EndedKept, ReleasedType DEF DialFails, DoorTypes
<1>7. CASE DialCalledOff(d)
  <2>1. dial[d].was \in States \ {"Connected"} /\ dial[d].why \in Reasons \union {None}
    BY <1>0 DEF DialRecords
  <2>2. /\ dial' = Ended(d) /\ Released(d)
        /\ UNCHANGED <<at, late, saved, hangup, lastReader, unseen>>
        /\ dial[d].stage # "idle"
    BY <1>7 DEF DialCalledOff
  <2>3. state' \in States /\ why' \in Reasons \union {None}
    BY <1>7, <1>0, <2>1 DEF DialCalledOff, DoorTypes
  <2> QED BY <1>0, <2>2, <2>3, EndedKept, ReleasedType DEF DoorTypes
<1> QED BY <1>1, <1>2, <1>3, <1>4, <1>5, <1>6, <1>7 DEF DialStep

\* The part of TypeOK that is the supervisor's.
SupTypes ==
  /\ enabled \in BOOLEAN /\ wanted \in BOOLEAN /\ ladder \in Ladders
  /\ trying \in {None, "startup", "redial", "retry", "wanted"}
  /\ loop \in {"start", "poll", "trying", "after"}
  /\ retry \in {"idle", "trying", "gone", "after"} /\ want \in {"idle", "trying"}

LEMMA TypeParts == TypeOK <=> DoorTypes /\ SupTypes
BY DEF TypeOK, DoorTypes, SupTypes

\* Whatever a try ends with keeps the types of those who wait for it.
LEMMA TryEndsTypes ==
  ASSUME TypeOK, TryEnds
  PROVE  /\ trying' = None
         /\ loop' \in {"start", "poll", "trying", "after"}
         /\ retry' \in {"idle", "trying", "gone", "after"} /\ want' \in {"idle", "trying"}
BY DEF TypeOK, TryEnds

\* A look keeps every type.
LEMMA PollTypes == TypeOK /\ Poll => TypeOK'
<1> SUFFICES ASSUME TypeOK, Poll PROVE DoorTypes' /\ SupTypes'
  BY TypeParts DEF TypeOK, DoorTypes, SupTypes
<1>1. DoorTypes'
  BY DEF Poll, PollSeesDial, PollRests, PollStandsDown, PollDeclines, PollSchedules,
    PollClimbs, Looks, LooksOnly, TypeOK, DoorTypes
<1>2. /\ Wanted \in BOOLEAN /\ Ladder \in Ladders /\ Outage \in Ladders
      /\ StoodDown(Outage) \in Ladders
  BY LookedAt, StoodDownKept
<1>3. ladder' \in Ladders /\ wanted' \in BOOLEAN
  <2>1. CASE PollSeesDial \/ PollRests \/ PollStandsDown
    BY <2>1, <1>2, RestedType DEF PollSeesDial, PollRests, PollStandsDown
  <2>2. CASE PollDeclines
    BY <2>2, <1>2 DEF PollDeclines, Ladders
  <2>3. CASE PollSchedules
    BY <2>3, <1>2, StartedKept DEF PollSchedules
  <2>4. CASE PollClimbs
    BY <2>4, <1>2 DEF PollClimbs, Ladders
  <2> QED BY <2>1, <2>2, <2>3, <2>4 DEF Poll
<1>4. /\ loop' \in {loop, "trying", "after"} /\ trying' \in {trying, "redial"}
      /\ UNCHANGED <<enabled, retry, want>>
  BY DEF Poll, PollSeesDial, PollRests, PollStandsDown, PollDeclines, PollSchedules,
    PollClimbs, LooksOnly
<1> QED BY <1>1, <1>3, <1>4 DEF TypeOK, SupTypes

\* Every variable keeps its type.
LEMMA TypeInductive == TypeOK /\ [Next]_vars => TypeOK'
<1> SUFFICES ASSUME TypeOK, [Next]_vars PROVE TypeOK'
  OBVIOUS
<1>0. DoorTypes /\ SupTypes
  BY TypeParts
<1>1. CASE UNCHANGED vars
  BY <1>1 DEF TypeOK, vars, doorVars, supVars
<1>2. ASSUME NEW b \in Brokers, ReaderAsks(b) PROVE TypeOK'
  <2>1. /\ dial' \in [Dialers -> DialRecords] /\ lastReader' \in Brokers /\ unseen' \in BOOLEAN
        /\ UNCHANGED <<state, why, at, late, saved, gate, attempt, hangup, supVars>>
    BY <1>2, AskedType DEF ReaderAsks, TypeOK
  <2> QED BY <2>1 DEF TypeOK, supVars
<1>3. CASE ReaderDials
  BY <1>3, <1>0, DialStepKept DEF ReaderDials, Dialers, supVars, SupTypes, DoorTypes, TypeOK
<1>4. CASE SupervisorDials
  <2>1. DoorTypes'
    BY <1>4, DialStepKept DEF SupervisorDials, Dialers
  <2>2. SupTypes'
    BY <1>4, <1>0, TryEndsTypes DEF SupervisorDials, SupTypes
  <2> QED BY <2>1, <2>2 DEF TypeOK, DoorTypes, SupTypes
<1>5. CASE AbortAttempt \/ HangUp \/ Cancel
  <2>1. dial' \in [Dialers -> DialRecords] /\ hangup' \in BOOLEAN
    BY <1>5, CallOffKept DEF AbortAttempt, HangUp, Cancel, TypeOK
  <2>2. [StoodDown(ladder) EXCEPT !.gaveUp = TRUE] \in Ladders
    BY StoodDownKept DEF TypeOK, Ladders
  <2>3. /\ ladder' \in Ladders
        /\ UNCHANGED <<state, why, at, late, saved, gate, attempt, lastReader, unseen, enabled,
                       wanted, trying, loop, retry, want>>
    BY <1>5, <2>2 DEF AbortAttempt, HangUp, Cancel, supVars, TypeOK
  <2> QED BY <2>1, <2>3 DEF TypeOK
<1>6. CASE HangUpLands \/ HangUpGone
  <2>1. /\ hangup' \in BOOLEAN /\ state' \in States /\ why' \in Reasons \union {None}
        /\ UNCHANGED <<at, late, saved, dial, gate, attempt, lastReader, unseen, supVars>>
    BY <1>6 DEF HangUpLands, HangUpGone, TypeOK, States
  <2> QED BY <2>1 DEF TypeOK, supVars
<1>7. ASSUME NEW r \in Reasons, LinkDrops(r) PROVE TypeOK'
  BY <1>7 DEF LinkDrops, supVars, TypeOK, States
<1>8. CASE DropExplained
  BY <1>8 DEF DropExplained, supVars, TypeOK
<1>9. CASE ReadSettings
  <2>1. CASE TryEnds /\ UNCHANGED <<dial, ladder>>
    BY <1>9, <2>1, TryEndsTypes DEF ReadSettings, TypeOK
  <2>2. CASE /\ saved # None
             /\ dial' = [dial EXCEPT !["sup"] = [NoDial EXCEPT !.stage = "asked", !.to = saved]]
             /\ ladder' = CountAttempt(ladder)
             /\ UNCHANGED <<trying, loop, retry, want>>
    <3>1. saved \in Brokers /\ CountAttempt(ladder) \in Ladders
      BY <2>2, CountAttemptKept DEF TypeOK
    <3>2. dial' \in [Dialers -> DialRecords]
      BY <2>2, <3>1, AskedType DEF TypeOK
    <3> QED BY <1>9, <2>2, <3>1, <3>2 DEF ReadSettings, TypeOK
  <2> QED BY <1>9, <2>1, <2>2 DEF ReadSettings
<1>10. CASE CallerGone
  <2>1. Ended("sup") \in [Dialers -> DialRecords]
    BY EndedKept DEF Dialers
  <2>2. [dial EXCEPT !["sup"].cancelled = TRUE] \in [Dialers -> DialRecords]
    BY DEF TypeOK, DialRecords, Dialers
  <2>3. /\ dial' \in [Dialers -> DialRecords]
        /\ attempt' \in {attempt, None} /\ trying' \in {trying, None}
        /\ retry' \in {retry, "idle", "gone"} /\ want' \in {want, "idle"}
        /\ UNCHANGED <<state, why, at, late, saved, gate, hangup, lastReader, unseen, enabled,
                       wanted, ladder, loop>>
    BY <1>10, <2>1, <2>2 DEF CallerGone
  <2> QED BY <2>3 DEF TypeOK
<1>11. CASE StartUp
  <2>1. /\ wanted' \in BOOLEAN /\ trying' \in {trying, "startup"}
        /\ loop' \in {"poll", "trying"}
        /\ UNCHANGED <<doorVars, enabled, ladder, retry, want>>
    BY <1>11 DEF StartUp, TypeOK
  <2> QED BY <2>1 DEF TypeOK, doorVars
<1>12. CASE Poll
  BY <1>12, PollTypes
<1>13. CASE AfterRedial
  BY <1>13, NextRungKept DEF AfterRedial, doorVars, TypeOK
<1>14. CASE Tick
  BY <1>14 DEF Tick, doorVars, TypeOK, Ladders
<1>15. CASE RetryNow
  <2> DEFINE m == [Revived(ladder) EXCEPT !.rung = 0]
             n == [m EXCEPT !.due = None]
  <2>1. 0 \in 0..Len(Backoff)
    BY SupervisorAssumption
  <2>2. m \in Ladders
    BY <2>1, RevivedKept DEF TypeOK, Ladders
  <2>3. n \in Ladders
    <3> HIDE DEF m
    <3> QED BY <2>2 DEF Ladders
  <2>4. ladder' = n
    BY <1>15 DEF RetryNow
  <2> QED BY <1>15, <2>3, <2>4 DEF RetryNow, doorVars, TypeOK
<1>16. CASE AfterRetry
  <2>1. [ladder EXCEPT !.active = TRUE] \in Ladders
    BY DEF TypeOK, Ladders
  <2>2. NextRung([ladder EXCEPT !.active = TRUE]) \in Ladders
    BY <2>1, NextRungKept
  <2>3. /\ ladder' \in Ladders /\ wanted' \in BOOLEAN /\ retry' = "idle"
        /\ UNCHANGED <<doorVars, enabled, trying, loop, want>>
    BY <1>16, <2>2 DEF AfterRetry, TypeOK
  <2> QED BY <2>3 DEF doorVars, TypeOK
<1>17. CASE WantLink
  BY <1>17, RevivedKept DEF WantLink, doorVars, TypeOK
<1>18. ASSUME NEW on \in BOOLEAN, SetEnabled(on) PROVE TypeOK'
  BY <1>18, RevivedKept, StoodDownKept DEF SetEnabled, doorVars, TypeOK
<1> QED BY <1>1, <1>2, <1>3, <1>4, <1>5, <1>6, <1>7, <1>8, <1>9, <1>10, <1>11, <1>12,
  <1>13, <1>14, <1>15, <1>16, <1>17, <1>18 DEF Next, System, People, World

\* The start has the right types.
LEMMA InitType == Init => TypeOK
BY NoDialType, RestedType DEF Init, TypeOK, States, Dialers

\* For any brokers, reasons and waits, every variable of the supervisor has the
\* type its field has in the source.
THEOREM TypeCorrectness == Spec => []TypeOK
BY InitType, TypeInductive, PTL DEF Spec
-----------------------------------------------------------------------------
(* One try at a time.                                                       *)

\* Only the supervisor's own steps move its dial to another stage or out of one.
LEMMA OthersLeaveItsDial ==
  ASSUME TypeOK,
         \/ \E b \in Brokers : ReaderAsks(b)
         \/ ReaderDials \/ AbortAttempt \/ HangUp \/ Cancel
  PROVE  dial'["sup"].stage = dial["sup"].stage
<1>1. ASSUME NEW b \in Brokers, ReaderAsks(b) PROVE dial'["sup"].stage = dial["sup"].stage
  BY <1>1 DEF ReaderAsks, TypeOK, Dialers
<1>2. CASE ReaderDials
  BY <1>2, DialStepKept DEF ReaderDials, Dialers
<1>3. CASE AbortAttempt \/ HangUp \/ Cancel
  BY <1>3, CallOffKept DEF AbortAttempt, HangUp, Cancel, Dialers
<1> QED BY <1>1, <1>2, <1>3

\* Whoever waited for a try that ends goes on.
LEMMA TryEndsForAll ==
  ASSUME TypeOK, OneTry, TryEnds, dial'["sup"].stage = "idle"
  PROVE  OneTry'
<1> USE SupervisorAssumption DEF TypeOK, OneTry, TryEnds
<1>1. loop' # "trying"
  OBVIOUS
<1>2. retry' \notin {"trying", "gone"}
  OBVIOUS
<1>3. want' # "trying"
  OBVIOUS
<1> QED BY <1>1, <1>2, <1>3

\* One try at a time is kept by every step.
LEMMA OneTryInductive == IInv /\ [Next]_vars => OneTry'
<1> SUFFICES ASSUME TypeOK, OneTry, [Next]_vars PROVE OneTry'
  BY DEF IInv
<1> USE SupervisorAssumption
<1>1. CASE UNCHANGED vars
  BY <1>1 DEF vars, doorVars, supVars, OneTry
<1>2. CASE \/ \E b \in Brokers : ReaderAsks(b)
           \/ ReaderDials \/ AbortAttempt \/ HangUp \/ Cancel
  <2>1. dial'["sup"].stage = dial["sup"].stage
    BY <1>2, OthersLeaveItsDial
  <2>2. UNCHANGED <<trying, loop, retry, want>>
    BY <1>2 DEF ReaderAsks, ReaderDials, AbortAttempt, HangUp, Cancel, supVars
  <2> QED BY <2>1, <2>2 DEF OneTry
<1>3. CASE \/ HangUpLands \/ HangUpGone \/ DropExplained \/ AfterRedial \/ Tick
           \/ \E r \in Reasons : LinkDrops(r)
           \/ \E on \in BOOLEAN : SetEnabled(on)
  BY <1>3 DEF HangUpLands, HangUpGone, DropExplained, LinkDrops, AfterRedial, Tick, SetEnabled,
    doorVars, supVars, OneTry
<1>4. CASE SupervisorDials
  <2>1. dial["sup"].stage # "idle" /\ TypeOK'
    BY <1>4, DialStepKept, TypeInductive DEF SupervisorDials, Dialers, Next, System
  <2>2. CASE dial'["sup"].stage = "idle"
    BY <1>4, <2>2, TryEndsForAll DEF SupervisorDials
  <2>3. CASE dial'["sup"].stage # "idle"
    BY <1>4, <2>1, <2>3 DEF SupervisorDials, OneTry
  <2> QED BY <2>2, <2>3
<1>5. CASE ReadSettings
  <2>1. CASE TryEnds /\ UNCHANGED dial
    BY <1>5, <2>1, TryEndsForAll DEF ReadSettings
  <2>2. CASE UNCHANGED <<trying, loop, retry, want>>
    BY <1>5, <2>2 DEF ReadSettings, OneTry
  <2> QED BY <1>5, <2>1, <2>2 DEF ReadSettings
<1>6. CASE CallerGone
  <2>1. CASE dial["sup"].stage = "gate" /\ dial' = Ended("sup")
    BY <1>6, <2>1, EndedKept DEF CallerGone, OneTry, TypeOK, Dialers
  <2>2. CASE dial["sup"].stage = "dialing"
    BY <1>6, <2>2 DEF CallerGone, OneTry, TypeOK
  <2> QED BY <1>6, <2>1, <2>2 DEF CallerGone
<1>7. CASE StartUp
  BY <1>7 DEF StartUp, OneTry, TypeOK, doorVars
<1>8. CASE Poll
  BY <1>8 DEF Poll, PollSeesDial, PollRests, PollStandsDown, PollDeclines, PollSchedules,
    PollClimbs, Looks, LooksOnly, OneTry, TypeOK
<1>9. CASE RetryNow
  BY <1>9 DEF RetryNow, OneTry, TypeOK, doorVars
<1>10. CASE AfterRetry
  BY <1>10 DEF AfterRetry, OneTry, TypeOK, doorVars
<1>11. CASE WantLink
  BY <1>11 DEF WantLink, OneTry, TypeOK, doorVars
<1> QED BY <1>1, <1>2, <1>3, <1>4, <1>5, <1>6, <1>7, <1>8, <1>9, <1>10, <1>11
  DEF Next, System, People, World

\* For any brokers and waits, the one _dialling flag keeps the loop, a Try now and a
\* save from dialling beside each other, and whoever holds it is the one waiting.
THEOREM OneTryAtATime == Spec => []OneTry
<1>1. Init => IInv
  BY InitType, NoDialType, SupervisorAssumption DEF Init, IInv, OneTry, Dialers
<1>2. IInv /\ [Next]_vars => IInv'
  BY TypeInductive, OneTryInductive DEF IInv
<1>3. IInv => OneTry
  BY DEF IInv
<1> QED BY <1>1, <1>2, <1>3, PTL DEF Spec
-----------------------------------------------------------------------------
(* What a step may never do.                                                *)

\* The steps that touch the ladder; every other leaves it alone.
LEMMA OnlyLadderSteps ==
  ASSUME [Next]_vars
  PROVE  \/ Poll \/ ReadSettings \/ AfterRedial \/ Tick \/ RetryNow \/ AfterRetry \/ WantLink
         \/ Cancel \/ (\E on \in BOOLEAN : SetEnabled(on))
         \/ UNCHANGED ladder
BY DEF Next, System, People, World, vars, supVars, ReaderDials, HangUpLands, DropExplained,
  SupervisorDials, StartUp, ReaderAsks, AbortAttempt, HangUp, HangUpGone, LinkDrops, CallerGone

\* What a look leaves of an outage, and of having given it up.
LEMMA PollKeeps ==
  ASSUME TypeOK, Poll, ~ReaderLeft
  PROVE  /\ ladder.since /\ ~ladder'.since => state \in {"Connected", "Disconnected"}
         /\ ladder.gaveUp /\ ~ladder'.gaveUp => state # "Faulted"
<1>1. /\ Ladder = ladder /\ Outage \in Ladders
      /\ ladder.since => Outage.since
      /\ Outage.gaveUp = ladder.gaveUp
  BY LookedAt
<1>2. CASE PollSeesDial
  BY <1>1, <1>2 DEF PollSeesDial
<1>3. CASE PollRests
  BY <1>1, <1>3 DEF PollRests, TypeOK, States
<1>4. CASE PollStandsDown
  BY <1>1, <1>4, StoodDownKept DEF PollStandsDown
<1>5. CASE PollDeclines
  <2>1. [StoodDown(Outage) EXCEPT !.declined = TRUE].since = StoodDown(Outage).since
        /\ [StoodDown(Outage) EXCEPT !.declined = TRUE].gaveUp = StoodDown(Outage).gaveUp
    BY <1>1, StoodDownKept DEF Ladders
  <2> QED BY <1>1, <1>5, <2>1, StoodDownKept DEF PollDeclines
<1>6. CASE PollSchedules
  BY <1>1, <1>6, StartedKept DEF PollSchedules, HandsOff
<1>7. CASE PollClimbs
  BY <1>1, <1>7 DEF PollClimbs, Ladders
<1> QED BY <1>2, <1>3, <1>4, <1>5, <1>6, <1>7 DEF Poll

\* Who is taken to have left an outage went elsewhere, or cannot be told from one who did.
LEMMA LeftTells ==
  ASSUME ReaderLeft, ladder.since
  PROVE  state = "Connected" \/ WentElsewhere \/ NothingToGoBy
BY DEF ReaderLeft, AtTheOutage, WentElsewhere, NothingToGoBy

\* An outage is kept by every step, but one that finds the link up, or closed by somebody, or
\* the reader gone to another broker or dialling with nothing to tell where.
LEMMA OutageKept ==
  ASSUME TypeOK, [Next]_vars, ladder.since, ~ladder'.since
  PROVE  state \in {"Connected", "Disconnected"} \/ WentElsewhere \/ NothingToGoBy
<1> SUFFICES ASSUME ~WentElsewhere, ~NothingToGoBy PROVE state \in {"Connected", "Disconnected"}
  OBVIOUS
<1>0. ladder \in Ladders
  BY DEF TypeOK
<1>1. CASE Poll
  <2>1. CASE ReaderLeft
    BY <2>1, LeftTells
  <2> QED BY <1>1, <2>1, PollKeeps
<1>2. CASE UNCHANGED ladder
  BY <1>2
<1>3. CASE ReadSettings
  BY <1>0, <1>3, CountAttemptKept DEF ReadSettings
<1>4. CASE AfterRedial
  BY <1>0, <1>4, NextRungKept DEF AfterRedial
<1>5. CASE Tick
  BY <1>0, <1>5 DEF Tick, Ladders
<1>6. CASE RetryNow
  <2>1. [Revived(ladder) EXCEPT !.rung = 0, !.due = None].since = Revived(ladder).since
    BY <1>0, RevivedKept DEF Ladders
  <2> QED BY <1>0, <1>6, <2>1, RevivedKept DEF RetryNow
<1>7. CASE AfterRetry
  <2>1. [ladder EXCEPT !.active = TRUE] \in Ladders
        /\ [ladder EXCEPT !.active = TRUE].since = ladder.since
    BY <1>0 DEF Ladders
  <2> QED BY <1>7, <2>1, NextRungKept DEF AfterRetry
<1>8. CASE WantLink
  BY <1>0, <1>8, RevivedKept DEF WantLink
<1>9. CASE Cancel
  <2>1. [StoodDown(ladder) EXCEPT !.gaveUp = TRUE].since = StoodDown(ladder).since
    BY <1>0, StoodDownKept DEF Ladders
  <2> QED BY <1>0, <1>9, <2>1, StoodDownKept DEF Cancel
<1>10. ASSUME NEW on \in BOOLEAN, SetEnabled(on) PROVE FALSE
  BY <1>0, <1>10, RevivedKept, StoodDownKept DEF SetEnabled
<1> QED BY <1>1, <1>2, <1>3, <1>4, <1>5, <1>6, <1>7, <1>8, <1>9, <1>10, OnlyLadderSteps

\* For any brokers and waits, no step ends an outage because the supervisor is dialling, because
\* its schedule stood down, because the option was turned off, or because a reader's dial at the
\* broker that is down has failed; a look at the reader's dial while it is in flight may.
THEOREM OutageIsRemembered == Spec => OutageRemembered
<1>1. TypeOK /\ [Next]_vars =>
        [ladder.since /\ ~ladder'.since =>
           state \in {"Connected", "Disconnected"} \/ WentElsewhere \/ NothingToGoBy]_vars
  BY OutageKept
<1> QED BY <1>1, TypeCorrectness, PTL DEF Spec, OutageRemembered

\* Having stopped is kept by every step but those that take it back.
LEMMA StopKept ==
  ASSUME TypeOK, [Next]_vars, ladder.gaveUp, ~ladder'.gaveUp
  PROVE  \/ RetryNow \/ WantLink \/ SetEnabled(TRUE)
         \/ WentElsewhere \/ NothingToGoBy \/ (unseen /\ ~ladder.since)
         \/ state # "Faulted"
<1> SUFFICES ASSUME ~WentElsewhere, ~NothingToGoBy, ~(unseen /\ ~ladder.since),
                    ~RetryNow, ~WantLink, ~SetEnabled(TRUE)
             PROVE state # "Faulted"
  OBVIOUS
<1>0. ladder \in Ladders
  BY DEF TypeOK
<1>1. CASE Poll
  <2>1. CASE ReaderLeft
    BY <2>1, LeftTells DEF ReaderLeft
  <2> QED BY <1>1, <2>1, PollKeeps
<1>2. CASE UNCHANGED ladder
  BY <1>2
<1>3. CASE ReadSettings
  BY <1>0, <1>3, CountAttemptKept DEF ReadSettings
<1>4. CASE AfterRedial
  BY <1>0, <1>4, NextRungKept DEF AfterRedial
<1>5. CASE Tick
  BY <1>0, <1>5 DEF Tick, Ladders
<1>6. CASE AfterRetry
  <2>1. [ladder EXCEPT !.active = TRUE] \in Ladders
        /\ [ladder EXCEPT !.active = TRUE].gaveUp = ladder.gaveUp
    BY <1>0 DEF Ladders
  <2> QED BY <1>6, <2>1, NextRungKept DEF AfterRetry
<1>7. CASE Cancel
  BY <1>0, <1>7, StoodDownKept DEF Cancel, Ladders
<1>8. CASE SetEnabled(FALSE)
  BY <1>0, <1>8, StoodDownKept DEF SetEnabled
<1>9. \A on \in BOOLEAN : SetEnabled(on) => SetEnabled(FALSE)
  OBVIOUS
<1> QED BY <1>1, <1>2, <1>3, <1>4, <1>5, <1>6, <1>7, <1>8, <1>9, OnlyLadderSteps

\* For any brokers and waits, what a reader stopped stays stopped for the outage: no timer and
\* no dial that ends takes it back, nor a look, but one that finds the reader gone elsewhere or
\* a dial of theirs that nothing tells from that.
THEOREM StopIsKept == Spec => StopHolds
<1>1. TypeOK /\ [Next]_vars =>
        [ladder.gaveUp /\ ~ladder'.gaveUp =>
           \/ RetryNow \/ WantLink \/ SetEnabled(TRUE)
           \/ WentElsewhere \/ NothingToGoBy \/ (unseen /\ ~ladder.since)
           \/ state # "Faulted"]_vars
  BY StopKept
<1> QED BY <1>1, TypeCorrectness, PTL DEF Spec, StopHolds
=============================================================================
