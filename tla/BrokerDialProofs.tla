-------------------------- MODULE BrokerDialProofs --------------------------
(***************************************************************************)
(* Proofs about BrokerDial, for any number of consoles, brokers and        *)
(* reasons: its types, the ownership of the two gates, what the link is    *)
(* described as, what certificates it holds, and that it implements        *)
(* OneLink.                                                                *)
(***************************************************************************)
EXTENDS BrokerDial, TLAPS

\* A dial in the manager before its link is booked: nothing is recorded.
Unbooked == {"close", "closed", "dialing", "failed", "up"}

\* What a dial that is under way may rely on.
Progress ==
  \A d \in Slots :
    /\ dial[d].stage # "idle" => dial[d].to \in Brokers
    /\ dial[d].stage \in Unbooked => link = None
    /\ dial[d].stage = "dialing" => connected = None
    /\ dial[d].stage = "up" => connected \in {None, dial[d].to}

\* The inductive invariant.  The link's description is right because nothing is
\* recorded while a dial is in the manager, and only one dial is: that is why the
\* gates are in it.
IInv == TypeOK /\ GatesAreOwned /\ Progress /\ DescribesTheLiveLink
-----------------------------------------------------------------------------
\* A dial that only moves to another stage keeps its type and its other fields.
LEMMA ToStage ==
  ASSUME dial \in [Slots -> DialRecords], NEW d \in Slots, NEW s \in Stages, To(d, s)
  PROVE  /\ dial' \in [Slots -> DialRecords]
         /\ dial'[d].stage = s
         /\ dial'[d].to = dial[d].to
         /\ \A e \in Slots : e # d => dial'[e] = dial[e]
BY DEF To, DialRecords

\* The record of a slot with no dial has the right type.
LEMMA NoDialType == NoDial \in DialRecords
BY DialAssumption DEF NoDial, DialRecords, Stages, OfflineStates

\* So has the record of a dial that is just asked for.
LEMMA NewDialType ==
  ASSUME NEW b \in Brokers
  PROVE  [NoDial EXCEPT !.stage = "asked", !.to = b] \in DialRecords
BY NoDialType DEF NoDial, DialRecords, Stages, OfflineStates

\* The stages, written out.
LEMMA StageNames ==
  {"idle", "asked", "supersede", "gate", "enter", "close", "closed", "dialing", "failed",
   "up", "booked", "published", "leaving", "remember", "save"} = Stages
BY DEF Stages, Waiting, InGate, InManager, Saving

\* What a dial notes as it enters the manager has the right type.
LEMMA EnteredType ==
  ASSUME NEW r \in DialRecords, NEW w \in OfflineStates, NEW y \in Reasons \union {None}
  PROVE  [r EXCEPT !.stage = "close", !.was = w, !.why = y] \in DialRecords
<1> DEFINE s == [r EXCEPT !.stage = "close"]
           t == [s EXCEPT !.was = w]
           u == [t EXCEPT !.why = y]
<1>1. "close" \in Stages
  BY StageNames
<1>2. s \in DialRecords
  BY <1>1 DEF DialRecords
<1>3. t \in DialRecords
  <2> HIDE DEF s
  <2> QED BY <1>2 DEF DialRecords
<1>4. u \in DialRecords
  <2> HIDE DEF t
  <2> QED BY <1>3 DEF DialRecords
<1>5. u = [r EXCEPT !.stage = "close", !.was = w, !.why = y]
  OBVIOUS
<1> QED BY <1>4, <1>5

\* Cancelling a source, or none, changes no dial's stage or settings.
LEMMA CancelledType ==
  ASSUME dial \in [Slots -> DialRecords], NEW x
  PROVE  /\ Cancelled(dial, x) \in [Slots -> DialRecords]
         /\ \A e \in Slots : /\ Cancelled(dial, x)[e].stage = dial[e].stage
                             /\ Cancelled(dial, x)[e].to = dial[e].to
BY DEF Cancelled, DialRecords

\* A dial that is forsaken is over; the others keep their stage and settings.
LEMMA ForsakeType ==
  ASSUME TypeOK, NEW d \in Slots, Forsake(d)
  PROVE  /\ dial' \in [Slots -> DialRecords]
         /\ attempt' \in Slots \union {Lost, None}
         /\ dial'[d] = NoDial
         /\ \A e \in Slots : e # d => dial'[e].stage = dial[e].stage /\ dial'[e].to =
           dial[e].to
<1>1. attempt' \in Slots \union {Lost, None}
  BY DEF Forsake, TypeOK
<1>2. /\ dial'[d] = NoDial
      /\ \A e \in Slots : e # d => /\ dial'[e] \in DialRecords
                                   /\ dial'[e].stage = dial[e].stage
                                   /\ dial'[e].to = dial[e].to
  BY DEF Forsake, TypeOK, DialRecords
<1>3. dial' = [e \in Slots |-> dial'[e]]
  BY DEF Forsake
<1> QED BY <1>1, <1>2, <1>3, NoDialType

-----------------------------------------------------------------------------
\* Every variable keeps its type.
LEMMA TypeInductive == TypeOK /\ [Next]_dialVars => TypeOK'
<1> SUFFICES ASSUME TypeOK, [Next]_dialVars PROVE TypeOK'
  OBVIOUS
<1> USE DialAssumption DEF TypeOK
<1>1. CASE UNCHANGED dialVars
  BY <1>1 DEF dialVars, mgrVars, svcVars
<1>2. ASSUME NEW d \in Slots, ConnectSkipped(d) PROVE TypeOK'
  BY <1>2, NoDialType, ToStage, StageNames DEF ConnectSkipped, DialRecords,
    OfflineStates, mgrVars
<1>3. ASSUME NEW d \in Slots, RegisterAttempt(d) PROVE TypeOK'
  BY <1>3, NoDialType, ToStage, StageNames DEF RegisterAttempt, DialRecords,
    OfflineStates, mgrVars
<1>4. ASSUME NEW d \in Slots, CancelStanding(d) PROVE TypeOK'
  <2>1. Cancelled(dial, dial[d].standing) \in [Slots -> DialRecords]
    BY CancelledType
  <2>2. CASE Disposed(dial[d].standing)
    BY <1>4, <2>2, ForsakeType DEF CancelStanding, mgrVars
  <2>3. CASE ~Disposed(dial[d].standing)
    BY <1>4, <2>1, <2>3, StageNames DEF CancelStanding, DialRecords, mgrVars
  <2> QED BY <2>2, <2>3
<1>5. ASSUME NEW d \in Slots, EnterDialGate(d) PROVE TypeOK'
  BY <1>5, NoDialType, ToStage, StageNames DEF EnterDialGate, DialRecords,
    OfflineStates, mgrVars
<1>6. ASSUME NEW d \in Slots, EnterManager(d) PROVE TypeOK'
  <2>1. [dial[d] EXCEPT !.stage = "close", !.was = offline, !.why = failure] \in DialRecords
    BY EnteredType
  <2>2. dial' \in [Slots -> DialRecords]
    BY <1>6, <2>1 DEF EnterManager
  <2> QED BY <1>6, <2>2 DEF EnterManager, OfflineStates, DialRecords
<1>7. ASSUME NEW d \in Slots, CloseOldLink(d) PROVE TypeOK'
  BY <1>7, NoDialType, ToStage, StageNames DEF CloseOldLink, SocketCloses, DialRecords,
    OfflineStates, mgrVars
<1>8. ASSUME NEW d \in Slots, CloseCalledOff(d) PROVE TypeOK'
  BY <1>8, NoDialType, ToStage, StageNames DEF CloseCalledOff, SocketCloses,
    DialRecords, OfflineStates, mgrVars
<1>9. ASSUME NEW d \in Slots, CloseThrows(d) PROVE TypeOK'
  BY <1>9, NoDialType, ToStage, StageNames DEF CloseThrows, SocketCloses, DialRecords,
    OfflineStates, mgrVars
<1>10. ASSUME NEW d \in Slots, ConnectAccepted(d) PROVE TypeOK'
  BY <1>10, NoDialType, ToStage, StageNames DEF ConnectAccepted, DialRecords,
    OfflineStates, mgrVars
<1>11. ASSUME NEW d \in Slots, NEW r \in Reasons, ConnectFails(d, r) PROVE TypeOK'
  BY <1>11, NoDialType, ToStage, StageNames DEF ConnectFails, DialRecords,
    OfflineStates, mgrVars
<1>12. ASSUME NEW d \in Slots, BookLink(d) PROVE TypeOK'
  BY <1>12, NoDialType, ToStage, StageNames DEF BookLink, DialRecords, OfflineStates,
    mgrVars
<1>13. ASSUME NEW d \in Slots, PublishLink(d) PROVE TypeOK'
  BY <1>13, NoDialType, ToStage, StageNames DEF PublishLink, DialRecords, OfflineStates,
    mgrVars
<1>14. ASSUME NEW d \in Slots, PutBack(d) PROVE TypeOK'
  BY <1>14, NoDialType, ToStage, StageNames DEF PutBack, DialRecords, OfflineStates, mgrVars
<1>15. ASSUME NEW d \in Slots, Leave(d) PROVE TypeOK'
  BY <1>15, NoDialType, ToStage, StageNames DEF Leave, Gone, DialRecords, OfflineStates,
    mgrVars
<1>16. ASSUME NEW d \in Slots, LeaveUntouched(d) PROVE TypeOK'
  BY <1>16, NoDialType, ToStage, StageNames DEF LeaveUntouched, DialRecords,
    OfflineStates, mgrVars
<1>17. ASSUME NEW d \in Slots, RememberSettings(d) PROVE TypeOK'
  BY <1>17, NoDialType, ToStage, StageNames DEF RememberSettings, DialRecords,
    OfflineStates, mgrVars
<1>18. ASSUME NEW d \in Slots, SaveSettings(d) PROVE TypeOK'
  BY <1>18, NoDialType, ToStage, StageNames DEF SaveSettings, DialRecords,
    OfflineStates, mgrVars
<1>19. ASSUME NEW d \in Readers, NEW b \in Brokers, ReaderAsks(d, b) PROVE TypeOK'
  <2>1. dial' \in [Slots -> DialRecords]
    BY <1>19, NewDialType DEF ReaderAsks, Slots
  <2> QED BY <1>19, <2>1 DEF ReaderAsks, mgrVars
<1>20. CASE AnySupervisorAsks
  <2>1. saved \in Brokers
    BY <1>20 DEF AnySupervisorAsks
  <2>2. [NoDial EXCEPT !.stage = "asked", !.to = saved] \in DialRecords
    BY <2>1, NewDialType
  <2>3. dial' \in [Slots -> DialRecords]
    BY <1>20, <2>2 DEF AnySupervisorAsks, SupervisorAsks, Slots
  <2> QED BY <1>20, <2>3 DEF AnySupervisorAsks, SupervisorAsks, mgrVars
<1>21. CASE AbortAttempt
  BY <1>21, CancelledType DEF AbortAttempt, mgrVars
<1>22. CASE HangUp
  BY <1>22, CancelledType DEF HangUp, mgrVars
<1>23. CASE CloseLink
  BY <1>23 DEF CloseLink, SocketCloses, OfflineStates
<1>24. ASSUME NEW r \in Reasons, LinkDrops(r) PROVE TypeOK'
  BY <1>24 DEF LinkDrops, SocketCloses, svcVars
<1>25. ASSUME NEW r \in Reasons, OnDisconnected(r) PROVE TypeOK'
  BY <1>25 DEF OnDisconnected, svcVars
<1>26. CASE DropExplained
  BY <1>26 DEF DropExplained, svcVars
<1>27. CASE CallerGone
  <2>1. Sup \in Slots
    BY DEF Slots
  <2>2. CASE dial[Sup].stage = "gate" /\ Forsake(Sup)
    BY <1>27, <2>1, <2>2, ForsakeType DEF CallerGone, mgrVars
  <2>3. CASE dial' = Cancelled(dial, Sup) /\ UNCHANGED attempt
    BY <1>27, <2>3, CancelledType DEF CallerGone, mgrVars
  <2> QED BY <1>27, <2>2, <2>3 DEF CallerGone
<1>28. CASE HangUpGone
  BY <1>28 DEF HangUpGone, mgrVars
<1> QED
  BY <1>1, <1>2, <1>3, <1>4, <1>5, <1>6, <1>7, <1>8, <1>9, <1>10, <1>11, <1>12, <1>13,
    <1>14, <1>15, <1>16, <1>17, <1>18, <1>19, <1>20, <1>21, <1>22, <1>23, <1>24, <1>25,
    <1>26, <1>27, <1>28
  DEF Next, DialSystem, Environment, DialStep, Callback
-----------------------------------------------------------------------------
\* Registering a dial only moves it on.
LEMMA RegisterStages ==
  ASSUME TypeOK, NEW d \in Slots, RegisterAttempt(d)
  PROVE  /\ dial[d].stage = "asked" /\ dial'[d].stage \in {"supersede", "gate"}
         /\ dial'[d].to = dial[d].to
         /\ \A e \in Slots : e # d => dial'[e] = dial[e]
<1>1. CASE d \in Readers /\ attempt # None
  BY <1>1 DEF RegisterAttempt, TypeOK, DialRecords
<1>2. CASE ~(d \in Readers /\ attempt # None)
  BY <1>2, ToStage, StageNames DEF RegisterAttempt, TypeOK
<1> QED BY <1>1, <1>2

\* A reader that has cancelled what stood there is at the gate, or thrown out;
\* the dial it cancelled keeps its stage.
LEMMA SupersedeStages ==
  ASSUME TypeOK, NEW d \in Slots, CancelStanding(d)
  PROVE  /\ dial[d].stage = "supersede" /\ dial'[d].stage \in {"gate", "idle"}
         /\ dial'[d].stage = "gate" => dial'[d].to = dial[d].to
         /\ \A e \in Slots : e # d => dial'[e].stage = dial[e].stage /\ dial'[e].to =
           dial[e].to
<1>1. CASE Disposed(dial[d].standing)
  BY <1>1, ForsakeType DEF CancelStanding, NoDial
<1>2. CASE ~Disposed(dial[d].standing)
  <2> DEFINE c == Cancelled(dial, dial[d].standing)
  <2>1. /\ c \in [Slots -> DialRecords]
        /\ \A e \in Slots : c[e].stage = dial[e].stage /\ c[e].to = dial[e].to
    BY CancelledType DEF TypeOK
  <2>2. dial' = [c EXCEPT ![d].stage = "gate", ![d].standing = None]
    BY <1>2 DEF CancelStanding
  <2> HIDE DEF c
  <2> QED BY <2>1, <2>2 DEF CancelStanding, DialRecords
<1> QED BY <1>1, <1>2

\* The gates stay with the dials that are past them.
LEMMA GatesInductive == TypeOK /\ GatesAreOwned /\ [Next]_dialVars => GatesAreOwned'
<1> SUFFICES ASSUME TypeOK, GatesAreOwned, [Next]_dialVars PROVE GatesAreOwned'
  OBVIOUS
<1> USE DialAssumption DEF TypeOK, GatesAreOwned, InGate, InManager
<1>1. CASE UNCHANGED dialVars
  BY <1>1 DEF dialVars, mgrVars, svcVars
<1>2. ASSUME NEW d \in Slots, ConnectSkipped(d) PROVE GatesAreOwned'
  BY <1>2, ToStage, StageNames DEF ConnectSkipped, NoDial, mgrVars
<1>3. ASSUME NEW d \in Slots, RegisterAttempt(d) PROVE GatesAreOwned'
  BY <1>3, RegisterStages DEF RegisterAttempt, mgrVars
<1>4. ASSUME NEW d \in Slots, CancelStanding(d) PROVE GatesAreOwned'
  BY <1>4, SupersedeStages DEF CancelStanding, mgrVars
<1>5. ASSUME NEW d \in Slots, EnterDialGate(d) PROVE GatesAreOwned'
  BY <1>5, ToStage, StageNames DEF EnterDialGate, mgrVars
<1>6. ASSUME NEW d \in Slots, EnterManager(d) PROVE GatesAreOwned'
  BY <1>6, ToStage, StageNames DEF EnterManager, mgrVars
<1>7. ASSUME NEW d \in Slots, CloseOldLink(d) PROVE GatesAreOwned'
  BY <1>7, ToStage, StageNames DEF CloseOldLink, SocketCloses, mgrVars
<1>8. ASSUME NEW d \in Slots, CloseCalledOff(d) PROVE GatesAreOwned'
  BY <1>8, ToStage, StageNames DEF CloseCalledOff, SocketCloses, mgrVars
<1>9. ASSUME NEW d \in Slots, CloseThrows(d) PROVE GatesAreOwned'
  BY <1>9, ToStage, StageNames DEF CloseThrows, SocketCloses, mgrVars
<1>10. ASSUME NEW d \in Slots, ConnectAccepted(d) PROVE GatesAreOwned'
  BY <1>10, ToStage, StageNames DEF ConnectAccepted, mgrVars
<1>11. ASSUME NEW d \in Slots, NEW r \in Reasons, ConnectFails(d, r) PROVE GatesAreOwned'
  BY <1>11, ToStage, StageNames DEF ConnectFails, mgrVars
<1>12. ASSUME NEW d \in Slots, BookLink(d) PROVE GatesAreOwned'
  BY <1>12, ToStage, StageNames DEF BookLink, mgrVars
<1>13. ASSUME NEW d \in Slots, PublishLink(d) PROVE GatesAreOwned'
  BY <1>13, ToStage, StageNames DEF PublishLink, mgrVars
<1>14. ASSUME NEW d \in Slots, PutBack(d) PROVE GatesAreOwned'
  BY <1>14, ToStage, StageNames DEF PutBack, mgrVars
<1>15. ASSUME NEW d \in Slots, Leave(d) PROVE GatesAreOwned'
  BY <1>15, ToStage, StageNames DEF Leave, Gone, NoDial, mgrVars
<1>16. ASSUME NEW d \in Slots, LeaveUntouched(d) PROVE GatesAreOwned'
  BY <1>16, StageNames DEF LeaveUntouched, NoDial, mgrVars
<1>17. ASSUME NEW d \in Slots, RememberSettings(d) PROVE GatesAreOwned'
  BY <1>17, ToStage, StageNames DEF RememberSettings, mgrVars
<1>18. ASSUME NEW d \in Slots, SaveSettings(d) PROVE GatesAreOwned'
  BY <1>18, ToStage, StageNames DEF SaveSettings, NoDial, mgrVars
<1>19. ASSUME NEW d \in Readers, NEW b \in Brokers, ReaderAsks(d, b) PROVE GatesAreOwned'
  BY <1>19 DEF ReaderAsks, Free, NoDial, Slots, mgrVars
<1>20. CASE AnySupervisorAsks
  BY <1>20 DEF AnySupervisorAsks, SupervisorAsks, Free, NoDial, Slots, mgrVars
<1>21. CASE AbortAttempt
  BY <1>21, CancelledType DEF AbortAttempt, mgrVars
<1>22. CASE HangUp
  BY <1>22, CancelledType DEF HangUp, mgrVars
<1>23. CASE CloseLink
  BY <1>23 DEF CloseLink, SocketCloses
<1>24. ASSUME NEW r \in Reasons, LinkDrops(r) PROVE GatesAreOwned'
  BY <1>24 DEF LinkDrops, SocketCloses, svcVars
<1>25. ASSUME NEW r \in Reasons, OnDisconnected(r) PROVE GatesAreOwned'
  BY <1>25 DEF OnDisconnected, svcVars
<1>26. CASE DropExplained
  BY <1>26 DEF DropExplained, svcVars
<1>27. CASE CallerGone
  <2>1. Sup \in Slots
    BY DEF Slots
  <2>2. CASE dial[Sup].stage = "gate" /\ Forsake(Sup)
    BY <1>27, <2>1, <2>2, ForsakeType DEF CallerGone, NoDial, mgrVars
  <2>3. CASE dial' = Cancelled(dial, Sup) /\ UNCHANGED attempt
    BY <1>27, <2>3, CancelledType DEF CallerGone, mgrVars
  <2> QED BY <1>27, <2>2, <2>3 DEF CallerGone
<1>28. CASE HangUpGone
  BY <1>28 DEF HangUpGone, mgrVars
<1> QED
  BY <1>1, <1>2, <1>3, <1>4, <1>5, <1>6, <1>7, <1>8, <1>9, <1>10, <1>11, <1>12, <1>13,
    <1>14, <1>15, <1>16, <1>17, <1>18, <1>19, <1>20, <1>21, <1>22, <1>23, <1>24, <1>25,
    <1>26, <1>27, <1>28
  DEF Next, DialSystem, Environment, DialStep, Callback

\* What dials rely on stays true, because only one of them is in the manager.
LEMMA ProgressInductive == IInv /\ [Next]_dialVars => (Progress /\ DescribesTheLiveLink)'
<1> SUFFICES ASSUME IInv, [Next]_dialVars PROVE (Progress /\ DescribesTheLiveLink)'
  OBVIOUS
<1> USE DialAssumption DEF IInv, TypeOK, GatesAreOwned, Progress, DescribesTheLiveLink,
  InGate, InManager, Unbooked
<1>1. CASE UNCHANGED dialVars
  BY <1>1 DEF dialVars, mgrVars, svcVars
<1>2. ASSUME NEW d \in Slots, ConnectSkipped(d) PROVE (Progress /\ DescribesTheLiveLink)'
  BY <1>2, ToStage, StageNames DEF ConnectSkipped, NoDial, mgrVars
<1>3. ASSUME NEW d \in Slots, RegisterAttempt(d) PROVE (Progress /\ DescribesTheLiveLink)'
  BY <1>3, RegisterStages DEF RegisterAttempt, mgrVars
<1>4. ASSUME NEW d \in Slots, CancelStanding(d) PROVE (Progress /\ DescribesTheLiveLink)'
  BY <1>4, SupersedeStages DEF CancelStanding, mgrVars
<1>5. ASSUME NEW d \in Slots, EnterDialGate(d) PROVE (Progress /\ DescribesTheLiveLink)'
  BY <1>5, ToStage, StageNames DEF EnterDialGate, mgrVars
<1>6. ASSUME NEW d \in Slots, EnterManager(d) PROVE (Progress /\ DescribesTheLiveLink)'
  BY <1>6, ToStage, StageNames DEF EnterManager, mgrVars
<1>7. ASSUME NEW d \in Slots, CloseOldLink(d) PROVE (Progress /\ DescribesTheLiveLink)'
  BY <1>7, ToStage, StageNames DEF CloseOldLink, SocketCloses, mgrVars
<1>8. ASSUME NEW d \in Slots, CloseCalledOff(d) PROVE (Progress /\ DescribesTheLiveLink)'
  BY <1>8, ToStage, StageNames DEF CloseCalledOff, SocketCloses, mgrVars
<1>9. ASSUME NEW d \in Slots, CloseThrows(d) PROVE (Progress /\ DescribesTheLiveLink)'
  BY <1>9, ToStage, StageNames DEF CloseThrows, SocketCloses, mgrVars
<1>10. ASSUME NEW d \in Slots, ConnectAccepted(d) PROVE (Progress /\ DescribesTheLiveLink)'
  BY <1>10, ToStage, StageNames DEF ConnectAccepted, mgrVars
<1>11. ASSUME NEW d \in Slots, NEW r \in Reasons, ConnectFails(d, r)
  PROVE (Progress /\ DescribesTheLiveLink)'
  BY <1>11, ToStage, StageNames DEF ConnectFails, mgrVars
<1>12. ASSUME NEW d \in Slots, BookLink(d) PROVE (Progress /\ DescribesTheLiveLink)'
  BY <1>12, ToStage, StageNames DEF BookLink, mgrVars
<1>13. ASSUME NEW d \in Slots, PublishLink(d) PROVE (Progress /\ DescribesTheLiveLink)'
  BY <1>13, ToStage, StageNames DEF PublishLink, mgrVars
<1>14. ASSUME NEW d \in Slots, PutBack(d) PROVE (Progress /\ DescribesTheLiveLink)'
  BY <1>14, ToStage, StageNames DEF PutBack, mgrVars
<1>15. ASSUME NEW d \in Slots, Leave(d) PROVE (Progress /\ DescribesTheLiveLink)'
  BY <1>15, ToStage, StageNames DEF Leave, Gone, NoDial, mgrVars
<1>16. ASSUME NEW d \in Slots, LeaveUntouched(d) PROVE (Progress /\ DescribesTheLiveLink)'
  BY <1>16, StageNames DEF LeaveUntouched, NoDial, mgrVars
<1>17. ASSUME NEW d \in Slots, RememberSettings(d) PROVE (Progress /\ DescribesTheLiveLink)'
  BY <1>17, ToStage, StageNames DEF RememberSettings, mgrVars
<1>18. ASSUME NEW d \in Slots, SaveSettings(d) PROVE (Progress /\ DescribesTheLiveLink)'
  BY <1>18, ToStage, StageNames DEF SaveSettings, NoDial, mgrVars
<1>19. ASSUME NEW d \in Readers, NEW b \in Brokers, ReaderAsks(d, b)
  PROVE (Progress /\ DescribesTheLiveLink)'
  BY <1>19 DEF ReaderAsks, Free, NoDial, Slots, mgrVars
<1>20. CASE AnySupervisorAsks
  BY <1>20 DEF AnySupervisorAsks, SupervisorAsks, Free, NoDial, Slots, mgrVars
<1>21. CASE AbortAttempt
  BY <1>21, CancelledType DEF AbortAttempt, mgrVars
<1>22. CASE HangUp
  BY <1>22, CancelledType DEF HangUp, mgrVars
<1>23. CASE CloseLink
  BY <1>23 DEF CloseLink, SocketCloses
<1>24. ASSUME NEW r \in Reasons, LinkDrops(r) PROVE (Progress /\ DescribesTheLiveLink)'
  BY <1>24 DEF LinkDrops, SocketCloses, svcVars
<1>25. ASSUME NEW r \in Reasons, OnDisconnected(r) PROVE (Progress /\ DescribesTheLiveLink)'
  BY <1>25 DEF OnDisconnected, svcVars
<1>26. CASE DropExplained
  BY <1>26 DEF DropExplained, svcVars
<1>27. CASE CallerGone
  <2>1. Sup \in Slots
    BY DEF Slots
  <2>2. CASE dial[Sup].stage = "gate" /\ Forsake(Sup)
    BY <1>27, <2>1, <2>2, ForsakeType DEF CallerGone, NoDial, mgrVars
  <2>3. CASE dial' = Cancelled(dial, Sup) /\ UNCHANGED attempt
    BY <1>27, <2>3, CancelledType DEF CallerGone, mgrVars
  <2> QED BY <1>27, <2>2, <2>3 DEF CallerGone
<1>28. CASE HangUpGone
  BY <1>28 DEF HangUpGone, mgrVars
<1> QED
  BY <1>1, <1>2, <1>3, <1>4, <1>5, <1>6, <1>7, <1>8, <1>9, <1>10, <1>11, <1>12, <1>13,
    <1>14, <1>15, <1>16, <1>17, <1>18, <1>19, <1>20, <1>21, <1>22, <1>23, <1>24, <1>25,
    <1>26, <1>27, <1>28
  DEF Next, DialSystem, Environment, DialStep, Callback

-----------------------------------------------------------------------------
\* The initial state has no dial, no gate held and nothing recorded.
LEMMA InitInvariant == DialInit => IInv
<1> SUFFICES ASSUME DialInit PROVE IInv
  OBVIOUS
<1>1. TypeOK
  BY DialAssumption, NoDialType, StageNames DEF DialInit, TypeOK, OfflineStates
<1>2. GatesAreOwned /\ Progress /\ DescribesTheLiveLink
  BY DialAssumption DEF DialInit, NoDial, GatesAreOwned, Progress, DescribesTheLiveLink,
     InGate, InManager, Unbooked
<1> QED BY <1>1, <1>2 DEF IInv

\* The inductive invariant holds of every behaviour of the service.
THEOREM Invariance == Spec => []IInv
<1>1. IInv /\ [Next]_dialVars => IInv'
  BY TypeInductive, GatesInductive, ProgressInductive DEF IInv
<1> QED BY InitInvariant, <1>1, PTL DEF Spec

\* Every field has its type, whatever the number of consoles and brokers.
THEOREM TypeCorrectness == Spec => []TypeOK
<1>1. IInv => TypeOK
  BY DEF IInv
<1> QED BY Invariance, <1>1, PTL

\* One dial at a time: each gate is held by exactly the dial that is past it.
THEOREM GatesOwned == Spec => []GatesAreOwned
<1>1. IInv => GatesAreOwned
  BY DEF IInv
<1> QED BY Invariance, <1>1, PTL

\* What is said of a live link is never said of another link.
THEOREM LiveLinkDescribed == Spec => []DescribesTheLiveLink
<1>1. IInv => DescribesTheLiveLink
  BY DEF IInv
<1> QED BY Invariance, <1>1, PTL
-----------------------------------------------------------------------------
\* A step that leaves the client and the manager's gate alone, and the aim of the
\* dial that holds it, is none of OneLink's business.
LEMMA Unseen ==
  ASSUME IInv, UNCHANGED <<connected, mgrGate>>,
         \A d \in Slots : dial[d].stage \in InManager => dial'[d].to = dial[d].to
  PROVE  UNCHANGED Link!vars
<1>1. CASE mgrGate = None
  BY <1>1 DEF Link!vars
<1>2. CASE mgrGate # None
  <2>1. mgrGate \in Slots /\ dial[mgrGate].stage \in InManager
    BY <1>2 DEF IInv, TypeOK, GatesAreOwned
  <2> QED BY <2>1 DEF Link!vars
<1> QED BY <1>1, <1>2

\* The client going down is a step of OneLink, whoever's dial is in the manager.
LEMMA GoesDown ==
  ASSUME IInv, connected' = None, UNCHANGED mgrGate,
         \A d \in Slots : dial[d].stage \in InManager => dial'[d].to = dial[d].to
  PROVE  [Link!Next]_Link!vars
<1>1. (IF mgrGate = None THEN None ELSE dial[mgrGate].to)'
        = IF mgrGate = None THEN None ELSE dial[mgrGate].to
  BY DEF IInv, TypeOK, GatesAreOwned
<1>2. CASE connected = None
  BY <1>1, <1>2 DEF Link!vars
<1>3. CASE connected # None
  BY <1>1, <1>3 DEF Link!Next, Link!GoDown
<1> QED BY <1>2, <1>3

\* Every step of the gates, the slots, the callback and the network is a step of
\* OneLink or none at all.
LEMMA StepRefines == IInv /\ [Next]_dialVars => [Link!Next]_Link!vars
<1> SUFFICES ASSUME IInv, [Next]_dialVars PROVE [Link!Next]_Link!vars
  OBVIOUS
<1> USE DialAssumption DEF IInv
<1>1. CASE UNCHANGED dialVars
  BY <1>1 DEF dialVars, mgrVars, svcVars, Link!vars
<1>2. ASSUME NEW d \in Slots, ConnectSkipped(d) PROVE UNCHANGED Link!vars
  BY <1>2, Unseen DEF ConnectSkipped, TypeOK, InManager, mgrVars
<1>3. ASSUME NEW d \in Slots, RegisterAttempt(d) PROVE UNCHANGED Link!vars
  BY <1>3, RegisterStages, Unseen DEF RegisterAttempt, TypeOK, InManager, mgrVars
<1>4. ASSUME NEW d \in Slots, CancelStanding(d) PROVE UNCHANGED Link!vars
  BY <1>4, SupersedeStages, Unseen DEF CancelStanding, TypeOK, InManager, mgrVars
<1>5. ASSUME NEW d \in Slots, EnterDialGate(d) PROVE UNCHANGED Link!vars
  BY <1>5, ToStage, StageNames, Unseen DEF EnterDialGate, TypeOK, InManager, mgrVars
<1>6. ASSUME NEW d \in Slots, NEW r \in Reasons, ConnectFails(d, r) PROVE UNCHANGED
  Link!vars
  BY <1>6, ToStage, StageNames, Unseen DEF ConnectFails, TypeOK, InManager, mgrVars
<1>7. ASSUME NEW d \in Slots, BookLink(d) PROVE UNCHANGED Link!vars
  BY <1>7, ToStage, StageNames, Unseen DEF BookLink, TypeOK, InManager, mgrVars
<1>8. ASSUME NEW d \in Slots, PublishLink(d) PROVE UNCHANGED Link!vars
  BY <1>8, ToStage, StageNames, Unseen DEF PublishLink, TypeOK, InManager, mgrVars
<1>9. ASSUME NEW d \in Slots, PutBack(d) PROVE UNCHANGED Link!vars
  BY <1>9, ToStage, StageNames, Unseen DEF PutBack, TypeOK, InManager, mgrVars
<1>10. ASSUME NEW d \in Slots, LeaveUntouched(d) PROVE UNCHANGED Link!vars
  BY <1>10, Unseen DEF LeaveUntouched, TypeOK, InManager, mgrVars
<1>11. ASSUME NEW d \in Slots, RememberSettings(d) PROVE UNCHANGED Link!vars
  BY <1>11, ToStage, StageNames, Unseen DEF RememberSettings, TypeOK, InManager, mgrVars
<1>12. ASSUME NEW d \in Slots, SaveSettings(d) PROVE UNCHANGED Link!vars
  BY <1>12, Unseen DEF SaveSettings, TypeOK, InManager, mgrVars
<1>13. ASSUME NEW d \in Slots, CloseOldLink(d) PROVE [Link!Next]_Link!vars
  BY <1>13, ToStage, StageNames, GoesDown DEF CloseOldLink, SocketCloses, TypeOK
<1>14. ASSUME NEW d \in Slots, CloseCalledOff(d) PROVE [Link!Next]_Link!vars
  BY <1>14, ToStage, StageNames, GoesDown DEF CloseCalledOff, SocketCloses, TypeOK
<1>15. ASSUME NEW d \in Slots, CloseThrows(d) PROVE [Link!Next]_Link!vars
  BY <1>15, ToStage, StageNames, GoesDown DEF CloseThrows, SocketCloses, TypeOK
<1>16. ASSUME NEW d \in Slots, EnterManager(d) PROVE Link!Next
  <2>1. mgrGate = None /\ mgrGate' = d /\ dial'[d].to = dial[d].to
    BY <1>16 DEF EnterManager, TypeOK, DialRecords
  <2>2. dial[d].to \in Brokers
    BY <1>16 DEF EnterManager, Progress
  <2>3. Link!Begin(dial[d].to)
    BY <1>16, <2>1, <2>2 DEF EnterManager, Link!Begin
  <2> QED BY <2>2, <2>3 DEF Link!Next
<1>17. ASSUME NEW d \in Slots, ConnectAccepted(d) PROVE Link!Next
  <2>1. mgrGate = d /\ connected = None /\ dial[d].to \in Brokers
    BY <1>17 DEF ConnectAccepted, GatesAreOwned, InManager, Progress
  <2>2. dial'[d].to = dial[d].to
    BY <1>17, ToStage, StageNames DEF ConnectAccepted, TypeOK
  <2> QED BY <1>17, <2>1, <2>2 DEF ConnectAccepted, Link!Next, Link!ComeUp
<1>18. ASSUME NEW d \in Slots, Leave(d) PROVE Link!Next
  <2>1. mgrGate = d /\ dial[d].to \in Brokers
    BY <1>18 DEF Leave, Gone, GatesAreOwned, InManager, Progress
  <2> QED BY <1>18, <2>1 DEF Leave, Link!Next, Link!End
<1>19. ASSUME NEW d \in Readers, NEW b \in Brokers, ReaderAsks(d, b) PROVE UNCHANGED
  Link!vars
  BY <1>19, Unseen DEF ReaderAsks, Free, Slots, TypeOK, InManager, mgrVars
<1>20. CASE AnySupervisorAsks
  BY <1>20, Unseen DEF AnySupervisorAsks, SupervisorAsks, Free, Slots, TypeOK,
    InManager, mgrVars
<1>21. CASE AbortAttempt
  BY <1>21, CancelledType, Unseen DEF AbortAttempt, TypeOK, InManager, mgrVars
<1>22. CASE HangUp
  BY <1>22, CancelledType, Unseen DEF HangUp, TypeOK, InManager, mgrVars
<1>23. CASE CloseLink
  BY <1>23, GoesDown DEF CloseLink, SocketCloses
<1>24. ASSUME NEW r \in Reasons, LinkDrops(r) PROVE [Link!Next]_Link!vars
  BY <1>24, GoesDown DEF LinkDrops, SocketCloses, svcVars
<1>25. ASSUME NEW r \in Reasons, OnDisconnected(r) PROVE UNCHANGED Link!vars
  BY <1>25, Unseen DEF OnDisconnected, svcVars
<1>26. CASE DropExplained
  BY <1>26, Unseen DEF DropExplained, svcVars
<1>27. CASE CallerGone
  <2>1. Sup \in Slots
    BY DEF Slots
  <2>2. CASE dial[Sup].stage = "gate" /\ Forsake(Sup)
    BY <1>27, <2>1, <2>2, ForsakeType, Unseen DEF CallerGone, TypeOK, InManager, mgrVars
  <2>3. CASE dial' = Cancelled(dial, Sup) /\ UNCHANGED attempt
    BY <1>27, <2>3, CancelledType, Unseen DEF CallerGone, TypeOK, InManager, mgrVars
  <2> QED BY <1>27, <2>2, <2>3 DEF CallerGone
<1>28. CASE HangUpGone
  BY <1>28, Unseen DEF HangUpGone, mgrVars
<1> QED
  BY <1>1, <1>2, <1>3, <1>4, <1>5, <1>6, <1>7, <1>8, <1>9, <1>10, <1>11, <1>12, <1>13,
    <1>14, <1>15, <1>16, <1>17, <1>18, <1>19, <1>20, <1>21, <1>22, <1>23, <1>24, <1>25,
    <1>26, <1>27, <1>28
  DEF Next, DialSystem, Environment, DialStep, Callback

\* The service implements OneLink: one link, made by one dial.
THEOREM OneLinkRefined == Spec => OneLinkOnly
<1>1. DialInit => Link!Init
  BY DEF DialInit, Link!Init
<1> QED BY Invariance, StepRefines, <1>1, PTL DEF Spec, OneLinkOnly, Link!Spec
-----------------------------------------------------------------------------
\* A dial in the manager that has let go of the old link's certificates and not yet
\* taken the new link's.
Bare == {"closed", "dialing", "failed", "up", "leaving"}

\* What the certificates are beside the link, at any moment: a dial that is bare holds
\* none, a link without its own is one a dial has just brought up, and certificates
\* without a link are those of a drop that has yet to be told.
CertsHeld ==
  /\ \A d \in Slots : /\ dial[d].stage \in Bare => certs = None
                      /\ dial[d].stage \in Bare \ {"up"} => connected = None
  /\ connected # None /\ certs # connected => \E d \in Slots : dial[d].stage = "up"
  /\ certs # None /\ connected = None => late # {} \/ callback # None

\* What a link holds stays its own: a dial lets go of the old certificates before it
\* brings a link up, and a drop that was not yet told is still to be told.
LEMMA CertsInductive == IInv /\ CertsHeld /\ [Next]_dialVars => CertsHeld'
<1> SUFFICES ASSUME IInv, CertsHeld, [Next]_dialVars PROVE CertsHeld'
  OBVIOUS
<1> USE DialAssumption DEF IInv, TypeOK, GatesAreOwned, Progress, Unbooked, InGate, InManager,
  CertsHeld, Bare
<1>1. CASE UNCHANGED dialVars
  BY <1>1 DEF dialVars, mgrVars, svcVars
<1>2. ASSUME NEW d \in Slots, ConnectSkipped(d) PROVE CertsHeld'
  BY <1>2, ToStage, StageNames DEF ConnectSkipped, NoDial, mgrVars
<1>3. ASSUME NEW d \in Slots, RegisterAttempt(d) PROVE CertsHeld'
  BY <1>3, RegisterStages DEF RegisterAttempt, mgrVars
<1>4. ASSUME NEW d \in Slots, CancelStanding(d) PROVE CertsHeld'
  BY <1>4, SupersedeStages DEF CancelStanding, mgrVars
<1>5. ASSUME NEW d \in Slots, EnterDialGate(d) PROVE CertsHeld'
  BY <1>5, ToStage, StageNames DEF EnterDialGate, mgrVars
<1>6. ASSUME NEW d \in Slots, EnterManager(d) PROVE CertsHeld'
  BY <1>6, ToStage, StageNames DEF EnterManager, mgrVars
<1>7. ASSUME NEW d \in Slots, CloseOldLink(d) PROVE CertsHeld'
  BY <1>7, ToStage, StageNames DEF CloseOldLink, SocketCloses, mgrVars
<1>8. ASSUME NEW d \in Slots, CloseCalledOff(d) PROVE CertsHeld'
  BY <1>8, ToStage, StageNames DEF CloseCalledOff, SocketCloses, mgrVars
<1>9. ASSUME NEW d \in Slots, CloseThrows(d) PROVE CertsHeld'
  BY <1>9, ToStage, StageNames DEF CloseThrows, SocketCloses, mgrVars
<1>10. ASSUME NEW d \in Slots, ConnectAccepted(d) PROVE CertsHeld'
  BY <1>10, ToStage, StageNames DEF ConnectAccepted, mgrVars
<1>11. ASSUME NEW d \in Slots, NEW r \in Reasons, ConnectFails(d, r) PROVE CertsHeld'
  BY <1>11, ToStage, StageNames DEF ConnectFails, mgrVars
<1>12. ASSUME NEW d \in Slots, BookLink(d) PROVE CertsHeld'
  BY <1>12, ToStage, StageNames DEF BookLink, mgrVars
<1>13. ASSUME NEW d \in Slots, PublishLink(d) PROVE CertsHeld'
  BY <1>13, ToStage, StageNames DEF PublishLink, mgrVars
<1>14. ASSUME NEW d \in Slots, PutBack(d) PROVE CertsHeld'
  BY <1>14, ToStage, StageNames DEF PutBack, mgrVars
<1>15. ASSUME NEW d \in Slots, Leave(d) PROVE CertsHeld'
  BY <1>15, ToStage, StageNames DEF Leave, Gone, NoDial, mgrVars
<1>16. ASSUME NEW d \in Slots, LeaveUntouched(d) PROVE CertsHeld'
  BY <1>16, StageNames DEF LeaveUntouched, NoDial, mgrVars
<1>17. ASSUME NEW d \in Slots, RememberSettings(d) PROVE CertsHeld'
  BY <1>17, ToStage, StageNames DEF RememberSettings, mgrVars
<1>18. ASSUME NEW d \in Slots, SaveSettings(d) PROVE CertsHeld'
  BY <1>18, ToStage, StageNames DEF SaveSettings, NoDial, mgrVars
<1>19. ASSUME NEW d \in Readers, NEW b \in Brokers, ReaderAsks(d, b) PROVE CertsHeld'
  BY <1>19 DEF ReaderAsks, Free, NoDial, Slots, mgrVars
<1>20. CASE AnySupervisorAsks
  BY <1>20 DEF AnySupervisorAsks, SupervisorAsks, Free, NoDial, Slots, mgrVars
<1>21. CASE AbortAttempt
  BY <1>21, CancelledType DEF AbortAttempt, mgrVars
<1>22. CASE HangUp
  BY <1>22, CancelledType DEF HangUp, mgrVars
<1>23. CASE CloseLink
  BY <1>23 DEF CloseLink, SocketCloses
<1>24. ASSUME NEW r \in Reasons, LinkDrops(r) PROVE CertsHeld'
  BY <1>24 DEF LinkDrops, SocketCloses, svcVars
<1>25. ASSUME NEW r \in Reasons, OnDisconnected(r) PROVE CertsHeld'
  <2>1. callback' # None
    BY <1>25 DEF OnDisconnected
  <2> QED BY <1>25, <2>1 DEF OnDisconnected, svcVars
<1>26. CASE DropExplained
  BY <1>26 DEF DropExplained, svcVars
<1>27. CASE CallerGone
  <2>1. Sup \in Slots
    BY DEF Slots
  <2>2. CASE dial[Sup].stage = "gate" /\ Forsake(Sup)
    BY <1>27, <2>1, <2>2, ForsakeType DEF CallerGone, NoDial, mgrVars
  <2>3. CASE dial' = Cancelled(dial, Sup) /\ UNCHANGED attempt
    BY <1>27, <2>3, CancelledType DEF CallerGone, mgrVars
  <2> QED BY <1>27, <2>2, <2>3 DEF CallerGone
<1>28. CASE HangUpGone
  BY <1>28 DEF HangUpGone, mgrVars
<1> QED
  BY <1>1, <1>2, <1>3, <1>4, <1>5, <1>6, <1>7, <1>8, <1>9, <1>10, <1>11, <1>12, <1>13,
    <1>14, <1>15, <1>16, <1>17, <1>18, <1>19, <1>20, <1>21, <1>22, <1>23, <1>24, <1>25,
    <1>26, <1>27, <1>28
  DEF Next, DialSystem, Environment, DialStep, Callback

\* What a link was made with is held for as long as it lasts, and no longer.
THEOREM CertificatesFollow == Spec => []CertsFollowLink
<1>1. DialInit => CertsHeld
  BY DialAssumption DEF DialInit, NoDial, CertsHeld, Bare
<1>2. IInv /\ CertsHeld => CertsFollowLink
  BY DialAssumption DEF IInv, GatesAreOwned, InManager, CertsHeld, CertsFollowLink, Quiet
<1> QED BY Invariance, CertsInductive, <1>1, <1>2, PTL DEF Spec
=============================================================================
