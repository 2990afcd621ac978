----------------------------- MODULE BrokerDial -----------------------------
(***************************************************************************)
(* The broker link and the dials that make it: ConnectionService (the      *)
(* application's one door to a connection, with its dial gate and its      *)
(* abortable attempt) over MqttnetConnectionManager (the four link states, *)
(* the manager's gate, the disconnect callback).                           *)
(*                                                                         *)
(* Every caller of ConnectionService.ConnectAsync is a dial slot with a    *)
(* program counter.  A step of a slot is what runs between two awaits, or  *)
(* between two points where another thread can be seen: MQTTnet's callback *)
(* tests the state in one step and writes the reason in the next.          *)
(* The network (an accepted or refused CONNECT, a drop, a DISCONNECT that  *)
(* cannot be sent, DisconnectedAsync from the thread pool) is a set of     *)
(* actions of its own.                                                     *)
(*                                                                         *)
(* Data are abstracted: a broker stands for a whole BrokerConnectionSettings*)
(* (host, port, credentials), a reason for a BrokerFailureReason, and the  *)
(* walk over MQTT versions inside one dial for its outcome.  The states    *)
(* are not announced here: nothing the link does depends on who was told.  *)
(* MQTTnet's event for a dial that never came up is left out with them, as *)
(* all it does is announce.  The count and the endpoint ConnectAsync notes *)
(* for the supervisor are kept in LinkSupervisor.                          *)
(***************************************************************************)
EXTENDS Naturals

CONSTANTS
  Readers,   \* slots of dials a person makes (ConnectOrigin.Reader)
  Sup,       \* the slot of the supervisor's dial (ConnectOrigin.Supervisor)
  Brokers,   \* settings a dial can be aimed at
  Reasons,   \* reasons a dial can fail for, or a link can drop for
  Lost,      \* a source whose dial is over and that was never disposed
  Closed,    \* the reason MQTTnet's callback carries for a close of our own
  None       \* null

Slots == Readers \union {Sup}

ASSUME DialAssumption ==
  /\ Sup \notin Readers
  /\ Lost \notin Slots \union {None}
  /\ None \notin Slots /\ None \notin Brokers /\ None \notin Reasons
  /\ Closed \in Reasons
  /\ None \notin [why : Reasons \union {None}]

VARIABLES
  \* MqttnetConnectionManager and the shared client
  connected,   \* the broker the client is connected to, or None (_client.IsConnected)
  offline,     \* _offlineState
  failure,     \* _failureReason
  attempted,   \* _attempted: the broker a fault is about
  link,        \* _link: the broker the recorded link names
  certs,       \* _linkCertificates: the broker they were read for
  mgrGate,     \* the dial holding MqttnetClientProvider.Gate
  late,        \* reasons of DisconnectedAsync callbacks MQTTnet has yet to run
  callback,    \* the OnDisconnectedAsync that is running: what it will write
  \* ConnectionService
  dial,        \* the dials, by slot: stage, settings, cancelled token, the attempt it found
               \* standing, and the offline state and reason it replaces (was, why)
  dialGate,    \* the dial holding _dialGate
  attempt,     \* the dial whose token source is in _attempt
  remembered,  \* _connectedSettings
  saved,       \* what the settings store holds
  hangup       \* where a DisconnectAsync request stands

mgrVars  == <<connected, offline, failure, attempted, link, certs, mgrGate, late,
              callback>>
svcVars  == <<dial, dialGate, attempt, remembered, saved, hangup>>
dialVars == <<mgrVars, svcVars>>
-----------------------------------------------------------------------------
OfflineStates == {"Disconnected", "Connecting", "Faulted"}

\* The stages of a dial; "idle" is no dial.
Waiting   == {"supersede", "gate"}
InManager == {"close", "closed", "dialing", "failed", "up", "booked", "published", "leaving"}
InGate    == {"enter"} \union InManager
Saving    == {"remember", "save"}
Stages    == {"idle", "asked"} \union Waiting \union InGate \union Saving

NoDial == [stage |-> "idle", to |-> None, cancelled |-> FALSE, standing |-> None,
           was |-> "Disconnected", why |-> None]

\* State, which is read through IsConnected.
State == IF connected # None THEN "Connected" ELSE offline

\* A slot can serve a new dial once nothing refers to the one it served.
Free(d) == /\ dial[d].stage = "idle"
           /\ \A e \in Slots : dial[e].standing # d

\* The dial's CancellationTokenSource has been disposed (ConnectAsync's finally).
Disposed(d) == d \in Slots /\ dial[d].stage \in {"idle"} \union Saving

\* A dial somebody could still want to call off.
InFlight(d) == dial[d].stage \in {"gate", "enter", "close", "dialing"}

Quiet == /\ \A d \in Slots : dial[d].stage = "idle"
         /\ hangup = "idle"
         /\ late = {} /\ callback = None

To(d, stage) == dial' = [dial EXCEPT ![d].stage = stage]

Cancelled(ds, d) == IF d \notin Slots THEN ds ELSE [ds EXCEPT ![d].cancelled = TRUE]

\* The client's socket closes; MQTTnet runs its callback later, from the pool.
SocketCloses(reason) ==
  /\ connected' = None
  /\ late' = IF connected = None THEN late ELSE late \union {reason}
-----------------------------------------------------------------------------
(* ConnectionService.ConnectAsync, up to the dial gate.                     *)

\* A person presses Connect.
ReaderAsks(d, b) ==
  /\ d \in Readers /\ Free(d)
  /\ dial' = [dial EXCEPT ![d] = [NoDial EXCEPT !.stage = "asked", !.to = b]]
  /\ UNCHANGED <<mgrVars, dialGate, attempt, remembered, saved, hangup>>

\* The supervisor dials.
SupervisorAsks(b) ==
  /\ Free(Sup)
  /\ dial' = [dial EXCEPT ![Sup] = [NoDial EXCEPT !.stage = "asked", !.to = b]]
  /\ UNCHANGED <<mgrVars, dialGate, attempt, remembered, saved, hangup>>

\* Already connected with the same settings: the call returns at once.
ConnectSkipped(d) ==
  /\ dial[d].stage = "asked"
  /\ State = "Connected" /\ remembered = dial[d].to
  /\ dial' = [dial EXCEPT ![d] = NoDial]
  /\ UNCHANGED <<mgrVars, dialGate, attempt, remembered, saved, hangup>>

\* The attempt goes into _attempt, over whatever stood there.
RegisterAttempt(d) ==
  /\ dial[d].stage = "asked"
  /\ ~(State = "Connected" /\ remembered = dial[d].to)
  /\ IF d \in Readers /\ attempt # None
       THEN dial' = [dial EXCEPT ![d].stage = "supersede", ![d].standing = attempt]
       ELSE To(d, "gate")
  /\ attempt' = d
  /\ UNCHANGED <<mgrVars, dialGate, remembered, saved, hangup>>

\* A dial that ends by an exception before its try: nothing clears _attempt and
\* nothing disposes the source.
Forsake(d) ==
  /\ dial' = [e \in Slots |->
                IF e = d THEN NoDial
                ELSE [dial[e] EXCEPT !.standing = IF @ = d THEN Lost ELSE @]]
  /\ attempt' = IF attempt = d THEN Lost ELSE attempt

\* A reader cancels the dial that stood there, outside the lock.  Cancelling
\* a disposed source throws, and the throw leaves ConnectAsync before its try.
CancelStanding(d) ==
  /\ dial[d].stage = "supersede"
  /\ IF Disposed(dial[d].standing)
       THEN Forsake(d)
       ELSE /\ dial' = [Cancelled(dial, dial[d].standing) EXCEPT ![d].stage = "gate",
                                                                ![d].standing = None]
            /\ UNCHANGED attempt
  /\ UNCHANGED <<mgrVars, dialGate, remembered, saved, hangup>>

\* Mutant: no dial gate.
EnterUngated(d) ==
  /\ dial[d].stage = "gate"
  /\ dialGate' = d
  /\ To(d, "enter")
  /\ UNCHANGED <<mgrVars, attempt, remembered, saved, hangup>>

\* The gate is awaited on the caller's token, not the attempt's.
EnterDialGate(d) ==
  /\ dial[d].stage = "gate" /\ dialGate = None
  /\ dialGate' = d
  /\ To(d, "enter")
  /\ UNCHANGED <<mgrVars, attempt, remembered, saved, hangup>>

\* The request that asked for the supervisor's dial (Try now) goes away: a
\* wait on the dial gate throws, and any later wait sees its linked token.
CallerGone ==
  /\ ~dial[Sup].cancelled
  /\ \/ dial[Sup].stage = "gate" /\ Forsake(Sup)
     \/ dial[Sup].stage \in {"enter", "close", "dialing"}
        /\ dial' = Cancelled(dial, Sup) /\ UNCHANGED attempt
  /\ UNCHANGED <<mgrVars, dialGate, remembered, saved, hangup>>
-----------------------------------------------------------------------------
(* MqttnetConnectionManager.ConnectAsync, under both gates.                 *)

\* Mutant: what the dial replaces is read through IsConnected.
EnterReadingState(d) ==
  /\ dial[d].stage = "enter" /\ ~dial[d].cancelled /\ mgrGate = None
  /\ mgrGate' = d
  /\ dial' = [dial EXCEPT ![d].stage = "close", ![d].was = State, ![d].why = failure]
  /\ offline' = "Connecting" /\ failure' = None /\ link' = None /\ attempted' = dial[d].to
  /\ UNCHANGED <<connected, certs, late, callback, dialGate, attempt, remembered, saved, hangup>>

\* Mutant: the old link's record is left for the new link to overwrite.
EnterKeepingLink(d) ==
  /\ dial[d].stage = "enter" /\ ~dial[d].cancelled /\ mgrGate = None
  /\ mgrGate' = d
  /\ dial' = [dial EXCEPT ![d].stage = "close", ![d].was = offline, ![d].why = failure]
  /\ offline' = "Connecting" /\ failure' = None /\ attempted' = dial[d].to
  /\ UNCHANGED <<connected, link, certs, late, callback, dialGate, attempt, remembered, saved,
                 hangup>>

\* The manager's gate, the replaced state, and the fields of the new dial.
EnterManager(d) ==
  /\ dial[d].stage = "enter" /\ ~dial[d].cancelled /\ mgrGate = None
  /\ mgrGate' = d
  /\ dial' = [dial EXCEPT ![d].stage = "close", ![d].was = offline, ![d].why = failure]
  /\ offline' = "Connecting"
  /\ failure' = None
  /\ link' = None
  /\ attempted' = dial[d].to
  /\ UNCHANGED <<connected, certs, late, callback, dialGate, attempt,
                 remembered, saved, hangup>>

\* Mutant: the new link is dialled beside the old one.
LeaveOldLink(d) ==
  /\ dial[d].stage = "close"
  /\ certs' = None
  /\ To(d, "dialing")
  /\ UNCHANGED <<connected, late, offline, failure, attempted, link, mgrGate, callback,
                 dialGate, attempt, remembered, saved, hangup>>

\* The old link, if there is one, is closed and its certificates let go.
CloseOldLink(d) ==
  /\ dial[d].stage = "close"
  /\ SocketCloses(Closed)
  /\ certs' = None
  /\ To(d, "dialing")
  /\ UNCHANGED <<offline, failure, attempted, link, mgrGate, callback, dialGate,
                 attempt, remembered, saved, hangup>>

\* Called off while the old link was being closed: the inner catch.
CloseCalledOff(d) ==
  /\ dial[d].stage = "close" /\ dial[d].cancelled /\ connected # None
  /\ SocketCloses(Closed)
  /\ certs' = None
  /\ offline' = "Disconnected"
  /\ To(d, "closed")
  /\ UNCHANGED <<failure, attempted, link, mgrGate, callback, dialGate, attempt,
                 remembered, saved, hangup>>

\* The DISCONNECT could not be sent, and nobody called the dial off: the socket
\* closes, the exception passes both catches, and only the finallys run.
CloseThrows(d) ==
  /\ dial[d].stage = "close" /\ ~dial[d].cancelled /\ connected # None
  /\ SocketCloses(Closed)
  /\ certs' = None
  /\ To(d, "leaving")
  /\ UNCHANGED <<offline, failure, attempted, link, mgrGate, callback,
                 dialGate, attempt, remembered, saved, hangup>>

\* The CONNECT (the last the version walk tries) is accepted.
ConnectAccepted(d) ==
  /\ dial[d].stage = "dialing"
  /\ connected' = dial[d].to
  /\ To(d, "up")
  /\ UNCHANGED <<offline, failure, attempted, link, certs, mgrGate, late, callback, dialGate, attempt, remembered, saved, hangup>>

\* ... or fails: refused, unreachable, timed out.  Fault(), then the walk's end.
ConnectFails(d, r) ==
  /\ dial[d].stage = "dialing" /\ ~dial[d].cancelled
  /\ failure' = r
  /\ offline' = "Faulted"
  /\ To(d, "failed")
  /\ UNCHANGED <<connected, attempted, link, certs, mgrGate, late, callback, dialGate,
                 attempt, remembered, saved, hangup>>

\* Reason first: the fields of the new link, and what it was made with.
BookLink(d) ==
  /\ dial[d].stage = "up"
  /\ failure' = None
  /\ link' = dial[d].to
  /\ certs' = IF connected # None THEN dial[d].to ELSE certs
  /\ To(d, "booked")
  /\ UNCHANGED <<connected, offline, attempted, mgrGate, late, callback,
                 dialGate, attempt, remembered, saved, hangup>>

\* State second: from here on, offline means the link died.
PublishLink(d) ==
  /\ dial[d].stage = "booked"
  /\ offline' = "Faulted"
  /\ To(d, "published")
  /\ UNCHANGED <<connected, failure, attempted, link, certs, mgrGate, late, callback,
                 dialGate, attempt, remembered, saved, hangup>>

\* A dial called off: the outer catch puts back what it found. 
PutBack(d) ==
  /\ \/ dial[d].stage = "closed"
     \/ dial[d].stage \in {"dialing", "failed"} /\ dial[d].cancelled
  /\ offline' = IF dial[d].was = "Connecting" THEN "Disconnected" ELSE dial[d].was
  /\ failure' = IF offline' = "Faulted" THEN dial[d].why ELSE None
  /\ To(d, "leaving")
  /\ UNCHANGED <<connected, attempted, link, certs, mgrGate, late, callback, dialGate,
                 attempt, remembered, saved, hangup>>

\* Where a dial that leaves the manager goes.
Gone(d) ==
  \/ dial[d].stage = "published" /\ To(d, "remember")
  \/ dial[d].stage = "failed" /\ ~dial[d].cancelled /\ dial' = [dial EXCEPT ![d] = NoDial]
  \/ dial[d].stage = "leaving" /\ dial' = [dial EXCEPT ![d] = NoDial]

\* Mutant: the dial gate is released only by a dial that worked.
LeaveGateOnSuccess(d) ==
  /\ Gone(d)
  /\ mgrGate' = None
  /\ dialGate' = IF dial[d].stage = "published" THEN None ELSE dialGate
  /\ attempt' = IF attempt = d THEN None ELSE attempt
  /\ UNCHANGED <<connected, offline, failure, attempted, link, certs, late, callback,
                 remembered, saved, hangup>>

\* Mutant: a dial that was called off keeps the manager's gate.
LeaveHoldingManager(d) ==
  /\ Gone(d)
  /\ mgrGate' = IF dial[d].stage = "leaving" THEN mgrGate ELSE None
  /\ dialGate' = None
  /\ attempt' = IF attempt = d THEN None ELSE attempt
  /\ UNCHANGED <<connected, offline, failure, attempted, link, certs, late, callback,
                 remembered, saved, hangup>>

\* Mutant: a dial clears _attempt whoever stands there.
LeaveClearingAttempt(d) ==
  /\ Gone(d)
  /\ mgrGate' = None /\ dialGate' = None /\ attempt' = None
  /\ UNCHANGED <<connected, offline, failure, attempted, link, certs, late, callback,
                 remembered, saved, hangup>>

\* Leaving ConnectAsync, in the manager and then in the service: both gates,
\* _attempt if it is still this dial's, and the source disposed.
Leave(d) ==
  /\ Gone(d)
  /\ mgrGate' = None
  /\ dialGate' = None
  /\ attempt' = IF attempt = d THEN None ELSE attempt
  /\ UNCHANGED <<connected, offline, failure, attempted, link, certs, late, callback, remembered, saved, hangup>>

\* Cancelled while waiting for the manager's gate: nothing was touched.
LeaveUntouched(d) ==
  /\ dial[d].stage = "enter" /\ dial[d].cancelled
  /\ dial' = [dial EXCEPT ![d] = NoDial]
  /\ dialGate' = None
  /\ attempt' = IF attempt = d THEN None ELSE attempt
  /\ UNCHANGED <<mgrVars, remembered, saved, hangup>>

\* After the gates: the live settings, then the store.
RememberSettings(d) ==
  /\ dial[d].stage = "remember"
  /\ remembered' = dial[d].to
  /\ To(d, "save")
  /\ UNCHANGED <<mgrVars, dialGate, attempt, saved, hangup>>

\* A save that fails is logged and forgotten.
SaveSettings(d) ==
  /\ dial[d].stage = "save"
  /\ saved' \in {dial[d].to, saved}
  /\ dial' = [dial EXCEPT ![d] = NoDial]
  /\ UNCHANGED <<mgrVars, dialGate, attempt, remembered, hangup>>
-----------------------------------------------------------------------------
(* Calling off, hanging up, and the network.                                *)

\* CancelAttempt.  A dial's id is current exactly while it is in _attempt, so
\* an abort with the running dial's id and one with no id do the same.
AbortAttempt ==
  /\ attempt \in Slots /\ ~dial[attempt].cancelled
  /\ dial' = Cancelled(dial, attempt)
  /\ UNCHANGED <<mgrVars, dialGate, attempt, remembered, saved, hangup>>

\* ConnectionService.DisconnectAsync: the abort, then the manager's gate.
HangUp ==
  /\ hangup = "idle"
  /\ dial' = Cancelled(dial, attempt)
  /\ hangup' = "wait"
  /\ UNCHANGED <<mgrVars, dialGate, attempt, remembered, saved>>

\* MqttnetConnectionManager.DisconnectAsync under the gate; a DISCONNECT that
\* throws runs the same finally.
CloseLink ==
  /\ hangup = "wait" /\ mgrGate = None
  /\ offline' = "Disconnected"
  /\ failure' = None
  /\ SocketCloses(Closed)
  /\ certs' = None
  /\ hangup' = "idle"
  /\ UNCHANGED <<attempted, link, mgrGate, callback, dial, dialGate, attempt,
                 remembered, saved>>

\* The request goes away while it waits for that gate: the abort has been done.
HangUpGone ==
  /\ hangup = "wait"
  /\ hangup' = "idle"
  /\ UNCHANGED <<mgrVars, dial, dialGate, attempt, remembered, saved>>

\* The link dies by itself.
LinkDrops(r) ==
  /\ connected # None /\ r \notin late
  /\ SocketCloses(r)
  /\ UNCHANGED <<offline, failure, attempted, link, certs, mgrGate, callback,
                 svcVars>>

\* OnDisconnectedAsync starts: was the link up (ClientWasConnected), and is this
\* a fault?
OnDisconnected(r) ==
  /\ r \in late /\ callback = None
  /\ late' = late \ {r}
  /\ callback' = [why |-> IF offline = "Faulted" THEN r ELSE None]
  /\ UNCHANGED <<connected, offline, failure, attempted, link, certs, mgrGate,
                 svcVars>>

\* Mutant: the dead link's certificates are let go of whatever is up by then.
DropTakesCertificates ==
  /\ callback # None
  /\ failure' = IF callback.why # None THEN callback.why ELSE failure
  /\ certs' = None
  /\ callback' = None
  /\ UNCHANGED <<connected, offline, attempted, link, mgrGate, late, svcVars>>

\* ... and goes on: the reason it found, the dead link's certificates.
DropExplained ==
  /\ callback # None
  /\ failure' = IF callback.why # None THEN callback.why ELSE failure
  /\ certs' = IF connected # None THEN certs ELSE None
  /\ callback' = None
  /\ UNCHANGED <<connected, offline, attempted, link, mgrGate, late, svcVars>>
-----------------------------------------------------------------------------
DialInit ==
  /\ connected = None /\ offline = "Disconnected" /\ failure = None
  /\ attempted = None /\ link = None /\ certs = None /\ mgrGate = None
  /\ late = {} /\ callback = None
  /\ dial = [d \in Slots |-> NoDial]
  /\ dialGate = None /\ attempt = None /\ remembered = None
  /\ saved \in Brokers \union {None}
  /\ hangup = "idle"

\* The steps the code takes of itself once a dial has been asked for.
DialStep(d) ==
  \/ ConnectSkipped(d) \/ RegisterAttempt(d) \/ CancelStanding(d)
  \/ EnterDialGate(d) \/ EnterManager(d)
  \/ CloseOldLink(d) \/ CloseCalledOff(d) \/ CloseThrows(d)
  \/ ConnectAccepted(d) \/ \E r \in Reasons : ConnectFails(d, r)
  \/ BookLink(d) \/ PublishLink(d) \/ PutBack(d) \/ Leave(d) \/ LeaveUntouched(d)
  \/ RememberSettings(d) \/ SaveSettings(d)

Callback == (\E r \in Reasons : OnDisconnected(r)) \/ DropExplained

\* What people and the network do to the link.
Environment ==
  \/ \E d \in Readers, b \in Brokers : ReaderAsks(d, b)
  \/ AbortAttempt
  \/ HangUp \/ HangUpGone
  \/ \E r \in Reasons : LinkDrops(r)

DialSystem ==
  \/ \E d \in Slots : DialStep(d)
  \/ CloseLink
  \/ Callback
-----------------------------------------------------------------------------
(* The service on its own, the supervisor being any caller that dials what *)
(* the store holds (BrokerLinkSupervisor.AttemptAsync).                     *)

AnySupervisorAsks == saved # None /\ SupervisorAsks(saved)

Next == DialSystem \/ Environment \/ AnySupervisorAsks \/ CallerGone

Fairness ==
  /\ \A d \in Slots : WF_dialVars(DialStep(d)) /\ SF_dialVars(EnterDialGate(d))
  /\ SF_dialVars(CloseLink)
  /\ WF_dialVars(Callback)

Spec == DialInit /\ [][Next]_dialVars /\ Fairness
-----------------------------------------------------------------------------
(* What holds.                                                              *)

DialRecords ==
  [stage : Stages, to : Brokers \union {None}, cancelled : BOOLEAN,
   standing : Slots \union {Lost, None}, was : OfflineStates, why : Reasons \union {None}]

\* Every variable has the type its field has in the source.
TypeOK ==
  /\ connected \in Brokers \union {None} /\ offline \in OfflineStates
  /\ failure \in Reasons \union {None} /\ attempted \in Brokers \union {None}
  /\ link \in Brokers \union {None} /\ certs \in Brokers \union {None}
  /\ mgrGate \in Slots \union {None} /\ late \subseteq Reasons
  /\ callback \in {None} \union [why : Reasons \union {None}]
  /\ dial \in [Slots -> DialRecords]
  /\ dialGate \in Slots \union {None} /\ attempt \in Slots \union {Lost, None}
  /\ remembered \in Brokers \union {None} /\ saved \in Brokers \union {None}
  /\ hangup \in {"idle", "wait"}

\* One dial at a time, whoever asked for it: the dial gate and the manager's gate
\* are held by exactly the dial that is past them, on every path in and out.
GatesAreOwned ==
  \A d \in Slots : /\ dialGate = d <=> dial[d].stage \in InGate
                   /\ mgrGate = d <=> dial[d].stage \in InManager

\* A link is never described as another one: whatever _link says while the
\* client is connected, it says of the broker the client is connected to, in the
\* middle of a dial too.
DescribesTheLiveLink == link # None /\ connected # None => link = connected

\* What a link was made with is held for as long as that link lasts: a published
\* link has its own certificates whatever late drops are told, and once nothing
\* is running a link that is over has let go of them.
CertsFollowLink ==
  /\ mgrGate = None /\ connected # None => certs = connected
  /\ Quiet /\ connected = None => certs = None

\* Between people, no dial is left running that nobody can call off: it is the one
\* in _attempt, or a later reader is on the way to cancelling it.  ("Clearing the
\* field would leave that one unabortable.")
Abortable ==
  \A d \in Readers :
    InFlight(d) /\ ~dial[d].cancelled => attempt = d \/ \E e \in Readers : dial[e].standing = d

\* Every dial that is asked for comes to an end, and with it the gates it held.
DialsEnd == \A d \in Slots : []<>(dial[d].stage = "idle")

\* A person who hangs up is answered, however many dials stand at the gate.
HangUpLands == []<>(hangup = "idle")

\* The gates, the slots and the callbacks implement the one-link promise.
Link == INSTANCE OneLink WITH
  up       <- connected,
  dialling <- IF mgrGate = None THEN None ELSE dial[mgrGate].to

OneLinkOnly == Link!Spec
-----------------------------------------------------------------------------
(* What the comments say, and the code does not keep.                       *)

\* "Connecting is the state this dial itself wrote, so it is never what it found."
NeverFindsConnecting == [][\A d \in Slots : EnterManager(d) => offline # "Connecting"]_dialVars
=============================================================================
