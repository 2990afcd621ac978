---------------------------- MODULE TrafficIntake ----------------------------
(* How messages come into the console: the hub connection and the one loop     *)
(* that retries it, the queue between the hub and the stores that hands over a *)
(* frame at a time and can be held, and what Stop, Clear and a fresh tree do   *)
(* to what is waiting.                                                         *)
(*                                                                             *)
(* A message is its topic and the order it arrived in.  The connection and its *)
(* own reconnecting are the hub library's.                                     *)
EXTENDS Naturals, Sequences, SequencesExt, FiniteSets, Sieve

CONSTANTS Topics,
          PerFrame, Ceiling,    \* what a frame hands over, what may wait
          MaxMessages, MaxOutages, MaxPresses

BoundsAssumption == PerFrame \in Nat \ {0} /\ Ceiling \in Nat \ {0}

VARIABLES
    net,        \* the connection: "off", "starting", "up" or "auto", the library's own retries
    loops,      \* retries by hand in flight: starts not answered and timers not fired
    retrying,   \* the flag that makes the second caller a no-op
    opened,     \* the console's first start: "due", "out" or "over"
    status,     \* what the console says of its own server: "live" or "reconnecting"
    stale,      \* something was missed and the stores have not been fetched since
    queue,      \* messages waiting, oldest first
    frame,      \* a frame is scheduled
    held,       \* the buffer is held
    paused, waiting, lost,      \* the pause store: the stop, the figure shown, what was let go
    landed,     \* messages taken in since the tree was started, oldest first
    arrivals,   \* history: how many have arrived
    goneBy,     \* history: arrivals cleared, overflowed or left behind by a fresh tree
    since,      \* history: how many had arrived when the tree was last started
    outages, presses

vars == <<net, loops, retrying, opened, status, stale, queue, frame, held, paused, waiting,
          lost, landed, arrivals, goneBy, since, outages, presses>>

connection == <<net, loops, retrying, opened, status, stale, outages>>
buffer     == <<queue, frame, held>>
told       == <<landed, arrivals, goneBy, since>>

Init ==
    /\ net = "off" /\ loops = 0 /\ retrying = FALSE /\ opened = "due"
    /\ status = "live" /\ stale = TRUE
    /\ queue = <<>> /\ frame = FALSE /\ held = FALSE
    /\ paused = FALSE /\ waiting = 0 /\ lost = 0
    /\ landed = <<>> /\ arrivals = 0 /\ goneBy = {} /\ since = 0
    /\ outages = 0 /\ presses = 0

-----------------------------------------------------------------------------
(* The hub.                                                                    *)

Kept == UNCHANGED <<buffer, paused, waiting, lost, told, presses>>

\* One loop at a time: whoever asks second starts nothing.
RetryUntilConnected ==
    /\ retrying' = TRUE
    /\ loops' = IF retrying THEN loops ELSE loops + 1

Start == /\ opened = "due" /\ opened' = "out" /\ net' = "starting"
         /\ UNCHANGED <<loops, retrying, status, stale, outages>> /\ Kept

\* The stores' first fetch goes out with the subscription, before the start is answered.
StartWorks == /\ opened = "out" /\ net = "starting"
              /\ opened' = "over" /\ net' = "up" /\ stale' = FALSE
              /\ UNCHANGED <<loops, retrying, status, outages>> /\ Kept

\* The start is refused, and the library may close the connection over the same failure:
\* both ask for the loop.
StartFails ==
    /\ opened = "out" /\ net = "starting" /\ outages < MaxOutages
    /\ opened' = "over" /\ net' = "off" /\ outages' = outages + 1
    /\ status' = "reconnecting"
    /\ RetryUntilConnected
    /\ UNCHANGED stale /\ Kept

\* onclose: the library's schedule is spent, or a failed start closed the connection.
Closed ==
    /\ net = "auto" \/ (net = "off" /\ opened = "over" /\ outages < MaxOutages)
    /\ net' = "off" /\ status' = "reconnecting"
    /\ outages' = IF net = "auto" THEN outages ELSE outages + 1
    /\ RetryUntilConnected
    /\ UNCHANGED <<opened, stale>> /\ Kept

Drops == /\ net = "up" /\ outages < MaxOutages
         /\ net' = "auto" /\ outages' = outages + 1
         /\ status' = "reconnecting" /\ stale' = TRUE
         /\ UNCHANGED <<loops, retrying, opened>> /\ Kept

\* reconnected: the stores are fetched again rather than trusted.
Reconnected == status' = "live" /\ stale' = FALSE

AutoWorks == /\ net = "auto" /\ net' = "up" /\ Reconnected
             /\ UNCHANGED <<loops, retrying, opened, outages>> /\ Kept

\* A retry that works and leaves the flag up: the next outage starts no loop.
RetryWorksOnce == /\ loops > 0 /\ net = "off"
                  /\ net' = "up" /\ loops' = loops - 1
                  /\ Reconnected
                  /\ UNCHANGED <<retrying, opened, outages>> /\ Kept

\* A retry's start is answered.  One made on a connection that is up is refused for being
\* up, and asks again like any other that failed.
RetryWorks == /\ loops > 0 /\ net = "off"
              /\ net' = "up" /\ loops' = loops - 1 /\ retrying' = FALSE
              /\ Reconnected
              /\ UNCHANGED <<opened, outages>> /\ Kept

-----------------------------------------------------------------------------
(* The queue.                                                                  *)

Schedule(wants, h) == wants # <<>> /\ ~h

\* What the ceiling leaves of a queue: the oldest go.
Trimmed(q) == IF Len(q) > Ceiling THEN SubSeq(q, Len(q) - Ceiling + 1, Len(q)) ELSE q

Ids(q) == {q[i].id : i \in DOMAIN q}

\* A batch from the hub, appended and trimmed; the figure is what is waiting now.
MessagesReceived(t, n) ==
    LET more == queue \o [i \in 1..n |-> [topic |-> t, id |-> arrivals + i]]
        over == Len(more) - Len(Trimmed(more))
    IN  /\ net = "up" /\ arrivals + n <= MaxMessages
        /\ arrivals' = arrivals + n
        /\ queue' = Trimmed(more)
        /\ frame' = (frame \/ Schedule(queue', held))
        /\ lost' = lost + over /\ waiting' = Len(queue')
        /\ goneBy' = goneBy \cup (Ids(more) \ Ids(queue'))
        /\ UNCHANGED <<connection, held, paused, landed, since, presses>>

\* A frame: a batch goes to the log and the tree, and what is left asks for another frame.
Frame ==
    LET n == IF Len(queue) < PerFrame THEN Len(queue) ELSE PerFrame
    IN  /\ frame /\ ~held
        /\ landed' = landed \o SubSeq(queue, 1, n)
        /\ queue' = SubSeq(queue, n + 1, Len(queue))
        /\ frame' = Schedule(queue', held)
        /\ waiting' = IF n > 0 THEN Len(queue') ELSE waiting
        /\ UNCHANGED <<connection, held, paused, lost, arrivals, goneBy, since, presses>>

\* The rail's Stop: held, the queue fills; let go, it drains a frame at a time.
Hold    == held' = TRUE /\ frame' = FALSE
Release == held' = FALSE /\ frame' = (frame \/ Schedule(queue, FALSE))

Toggle ==
    /\ presses < MaxPresses /\ presses' = presses + 1
    /\ paused' = ~paused
    /\ IF paused THEN Release /\ UNCHANGED lost ELSE Hold /\ lost' = 0
    /\ UNCHANGED <<connection, queue, waiting, told>>

\* Clear and an unsubscribe: the topics leave the log, and what waits on them leaves the
\* queue.  A frame already scheduled may find nothing left.
Spared(q, gone) == Sieved(q, {m \in ToSet(q) : m.topic \notin gone})

DropQueued(gone) ==
    /\ queue' = Spared(queue, gone)
    /\ waiting' = Len(queue')

ForgetTopics(gone) ==
    /\ presses < MaxPresses /\ presses' = presses + 1
    /\ DropQueued(gone)
    /\ landed' = Spared(landed, gone)
    /\ goneBy' = goneBy \cup {m.id : m \in {x \in ToSet(queue) \cup ToSet(landed) : x.topic \in gone}}
    /\ UNCHANGED <<connection, frame, held, paused, lost, arrivals, since>>

\* A fresh tree that keeps what is waiting and only lets its frame go.
ForgetFrameOnly == queue' = queue /\ frame' = FALSE

\* A fresh tree: everything waiting was meant for the tree that has gone, and the log goes too.
Forget == queue' = <<>> /\ frame' = FALSE

Restarted ==
    /\ presses < MaxPresses /\ presses' = presses + 1
    /\ Forget /\ lost' = lost + Len(queue) /\ waiting' = 0
    /\ landed' = <<>> /\ since' = arrivals
    /\ goneBy' = goneBy \cup Ids(queue) \cup Ids(landed)
    /\ UNCHANGED <<connection, held, paused, arrivals>>

-----------------------------------------------------------------------------

HubSteps == Start \/ StartWorks \/ StartFails \/ Closed \/ Drops \/ AutoWorks \/ RetryWorks

Next ==
    \/ HubSteps
    \/ \E t \in Topics, n \in 1..2 : MessagesReceived(t, n)
    \/ Frame \/ Toggle \/ Restarted
    \/ \E gone \in SUBSET Topics \ {{}} : ForgetTopics(gone)

\* Frames are drawn; a server that is there answers a start, and the library's schedule of
\* its own retries ends one way or the other.
Fairness == /\ WF_vars(Frame) /\ WF_vars(Start) /\ WF_vars(StartWorks \/ StartFails)
            /\ WF_vars(AutoWorks \/ Closed) /\ WF_vars(RetryWorks)

Spec == Init /\ [][Next]_vars /\ Fairness

-----------------------------------------------------------------------------
(* Properties.                                                                 *)

\* Every message that arrived is in exactly one place, the log, the queue or among those let
\* go, and what landed and what waits stand in the order they arrived in.
AllAccountedFor ==
    LET line == landed \o queue IN
    /\ Ids(line) \cap goneBy = {} /\ Ids(line) \cup goneBy = 1..arrivals
    /\ \A i, j \in DOMAIN line : i < j => line[i].id < line[j].id

\* The figure beside Stop is the queue, after every batch, frame, Clear and fresh tree.
LineIsTrue == waiting = Len(queue)

\* Nothing that arrived for an earlier tree lands in this one.
NothingCrossesARestart == \A i \in DOMAIN landed : landed[i].id > since

\* There is never a second loop retrying the hub, nor one left over a connection that is up.
OneRetrier == loops <= 1 /\ (net = "up" => loops = 0)

\* A queue that is not held comes in: what waits lands, or a press stops it or lets it go.
QueueDrains == (queue # <<>> /\ ~paused) ~> (queue = <<>> \/ paused)

\* A connection that went is put back, and the console says so and fetches what it missed.
HubRecovers == (status = "reconnecting") ~> (net = "up" /\ status = "live" /\ ~stale)
==============================================================================
