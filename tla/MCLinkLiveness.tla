--------------------------- MODULE MCLinkLiveness ---------------------------
(***************************************************************************)
(* What the link's two keepers are sure to come to, for TLC: the dials and *)
(* hang-ups at the two gates (BrokerDial), and the supervisor's tries and  *)
(* ladder (LinkSupervisor).  Each moves on its own, under its module's own *)
(* fairness: which one is the part chosen at the start.                    *)
(***************************************************************************)
EXTENDS LinkSupervisor

CONSTANTS Readers, Sup, Closed, Lost, Parts

VARIABLES
  connected, offline, failure, attempted, link, certs, mgrGate, dropsToTell, callback,
  dials, dialGate, attempting, remembered, stored, hangingUp,
  part

D == INSTANCE BrokerDial WITH
  Reasons <- {Closed}, late <- dropsToTell, dial <- dials, attempt <- attempting,
  saved <- stored, hangup <- hangingUp

dialVars == <<connected, offline, failure, attempted, link, certs, mgrGate, dropsToTell, callback,
              dials, dialGate, attempting, remembered, stored, hangingUp>>
-----------------------------------------------------------------------------
\* Two rungs are enough to climb and to reach the flat end of the ladder.
MCBackoff == <<1, 2>>

\* Everybody who dials, and Stop trying: what can keep a try or the ladder waiting.
\* A person who aborts every try the ladder makes is left out.
Climbing == System \/ World \/ RetryNow \/ Cancel \/ \E b \in Brokers : ReaderAsks(b)

\* The contention alone: dials and hang-ups without end, and no drops or aborts,
\* which only let a dial go sooner.
Contention ==
  \/ D!DialSystem
  \/ \E d \in Readers, b \in Brokers : D!ReaderAsks(d, b)
  \/ D!HangUp
  \/ D!AnySupervisorAsks

\* The part that is not chosen stands still, so one of its starts is enough; and at the gates
\* nothing is saved at first (what is saved decides nothing there but how an abort ends).
LinkInit ==
  /\ Init /\ D!DialInit /\ part \in Parts
  /\ part = "dials" => saved = None /\ ~enabled
  /\ stored = None

allVars == <<vars, dialVars, part>>

\* A step of the chosen part, whichever that is.
Either(onLadder, atGates) ==
  /\ \/ part = "ladder" /\ onLadder /\ UNCHANGED dialVars
     \/ part = "dials" /\ atGates /\ UNCHANGED vars
  /\ UNCHANGED part

LinkNext == Either(Climbing, Contention)

\* The fairness of each module, asked of it alone.  The parts never meet, so one condition asks
\* a step of each; and the loop is one task, at one place at a time.
LinkFairness ==
  /\ WF_allVars(Either(HangUpLands, D!DialStep(Sup)))
  /\ WF_allVars(Either(DropExplained, D!Callback))
  /\ WF_allVars(Either(ReadSettings, FALSE)) /\ WF_allVars(Either(Tick, FALSE))
  /\ WF_allVars(Either(StartUp \/ Poll \/ AfterRedial, FALSE))
  /\ WF_allVars(Either(AfterRetry, FALSE))
  /\ SF_allVars(Either(SupervisorDials, D!EnterDialGate(Sup)))
  /\ SF_allVars(Either(FALSE, D!CloseLink))
  /\ \A r \in Readers : /\ WF_allVars(Either(ReaderDials, D!DialStep(r)))
                        /\ SF_allVars(Either(FALSE, D!EnterDialGate(r)))

LinkSpec == LinkInit /\ [][LinkNext]_allVars /\ LinkFairness
-----------------------------------------------------------------------------
\* Every dial ends (ConnectionService.ConnectAsync), and every hang-up gets through both gates
\* (DisconnectAsync), whoever else keeps coming.
DialsEnd == D!DialsEnd
HangUpsLand == D!HangUpLands
=============================================================================
