-------------------------- MODULE MCLinkSupervisor --------------------------
(* Instances of LinkSupervisor for TLC. *)
EXTENDS LinkSupervisor, TLC

\* Two rungs are enough to climb and to reach the flat end of the ladder.
MCBackoff == <<1, 2>>

Symmetric == Permutations(Brokers)

\* Two brokers and everybody but Try now, which is another run's.
NoTryNow == \/ ReaderDials \/ HangUpLands \/ DropExplained
            \/ ReadSettings \/ SupervisorDials
            \/ StartUp \/ Poll \/ AfterRedial \/ Tick
            \/ World \/ AbortAttempt \/ HangUp \/ HangUpGone \/ Cancel
            \/ (\E b \in Brokers : ReaderAsks(b)) \/ (\E on \in BOOLEAN : SetEnabled(on))

NoTryNowSpec == Init /\ [][NoTryNow]_vars
=============================================================================
