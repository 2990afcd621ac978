----------------------------- MODULE AlertSound -----------------------------
(* The tone an alarm asks for: the reader's preference, the permission the     *)
(* browser grants a page on a gesture, the one listener that waits for that    *)
(* gesture, and the switch in Settings.  A press is two events, the pointer    *)
(* going down and the click, and the browser may answer between them.          *)
EXTENDS Naturals

CONSTANTS MaxAsked      \* resumes asked for and not answered

VARIABLES
    on,         \* the preference
    context,    \* "none", "suspended", "running"; "never" where the browser has no audio
    armed, waiting,
    gesture,    \* the listener for the next gesture is on the window
    asked,      \* resumes asked for and not answered
    pressing    \* what the pointer is down on: "nothing", "switch", "prompt" or "elsewhere"

vars == <<on, context, armed, waiting, gesture, asked, pressing>>

TypeOK ==
    /\ on \in BOOLEAN /\ context \in {"none", "suspended", "running", "never"}
    /\ armed \in BOOLEAN /\ waiting \in BOOLEAN /\ gesture \in BOOLEAN
    /\ asked \in 0..MaxAsked /\ pressing \in {"nothing", "switch", "prompt", "elsewhere"}

Init == /\ on \in BOOLEAN /\ context \in {"none", "never"}
        /\ armed = FALSE /\ waiting = FALSE /\ gesture = FALSE
        /\ asked = 0 /\ pressing = "nothing"

\* One context for a page, suspended until a gesture lets it run.
audio == IF context = "none" THEN "suspended" ELSE context

\* Mutant: the wait is over once the browser has answered, whichever way.
AnsweredEither(running) == armed' = running /\ waiting' = FALSE

\* What resume leaves: the state of the context is the answer, and being armed ends the wait.
Answered(running) ==
    /\ armed' = running
    /\ waiting' = (waiting /\ ~running)

armSound ==
    /\ context' = audio
    /\ CASE audio = "never"   -> armed' = FALSE /\ waiting' = FALSE /\ UNCHANGED asked
         [] audio = "running" -> Answered(TRUE) /\ UNCHANGED asked
         [] OTHER             -> asked < MaxAsked /\ asked' = asked + 1 /\ UNCHANGED <<armed, waiting>>

\* The browser answers a resume, one way or the other.
Resumes == \E running \in BOOLEAN :
    /\ asked > 0 /\ asked' = asked - 1
    /\ context' = IF running THEN "running" ELSE context
    /\ Answered(context' = "running")
    /\ UNCHANGED <<on, gesture, pressing>>

\* The browser takes a context back by itself.
Suspends == /\ context = "running" /\ context' = "suspended"
            /\ UNCHANGED <<on, armed, waiting, gesture, asked, pressing>>

\* A tone is owed: heard, or the console says so and listens for the next gesture.
soundAlert ==
    /\ on
    /\ context' = audio
    /\ CASE audio = "never"              -> UNCHANGED <<armed, waiting, gesture>>
         [] armed /\ audio = "running"   -> UNCHANGED <<armed, waiting, gesture>>
         [] OTHER -> armed' = FALSE /\ waiting' = TRUE /\ gesture' = TRUE
    /\ UNCHANGED <<on, asked, pressing>>

\* The pointer goes down: the listener takes the gesture for the permission, once.
PointerDown(what) ==
    /\ pressing = "nothing" /\ pressing' = what
    /\ what = "prompt" => on /\ waiting
    /\ gesture' = FALSE
    /\ IF gesture THEN armSound ELSE UNCHANGED <<context, armed, waiting, asked>>
    /\ UNCHANGED on

turnSoundOn  == on' = TRUE /\ armSound
turnSoundOff == on' = FALSE /\ waiting' = FALSE /\ UNCHANGED <<context, armed, asked>>

\* The click, on the switch as it stands by then; the prompt may have gone from under it.
Click ==
    /\ pressing # "nothing" /\ pressing' = "nothing"
    /\ CASE pressing = "switch"                  -> IF on /\ armed THEN turnSoundOff ELSE turnSoundOn
         [] pressing = "prompt" /\ on /\ waiting -> turnSoundOn
         [] OTHER -> UNCHANGED <<on, context, armed, waiting, asked>>
    /\ UNCHANGED gesture

Next == \/ Resumes \/ Suspends \/ soundAlert \/ Click
        \/ \E what \in {"switch", "prompt", "elsewhere"} : PointerDown(what)

Spec == Init /\ [][Next]_vars

-----------------------------------------------------------------------------
(* Properties.                                                                 *)

\* A tone that was missed is never forgotten: the console goes on saying so until the page
\* can be heard or the reader turns the sound off.
OwedUntilHeard == [][(waiting /\ ~waiting') => (armed' \/ ~on')]_vars

\* While a tone is owed the line at the root stands: the sound is on and the page cannot be
\* heard, whatever was answered, taken back or pressed since.
WaitingIsUnarmed == waiting => on /\ ~armed
=============================================================================
