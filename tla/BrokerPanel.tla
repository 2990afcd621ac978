----------------------------- MODULE BrokerPanel -----------------------------
(* The Broker panel: a form for an address, the box the address is written in, *)
(* the dial the panel makes with it, what the panel says and offers when the   *)
(* dial fails, and the beat it waits before it steps aside for a link.         *)
(*                                                                             *)
(* A form is a scheme, a host, a port and the set of the other boxes that are  *)
(* filled in, of which only the ones a scheme or the server drops are told     *)
(* apart: a WebSocket path, certificates, a password.  A text in the box is a  *)
(* scheme as it is written, a host and a port, each of which it may lack.      *)
EXTENDS Naturals, Sequences, Functions

CONSTANTS Hosts, Home,      \* brokers' hosts; Home is the one the form ships with
          None,
          OwnPort,          \* a port no scheme has for its own
          Texts,            \* what may be written or pasted in the box
          Names,            \* names a broker may be kept under
          MaxEdits, MaxDials, MaxMoves

Schemes == {"mqtt", "mqtts", "ws", "wss"}
DefaultPort == [mqtt |-> 1883, mqtts |-> 8883, ws |-> 8083, wss |-> 8084]
IsEncrypted == [mqtt |-> FALSE, mqtts |-> TRUE, ws |-> FALSE, wss |-> TRUE]
Transport   == [mqtt |-> "tcp", mqtts |-> "tcp", ws |-> "webSocket", wss |-> "webSocket"]
Twin        == [mqtt |-> "mqtts", mqtts |-> "mqtt", ws |-> "wss", wss |-> "ws"]

HostsAssumption == Home \in Hosts /\ None \notin Hosts \cup Schemes

PortAssumption == OwnPort \in Nat \ Range(DefaultPort) /\ None \notin Nat

TextsAssumption == \A t \in Texts : t.host \in Hosts \cup {None} /\ t.port \in Nat \cup {None}

VARIABLES
    form,       \* the connection the form holds
    box,        \* the text of the Address box
    said,       \* history: the form's port was said by a person or a saved broker
    leaving,    \* the Port box has the focus
    saved,      \* the last connection that worked, as the panel has fetched it
    profiles,   \* the kept brokers, by name; None where there is none
    from,       \* the kept broker whose chip is ringed
    keeping,    \* a save on its way: [name, at], or None
    mutation,   \* the panel's own Connect: [stage, reason, at]
    outcome,    \* how the server ended it, when it has: a reason, or "worked"
    srv,        \* the server's link: [state, reason, at]
    link,       \* the panel's copy of it; None until the first answer
    wasOnline,  \* what the layout effect last saw, None before it saw anything
    settling,   \* the beat a link has to hold is running
    openedByFault, open,
    chain,      \* history: the connections dialled by one Connect and the offers after it
    edits, moves

vars == <<form, box, said, leaving, saved, profiles, from, keeping, mutation, outcome,
          srv, link, wasOnline, settling, openedByFault, open, chain, edits, moves>>

theForm == <<form, box, said, leaving, from>>
theDial == <<mutation, outcome, chain>>
theLink == <<link, wasOnline, settling>>
theView == <<openedByFault, open>>

Shipped == [scheme |-> "mqtt", host |-> Home, port |-> DefaultPort["mqtt"], more |-> {}]
Bare(h) == [scheme |-> None, host |-> h, port |-> None]
Unsent  == [stage |-> "idle", reason |-> None, at |-> None]
NoLink  == [state |-> "Disconnected", reason |-> None, at |-> None]

\* What a dial may come to; "fields" is a request the API refuses field by field.
Reasons == {"timeout", "refused", "tlsNotOffered", "webSocketUpgradeRejected",
            "badCredentials", "fields", "aborted"}

Init ==
    /\ form = Shipped /\ box = Bare(Home) /\ said = FALSE /\ leaving = FALSE
    /\ saved = None /\ profiles = [n \in Names |-> None]
    /\ from = None /\ keeping = None
    /\ mutation = Unsent /\ outcome = None
    /\ srv = NoLink /\ link = None /\ wasOnline = None /\ settling = FALSE
    /\ openedByFault \in BOOLEAN /\ open = TRUE
    /\ chain = <<>> /\ edits = 0 /\ moves = 0

-----------------------------------------------------------------------------
(* Schemes and ports.                                                          *)

SchemeOf(transport, tls) ==
    CHOOSE s \in Schemes : Transport[s] = transport /\ IsEncrypted[s] = tls

\* Mutant: the port stays where it was when the scheme changes.
PortStays(old, new, port) == port

\* A port the old scheme filled in by itself moves with the scheme; any other stays.
PortFor(old, new, port) == IF port = DefaultPort[old] THEN DefaultPort[new] ELSE port

\* The scheme a port implies, along the encryption axis only.
SchemeForPort(s, port) ==
    LET named == {t \in Schemes : Transport[t] = Transport[s] /\ DefaultPort[t] = port}
    IN  IF named = {} THEN s ELSE CHOOSE t \in named : TRUE

\* The names a scheme goes by in an address.
Alias == [mqtt |-> "mqtt", tcp |-> "mqtt", mqtts |-> "mqtts", ssl |-> "mqtts",
          ws |-> "ws", http |-> "ws", wss |-> "wss", https |-> "wss"]

\* A text the console can take apart, and what is in it; not a bare host, a scheme
\* with no host after it, or a scheme there is no transport for.
Splits(text) == /\ text.host # None
                /\ IF text.scheme = None THEN text.port # None ELSE text.scheme \in DOMAIN Alias
Readable(text) == Splits(text) \/ text.scheme = None
SaidPort(text) == IF Splits(text) THEN text.port ELSE None

\* The box's text, reconciled with a form.
ApplyAddress(f, text) ==
    IF ~Splits(text)
    THEN IF text.scheme = None THEN [f EXCEPT !.host = text.host] ELSE f
    ELSE LET s == IF text.scheme # None THEN Alias[text.scheme]
                  ELSE SchemeForPort(f.scheme, text.port)
         IN  [f EXCEPT !.scheme = s, !.host = text.host,
                       !.port = IF text.port # None THEN text.port
                                ELSE PortFor(f.scheme, s, f.port)]

\* The form as the server is sent it: what belongs to another scheme is dropped.
BuildConnectRequest(f) ==
    [f EXCEPT !.more = {x \in f.more : /\ x = "path"  => Transport[f.scheme] = "webSocket"
                                       /\ x = "certs" => IsEncrypted[f.scheme]}]

\* A saved connection back in the form: no password comes back with it.
FormFromSaved(c) == [c EXCEPT !.more = @ \ {"password"}]

\* The other scheme to try after a failure, or None.
SuggestScheme(reason, at) ==
    IF reason = "tlsNotOffered" /\ IsEncrypted[at.scheme] THEN Twin[at.scheme]
    ELSE IF /\ reason \in {"timeout", "refused"}
            /\ ~IsEncrypted[at.scheme]
            /\ at.port = DefaultPort[Twin[at.scheme]]
    THEN Twin[at.scheme]
    ELSE IF reason = "webSocketUpgradeRejected" /\ at.port \in {1883, 8883}
    THEN SchemeOf("tcp", IsEncrypted[at.scheme])
    ELSE None

-----------------------------------------------------------------------------
(* What is on screen.                                                          *)

Answered   == link # None
Online     == Answered /\ link.state = "Connected"
Running    == mutation.stage = "pending" \/ (Answered /\ link.state = "Connecting")
Live       == Online /\ ~settling
FormFace   == open /\ ~Live

Aborted  == mutation.stage = "failed" /\ mutation.reason = "aborted"
OwnSaid  == mutation.stage = "failed" /\ mutation.reason \notin {"fields", "aborted"}
LinkSaid == Answered /\ link.state = "Faulted" /\ link.reason # None

\* Whose failure the sentence under the form tells, and whose the offer answers.
Sentence == IF Aborted THEN None
            ELSE IF OwnSaid THEN "own" ELSE IF LinkSaid THEN "link" ELSE None
OwnOffer  == IF OwnSaid THEN SuggestScheme(mutation.reason, mutation.at) ELSE None
LinkOffer == IF LinkSaid THEN SuggestScheme(link.reason, link.at) ELSE None
Offer     == IF Sentence = None THEN None ELSE IF OwnOffer # None THEN OwnOffer ELSE LinkOffer
OfferOf   == IF Offer = None THEN None ELSE IF OwnOffer # None THEN "own" ELSE "link"

-----------------------------------------------------------------------------
(* Filling in the form.                                                        *)

\* The form holds what the named broker holds.
Matches(f, name) == /\ profiles[name] # None
                    /\ \A k \in {"scheme", "host", "port"} : profiles[name][k] = f[k]

\* The form and the box, moved together; `port` is a port somebody said, or None.
Settle(f, port) ==
    /\ form' = f /\ box' = Bare(f.host)
    /\ said' = (port # None \/ (said /\ f.port = form.port))
    /\ from' = IF from # None /\ Matches(f, from) THEN from ELSE None

Edited == edits < MaxEdits /\ edits' = edits + 1 /\ FormFace
Still  == UNCHANGED <<saved, profiles, keeping, theDial, srv, theLink, theView, moves>>

TypeAddress == \E t \in Texts : /\ Edited /\ ~leaving
                                /\ box' = t
                                /\ UNCHANGED <<form, said, leaving, from>> /\ Still

\* The box is left, or a whole address is pasted into it.
LeaveAddress == /\ FormFace /\ ~leaving
                /\ Settle(ApplyAddress(form, box), SaidPort(box))
                /\ UNCHANGED <<leaving, edits>> /\ Still

PasteAddress == \E t \in Texts :
    /\ Edited /\ ~leaving
    /\ Settle(ApplyAddress(form, t), SaidPort(t))
    /\ UNCHANGED leaving /\ Still

PickWay(transport, tls) ==
    LET s == SchemeOf(transport, tls) IN
    /\ Edited /\ ~leaving /\ s # form.scheme
    /\ Settle([form EXCEPT !.scheme = s, !.port = PortFor(form.scheme, s, form.port)], None)
    /\ UNCHANGED leaving /\ Still

TypePort == \E p \in Range(DefaultPort) \cup {OwnPort} :
    /\ Edited
    /\ form' = [form EXCEPT !.port = p] /\ said' = TRUE /\ leaving' = TRUE
    /\ UNCHANGED <<box, from>> /\ Still

LeavePort == /\ leaving /\ FormFace
             /\ Settle([form EXCEPT !.scheme = SchemeForPort(form.scheme, form.port)], None)
             /\ leaving' = FALSE /\ UNCHANGED edits /\ Still

\* Every other box: what is typed in it goes in the form and moves nothing else.
Fill(x) ==
    /\ Edited
    /\ form' = [form EXCEPT !.more = IF x \in @ THEN @ \ {x} ELSE @ \cup {x}]
    /\ UNCHANGED <<box, said, leaving, from>> /\ Still

\* The path is asked for over a WebSocket, and certificates can be filled in while the
\* connection is encrypted.
FillPath         == Transport[form.scheme] = "webSocket" /\ Fill("path")
FillCredentials  == Fill("password")
FillCertificates == IsEncrypted[form.scheme] /\ Fill("certs")

\* A kept broker, or one out of the history, back into the form.
UsePicked(name) ==
    /\ Edited /\ ~leaving /\ profiles[name] # None
    /\ Settle(FormFromSaved(profiles[name]), profiles[name].port)
    /\ from' = name
    /\ UNCHANGED leaving /\ Still

\* The saved connection arrives, or a later fetch of it brings another one.
SavedLands(at) ==
    /\ open /\ at # saved /\ saved' = at
    /\ Settle(FormFromSaved(at), at.port)
    /\ UNCHANGED <<leaving, profiles, keeping, theDial, srv, theLink, theView, edits, moves>>

-----------------------------------------------------------------------------
(* Keeping a broker under a name.                                              *)

Keep(name) ==
    /\ open /\ keeping = None /\ ~leaving
    /\ IF Live /\ saved # None
       THEN keeping' = [name |-> name, at |-> FormFromSaved(saved)] /\ UNCHANGED theForm
       ELSE LET f == ApplyAddress(form, box) IN
            /\ Settle(f, SaidPort(box))
            /\ keeping' = [name |-> name, at |-> BuildConnectRequest(f)] /\ UNCHANGED leaving
    /\ UNCHANGED <<saved, profiles, theDial, srv, theLink, theView, edits, moves>>

Kept == /\ open /\ keeping # None /\ keeping' = None
        /\ profiles' = [profiles EXCEPT ![keeping.name] = keeping.at]
        /\ from' = keeping.name
        /\ UNCHANGED <<form, box, said, leaving, saved, theDial, srv, theLink, theView,
                       edits, moves>>

Forget(name) ==
    /\ FormFace /\ profiles[name] # None /\ keeping = None
    /\ profiles' = [profiles EXCEPT ![name] = None]
    /\ from' = IF from = name THEN None ELSE from
    /\ UNCHANGED <<form, box, said, leaving, saved, keeping, theDial, srv, theLink, theView,
                   edits, moves>>

-----------------------------------------------------------------------------
(* The dial.                                                                   *)

\* The panel's Connect goes out with f, and whatever the text box said is in f.
Connect(f, port) ==
    /\ mutation.stage # "pending" /\ Len(chain) < MaxDials
    /\ Settle(f, port)
    /\ mutation' = [stage |-> "pending", reason |-> None, at |-> BuildConnectRequest(f)]
    /\ outcome' = None
    /\ srv' = [state |-> "Connecting", reason |-> None, at |-> BuildConnectRequest(f)]
    /\ UNCHANGED <<leaving, saved, profiles, keeping, theLink, theView, edits, moves>>

\* Mutant: Connect goes to what the form held, and not to what is in the box.
SubmitForm ==
    /\ FormFace /\ ~Running /\ ~Online
    /\ Connect(form, None)
    /\ chain' = <<mutation'.at>>

Submit ==
    /\ FormFace /\ ~Running /\ ~Online
    /\ Connect(ApplyAddress(form, box), SaidPort(box))
    /\ chain' = <<mutation'.at>>

\* The offer taken: the form as it stands, on the scheme offered.
RetryOn ==
    LET current == ApplyAddress(form, box)
        next    == [current EXCEPT !.scheme = Offer,
                                   !.port = PortFor(current.scheme, Offer, current.port)]
    IN  /\ FormFace /\ Offer # None /\ ~Running /\ ~leaving
        /\ Connect(next, SaidPort(box))
        /\ chain' = IF OfferOf = "own" /\ BuildConnectRequest(current) = mutation.at
                    THEN Append(chain, mutation'.at) ELSE <<mutation'.at>>

\* What an attempt at a connection can come to: a refused upgrade is a WebSocket's.
Possible(at) == {r \in Reasons \cup {"worked"} :
                   /\ r = "tlsNotOffered" => IsEncrypted[at.scheme]
                   /\ r = "webSocketUpgradeRejected" => Transport[at.scheme] = "webSocket"}

\* The attempt ends at the server: the link is up, or it is not and says why.
DialEnds(reason) ==
    /\ mutation.stage = "pending" /\ outcome = None /\ reason \in Possible(mutation.at)
    /\ outcome' = reason
    /\ srv' = IF reason = "worked" THEN [state |-> "Connected", reason |-> None, at |-> mutation.at]
              ELSE IF reason \in {"fields", "aborted"} THEN NoLink
              ELSE [state |-> "Faulted", reason |-> reason, at |-> mutation.at]
    /\ UNCHANGED <<theForm, saved, profiles, keeping, mutation, chain, theLink, theView,
                   edits, moves>>

\* Its answer reaches the panel, before the state does or after it.
DialAnswered ==
    /\ mutation.stage = "pending" /\ outcome # None
    /\ mutation' = IF outcome = "worked" THEN [mutation EXCEPT !.stage = "worked"]
                   ELSE [mutation EXCEPT !.stage = "failed", !.reason = outcome]
    /\ outcome' = None
    /\ UNCHANGED <<theForm, saved, profiles, keeping, chain, srv, theLink, theView, edits, moves>>

\* The link moves with nothing pressed here: it drops, or another console or the
\* supervisor dials.
LinkMoves ==
    /\ moves < MaxMoves /\ moves' = moves + 1
    /\ mutation.stage # "pending"
    /\ \E h \in Hosts, s \in {"mqtt", "mqtts"}, state \in {"Connected", "Connecting", "Faulted"},
          r \in {"timeout", "tlsNotOffered"} :
          /\ r = "tlsNotOffered" => IsEncrypted[s]
          /\ srv' = [state |-> state, reason |-> IF state = "Faulted" THEN r ELSE None,
                     at |-> [scheme |-> s, host |-> h, port |-> DefaultPort[s], more |-> {}]]
    /\ UNCHANGED <<theForm, saved, profiles, keeping, theDial, theLink, theView, edits>>

\* The state arrives and the layout effect runs with it, before the paint.
StateArrives ==
    LET online == srv.state = "Connected" IN
    /\ link # srv /\ link' = srv
    /\ wasOnline' = IF online THEN "up" ELSE "down"
    /\ settling' = ((wasOnline = "down" /\ online) \/ (settling /\ online))
    /\ UNCHANGED <<theForm, saved, profiles, keeping, theDial, srv, theView, edits, moves>>

\* The beat is over: it ends whatever comes of it, and the panel the reader opened closes.
BeatEnds ==
    /\ open /\ settling /\ ~Running
    /\ settling' = FALSE
    /\ open' = openedByFault
    /\ UNCHANGED <<theForm, saved, profiles, keeping, theDial, srv, link, wasOnline,
                   openedByFault, edits, moves>>

-----------------------------------------------------------------------------

Edits ==
    \/ TypeAddress \/ LeaveAddress \/ PasteAddress \/ TypePort \/ LeavePort
    \/ FillPath \/ FillCredentials \/ FillCertificates
    \/ \E t \in {"tcp", "webSocket"}, tls \in BOOLEAN : PickWay(t, tls)

Keeps ==
    \/ \E n \in Names : Keep(n) \/ Forget(n) \/ UsePicked(n)
    \/ Kept

Dials == Submit \/ RetryOn \/ DialAnswered \/ \E r \in Reasons \cup {"worked"} : DialEnds(r)

Fetches == \E s \in {"mqtts", "wss"} :
               SavedLands([scheme |-> s, host |-> Home, port |-> DefaultPort[s],
                           more |-> {"certs", "password"}])

Next == Edits \/ Keeps \/ Dials \/ Fetches \/ LinkMoves \/ StateArrives \/ BeatEnds

\* A state pushed is delivered; a fired timer runs; an attempt ends at the server's own
\* deadline and its request is answered.
Fairness == /\ WF_vars(StateArrives) /\ WF_vars(BeatEnds)
            /\ WF_vars(\E r \in Reasons \cup {"worked"} : DialEnds(r)) /\ WF_vars(DialAnswered)

Spec == Init /\ [][Next]_vars /\ Fairness

-----------------------------------------------------------------------------
(* Properties.                                                                 *)

\* A port nobody said, here or in a saved broker, is always the one its scheme is
\* served on, whatever boxes, pastes, offers and saved connections moved either.
PortFitsItsScheme == said \/ form.port = DefaultPort[form.scheme]

\* Following the offers the panel makes about its own failed attempts never dials the
\* same broker, scheme and port twice: there is always an end to what it suggests.
OffersNeverCircle == IsInjective(chain)

\* A Connect or an offer goes to the host the box shows, whenever the console can read
\* the box, and the box and the form agree once it has gone.
DialsWhatTheBoxShows ==
    [][(mutation'.stage = "pending" /\ mutation.stage # "pending") =>
          /\ Readable(box) => mutation'.at.host = box.host
          /\ box'.host = mutation'.at.host /\ BuildConnectRequest(form') = mutation'.at]_vars

\* The beat a link has to hold always ends, so a link that is up gets its summary (or
\* the panel out of its way) and the form is never left standing over it.
SettlingEnds == settling ~> (~settling \/ ~open)

\* The offer under a failure is about the attempt the sentence above it is about.
OfferIsOfTheSentence == Offer # None => OfferOf = Sentence

\* A ringed chip is the broker the form holds, but for a port still being typed.
ChipIsTheForm == (from # None /\ ~leaving) => Matches(form, from)
==============================================================================
