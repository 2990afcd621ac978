---------------------------- MODULE ServerProofs ----------------------------
(***************************************************************************)
(* Proofs about the server's callers.  Of Subscriptions, for any filters,  *)
(* covers and levels, with the three callers interleaved at every await:   *)
(* its types, what a caller that lets go may rely on of the record it      *)
(* read, and that no owner's claim is lost to another; and where one call  *)
(* follows another, that a filter somebody holds arrives and none stands   *)
(* under another.  Of BrokerDial, for any number of consoles on a host     *)
(* that does not redial: that every dial can be called off.                *)
(***************************************************************************)
EXTENDS MCServer, FiniteSetTheorems, WellFoundedInduction, TLAPS

\* What a call that lets go of a filter knows: it read a claim of its own, it
\* unsubscribes only when that was the last, and while nobody wrote the record
\* since, it still says what was read.
Reads(r, o, own) ==
  /\ r.stage \in {"release", "unsuback"} => r.filter \in Filters /\ o \in r.was
  /\ r.stage = "unsuback" => r.was = {o}
  /\ r.fresh => r.stage \in {"release", "unsuback"} /\ own[r.filter] = r.was

AllRead(k, own) == \A c \in Callers : Reads(k[c], OwnerOf(c), own)

ReadsAreTrue == AllRead(call, owners)

\* The inductive invariant.
IInv == TypeOK /\ ReadsAreTrue
-----------------------------------------------------------------------------
(* Records of calls.                                                        *)

Batches == [by : SUBSET Owners, reqs : SUBSET Requests]

CallsTyped(k) == DOMAIN k = Callers /\ \A c \in Callers : k[c] \in CallRecords

\* A call moves to another stage.
LEMMA SetStage ==
  ASSUME NEW r \in CallRecords, NEW x \in Stages
  PROVE  LET s == [r EXCEPT !.stage = x]
         IN  /\ s \in CallRecords /\ s.stage = x
             /\ s.filter = r.filter /\ s.was = r.was /\ s.fresh = r.fresh /\ s.unsubs = r.unsubs
BY DEF CallRecords, Stages

\* ... has other batches to ask for,
LEMMA SetSubs ==
  ASSUME NEW r \in CallRecords, NEW x \in SUBSET Batches
  PROVE  LET s == [r EXCEPT !.subs = x]
         IN  /\ s \in CallRecords
             /\ s.stage = r.stage /\ s.filter = r.filter /\ s.was = r.was /\ s.fresh = r.fresh /\ s.unsubs = r.unsubs
BY DEF CallRecords, Batches

\* ... other filters to let go of,
LEMMA SetUnsubs ==
  ASSUME NEW r \in CallRecords, NEW x \in SUBSET Filters
  PROVE  LET s == [r EXCEPT !.unsubs = x]
         IN  /\ s \in CallRecords /\ s.unsubs = x
             /\ s.stage = r.stage /\ s.filter = r.filter /\ s.was = r.was /\ s.fresh = r.fresh
BY DEF CallRecords

\* ... asks for other owners,
LEMMA SetBy ==
  ASSUME NEW r \in CallRecords, NEW x \in SUBSET Owners
  PROVE  LET s == [r EXCEPT !.by = x]
         IN  /\ s \in CallRecords
             /\ s.stage = r.stage /\ s.filter = r.filter /\ s.was = r.was /\ s.fresh = r.fresh /\ s.unsubs = r.unsubs
BY DEF CallRecords

\* ... is granted other requests,
LEMMA SetGranted ==
  ASSUME NEW r \in CallRecords, NEW x \in SUBSET Requests
  PROVE  LET s == [r EXCEPT !.granted = x]
         IN  /\ s \in CallRecords
             /\ s.stage = r.stage /\ s.filter = r.filter /\ s.was = r.was /\ s.fresh = r.fresh /\ s.unsubs = r.unsubs
BY DEF CallRecords

\* ... refused others,
LEMMA SetNo ==
  ASSUME NEW r \in CallRecords, NEW x \in SUBSET Filters
  PROVE  LET s == [r EXCEPT !.no = x]
         IN  /\ s \in CallRecords
             /\ s.stage = r.stage /\ s.filter = r.filter /\ s.was = r.was /\ s.fresh = r.fresh /\ s.unsubs = r.unsubs
BY DEF CallRecords

\* ... quietens under another filter,
LEMMA SetWide ==
  ASSUME NEW r \in CallRecords, NEW x \in Filters \union {None}
  PROVE  LET s == [r EXCEPT !.wide = x]
         IN  /\ s \in CallRecords
             /\ s.stage = r.stage /\ s.filter = r.filter /\ s.was = r.was /\ s.fresh = r.fresh /\ s.unsubs = r.unsubs
BY DEF CallRecords

\* ... other filters,
LEMMA SetNarrow ==
  ASSUME NEW r \in CallRecords, NEW x \in SUBSET Filters
  PROVE  LET s == [r EXCEPT !.narrow = x]
         IN  /\ s \in CallRecords
             /\ s.stage = r.stage /\ s.filter = r.filter /\ s.was = r.was /\ s.fresh = r.fresh /\ s.unsubs = r.unsubs
BY DEF CallRecords

\* ... lets go of another,
LEMMA SetFilter ==
  ASSUME NEW r \in CallRecords, NEW x \in Filters \union {None}
  PROVE  LET s == [r EXCEPT !.filter = x]
         IN  /\ s \in CallRecords /\ s.filter = x
             /\ s.stage = r.stage /\ s.was = r.was /\ s.fresh = r.fresh /\ s.unsubs = r.unsubs
BY DEF CallRecords

\* ... read other owners,
LEMMA SetWas ==
  ASSUME NEW r \in CallRecords, NEW x \in SUBSET Owners
  PROVE  LET s == [r EXCEPT !.was = x]
         IN  /\ s \in CallRecords /\ s.was = x
             /\ s.stage = r.stage /\ s.filter = r.filter /\ s.fresh = r.fresh /\ s.unsubs = r.unsubs
BY DEF CallRecords

\* ... and may find its record rewritten.
LEMMA SetFresh ==
  ASSUME NEW r \in CallRecords, NEW x \in BOOLEAN
  PROVE  LET s == [r EXCEPT !.fresh = x]
         IN  /\ s \in CallRecords /\ s.fresh = x
             /\ s.stage = r.stage /\ s.filter = r.filter /\ s.was = r.was /\ s.unsubs = r.unsubs
BY DEF CallRecords

\* The names of the stages.
LEMMA StageNames ==
  {"idle", "next", "suback", "recording", "quieten", "quietack", "release", "unsuback"} = Stages
BY DEF Stages

\* A call that is none.
LEMMA NoCallType ==
  /\ NoCall \in CallRecords
  /\ NoCall.stage = "idle" /\ NoCall.fresh = FALSE
BY DEF NoCall, CallRecords, Stages

\* A call that has just begun.
LEMMA StartedType ==
  ASSUME NEW s \in SUBSET Batches, NEW u \in SUBSET Filters
  PROVE  /\ [NoCall EXCEPT !.stage = "next", !.subs = s, !.unsubs = u] \in CallRecords
         /\ [NoCall EXCEPT !.stage = "next", !.subs = s, !.unsubs = u].stage = "next"
         /\ [NoCall EXCEPT !.stage = "next", !.subs = s, !.unsubs = u].fresh = FALSE
<1> DEFINE m == [NoCall EXCEPT !.stage = "next"]
           n == [m EXCEPT !.subs = s]
           o == [n EXCEPT !.unsubs = u]
<1>1. m \in CallRecords
  BY NoCallType, StageNames, SetStage
<1>2. n \in CallRecords
  <2> HIDE DEF m
  <2> QED BY <1>1, SetSubs
<1>3. o \in CallRecords
  <2> HIDE DEF n
  <2> QED BY <1>2, SetUnsubs
<1>4. o = [NoCall EXCEPT !.stage = "next", !.subs = s, !.unsubs = u]
  OBVIOUS
<1>5. [NoCall EXCEPT !.stage = "next", !.subs = s, !.unsubs = u].stage = "next"
      /\ [NoCall EXCEPT !.stage = "next", !.subs = s, !.unsubs = u].fresh = FALSE
  BY DEF NoCall
<1> QED BY <1>3, <1>4, <1>5

\* One call's record is replaced, and the others stand.
LEMMA OneSet ==
  ASSUME NEW k, CallsTyped(k), NEW c \in Callers, NEW r \in CallRecords,
         NEW own, AllRead(k, own), Reads(r, OwnerOf(c), own)
  PROVE  /\ CallsTyped([k EXCEPT ![c] = r]) /\ AllRead([k EXCEPT ![c] = r], own)
         /\ [k EXCEPT ![c] = r][c] = r
BY DEF CallsTyped, AllRead

\* A record that is written leaves every call as it is, but for what it read.
LEMMA RewrittenKept ==
  ASSUME NEW k, CallsTyped(k), NEW fs
  PROVE  /\ CallsTyped(Rewritten(k, fs))
         /\ \A x \in Callers :
              /\ Rewritten(k, fs)[x].stage = k[x].stage
              /\ Rewritten(k, fs)[x].filter = k[x].filter
              /\ Rewritten(k, fs)[x].was = k[x].was
              /\ Rewritten(k, fs)[x].fresh => k[x].fresh /\ k[x].filter \notin fs
<1>1. DOMAIN Rewritten(k, fs) = Callers
  BY DEF Rewritten
<1>2. ASSUME NEW x \in Callers
      PROVE  /\ Rewritten(k, fs)[x] \in CallRecords
             /\ Rewritten(k, fs)[x].stage = k[x].stage
             /\ Rewritten(k, fs)[x].filter = k[x].filter
             /\ Rewritten(k, fs)[x].was = k[x].was
             /\ Rewritten(k, fs)[x].fresh => k[x].fresh /\ k[x].filter \notin fs
  <2> DEFINE v == k[x].fresh /\ k[x].filter \notin fs
  <2>1. v \in BOOLEAN
    OBVIOUS
  <2>2. k[x] \in CallRecords
    BY DEF CallsTyped
  <2>3. Rewritten(k, fs)[x] = [k[x] EXCEPT !.fresh = v]
    BY DEF Rewritten
  <2> HIDE DEF v
  <2>4. Rewritten(k, fs)[x] \in CallRecords
    BY <2>1, <2>2, <2>3, SetFresh
  <2>5. /\ Rewritten(k, fs)[x].stage = k[x].stage
        /\ Rewritten(k, fs)[x].filter = k[x].filter
        /\ Rewritten(k, fs)[x].was = k[x].was
        /\ Rewritten(k, fs)[x].fresh = v
    BY <2>1, <2>2, <2>3, SetFresh
  <2> QED BY <2>4, <2>5 DEF v
<1> QED BY <1>1, <1>2 DEF CallsTyped
-----------------------------------------------------------------------------
(* What the operators on a call's record return.                            *)

\* What reading a record writes into the call, but for its being fresh.
Reread(c, f, s, g, w) ==
  [call[c] EXCEPT !.stage = s, !.filter = g, !.was = w, !.unsubs = @ \ {f}]

\* ... is a call's record.
LEMMA RereadKept ==
  ASSUME TypeOK, NEW c \in Callers, NEW f \in Filters, NEW s \in Stages,
         NEW g \in Filters \union {None}, NEW w \in SUBSET Owners
  PROVE  /\ Reread(c, f, s, g, w) \in CallRecords /\ Reread(c, f, s, g, w).stage = s
         /\ Reread(c, f, s, g, w).filter = g /\ Reread(c, f, s, g, w).was = w
<1> DEFINE m == [call[c] EXCEPT !.stage = s]
           n == [m EXCEPT !.filter = g]
           o == [n EXCEPT !.was = w]
           p == [o EXCEPT !.unsubs = @ \ {f}]
<1>0. call[c] \in CallRecords /\ call[c].unsubs \ {f} \in SUBSET Filters
  BY DEF TypeOK, CallRecords
<1>1. m \in CallRecords /\ m.stage = s /\ m.unsubs = call[c].unsubs
  BY <1>0, SetStage
<1>2. n \in CallRecords /\ n.stage = s /\ n.filter = g /\ n.unsubs = call[c].unsubs
  <2> HIDE DEF m
  <2> QED BY <1>1, SetFilter
<1>3. o \in CallRecords /\ o.stage = s /\ o.filter = g /\ o.was = w /\ o.unsubs = call[c].unsubs
  <2> HIDE DEF n
  <2> QED BY <1>2, SetWas
<1>4. p \in CallRecords /\ p.stage = s /\ p.filter = g /\ p.was = w
  <2> HIDE DEF o
  <2> QED BY <1>0, <1>3, SetUnsubs
<1>5. Reread(c, f, s, g, w) = p
  BY DEF Reread
<1> HIDE DEF p
<1> QED BY <1>4, <1>5

\* A claim that is read, or is not there.
LEMMA ReadKept ==
  ASSUME TypeOK, NEW c \in Callers, NEW f \in Filters
  PROVE  /\ Read(c, f) \in CallRecords
         /\ Reads(Read(c, f), OwnerOf(c), owners)
<1>0. owners[f] \in SUBSET Owners
  BY DEF TypeOK
<1>1. CASE OwnerOf(c) \in owners[f]
  <2> DEFINE r == Reread(c, f, "release", f, owners[f])
  <2>1. r \in CallRecords /\ r.stage = "release" /\ r.filter = f /\ r.was = owners[f]
    BY <1>0, StageNames, RereadKept
  <2>2. Read(c, f) = [r EXCEPT !.fresh = TRUE]
    BY <1>1 DEF Read, Reread
  <2> HIDE DEF r
  <2>3. /\ Read(c, f) \in CallRecords /\ Read(c, f).stage = "release"
        /\ Read(c, f).filter = f /\ Read(c, f).was = owners[f]
    BY <2>1, <2>2, SetFresh
  <2> QED BY <1>1, <2>3 DEF Reads
<1>2. CASE OwnerOf(c) \notin owners[f]
  <2> DEFINE r == Reread(c, f, "next", None, {})
  <2>1. r \in CallRecords /\ r.stage = "next"
    BY StageNames, RereadKept
  <2>2. Read(c, f) = [r EXCEPT !.fresh = FALSE]
    BY <1>2 DEF Read, Reread
  <2> HIDE DEF r
  <2>3. Read(c, f) \in CallRecords /\ Read(c, f).stage = "next" /\ Read(c, f).fresh = FALSE
    BY <2>1, <2>2, SetFresh
  <2> QED BY <2>3 DEF Reads
<1> QED BY <1>1, <1>2

\* A filter that is let go of, or need not be.
LEMMA DoneKept ==
  ASSUME TypeOK, NEW c \in Callers
  PROVE  /\ Done(c) \in CallRecords
         /\ Done(c).stage = "next" /\ Done(c).fresh = FALSE
<1> DEFINE m == [call[c] EXCEPT !.stage = "next"]
           n == [m EXCEPT !.filter = None]
           o == [n EXCEPT !.was = {}]
           p == [o EXCEPT !.fresh = FALSE]
<1>1. m \in CallRecords /\ m.stage = "next"
  BY SetStage, StageNames DEF TypeOK
<1>2. n \in CallRecords /\ n.stage = "next"
  <2> HIDE DEF m
  <2> QED BY <1>1, SetFilter
<1>3. o \in CallRecords /\ o.stage = "next"
  <2> HIDE DEF n
  <2> QED BY <1>2, SetWas
<1>4. p \in CallRecords /\ p.stage = "next" /\ p.fresh = FALSE
  <2> HIDE DEF o
  <2> QED BY <1>3, SetFresh
<1>5. Done(c) = p
  BY DEF Done
<1> QED BY <1>4, <1>5

\* A call that is past the reads, or before them, relies on no record.
LEMMA RestsOnNothing ==
  ASSUME NEW r, NEW o, NEW own, r.stage \notin {"release", "unsuback"}, ~r.fresh
  PROVE  Reads(r, o, own)
BY DEF Reads

\* What a call knows of its record is true of it after a step that rewrites no
\* record it takes for fresh.
LEMMA StillTrue ==
  ASSUME NEW r, NEW s, NEW o, NEW own, NEW own2, Reads(r, o, own),
         s.stage = r.stage, s.filter = r.filter, s.was = r.was,
         s.fresh => r.fresh /\ own2[r.filter] = own[r.filter]
  PROVE  Reads(s, o, own2)
BY DEF Reads

\* Records are written: whoever read one of them is told.
LEMMA AllTold ==
  ASSUME NEW k, CallsTyped(k), NEW own, AllRead(k, own), NEW fs, NEW own2,
         \A f \in Filters : f \notin fs => own2[f] = own[f]
  PROVE  CallsTyped(Rewritten(k, fs)) /\ AllRead(Rewritten(k, fs), own2)
<1> DEFINE l == Rewritten(k, fs)
<1>1. /\ CallsTyped(l)
      /\ \A x \in Callers :
           /\ l[x].stage = k[x].stage /\ l[x].filter = k[x].filter /\ l[x].was = k[x].was
           /\ l[x].fresh => k[x].fresh /\ k[x].filter \notin fs
  BY RewrittenKept
<1> HIDE DEF l
<1>2. ASSUME NEW x \in Callers PROVE Reads(l[x], OwnerOf(x), own2)
  <2>1. Reads(k[x], OwnerOf(x), own)
    BY DEF AllRead
  <2>2. l[x].fresh => k[x].fresh /\ own2[k[x].filter] = own[k[x].filter]
    BY <1>1, <2>1 DEF Reads
  <2> QED BY <1>1, <2>1, <2>2, StillTrue
<1>3. CallsTyped(l) /\ AllRead(l, own2)
  BY <1>1, <1>2 DEF AllRead
<1> QED BY <1>3 DEF l

\* The levels a batch leaves, of what the broker holds or of what was asked.
LEMMA AtQosType ==
  ASSUME NEW q, NEW reqs \in SUBSET Requests
  PROVE  /\ q \in [Filters -> Qos] => AtQosOf(q, reqs) \in [Filters -> Qos]
         /\ q \in [Filters -> Qos \union {None}] =>
              AtQosOf(q, reqs) \in [Filters -> Qos \union {None}]
<1>1. ASSUME NEW f \in Filters, \E r \in reqs : r.filter = f
      PROVE  (CHOOSE r \in reqs : r.filter = f).qos \in Qos
  BY <1>1 DEF Requests
<1> QED BY <1>1 DEF AtQosOf

\* The part of TypeOK that is not the calls'.
Tables ==
  /\ owners \in [Filters -> SUBSET Owners] /\ quiet \subseteq Filters
  /\ atQos \in [Filters -> Qos] /\ consoleQos \in [Filters -> Qos]
  /\ heldAtDrop \subseteq Requests
  /\ wanted \subseteq Filters /\ refused \subseteq Filters
  /\ up \in BOOLEAN /\ told \in BOOLEAN
  /\ broker \in [Filters -> Qos \union {None}]

LEMMA TypeParts == TypeOK <=> Tables /\ CallsTyped(call)
BY DEF TypeOK, Tables, CallsTyped

\* What a call's fields hold.
LEMMA CallFields ==
  ASSUME TypeOK, NEW c \in Callers
  PROVE  /\ call[c] \in CallRecords
         /\ call[c].stage \in Stages
         /\ call[c].subs \in SUBSET Batches
         /\ call[c].unsubs \in SUBSET Filters /\ call[c].by \in SUBSET Owners
         /\ call[c].granted \in SUBSET Requests /\ call[c].no \in SUBSET Filters
         /\ call[c].narrow \in SUBSET Filters /\ call[c].filter \in Filters \union {None}
         /\ call[c].was \in SUBSET Owners /\ call[c].fresh \in BOOLEAN
BY DEF TypeOK, CallRecords, Batches

\* A step that only moves calls keeps the tables.
LEMMA TablesStand ==
  ASSUME TypeOK,
         UNCHANGED <<owners, quiet, atQos, consoleQos, heldAtDrop, wanted, refused, up, told,
                     broker>>
  PROVE  Tables'
BY DEF TypeOK, Tables
-----------------------------------------------------------------------------
(* The steps of a call.                                                     *)

\* What stands before a step.
LEMMA Before ==
  ASSUME IInv
  PROVE  TypeOK /\ Tables /\ CallsTyped(call) /\ AllRead(call, owners)
BY TypeParts DEF IInv, ReadsAreTrue

\* What is enough after it.
LEMMA After ==
  ASSUME Tables', CallsTyped(call'), AllRead(call', owners')
  PROVE  IInv'
BY DEF IInv, ReadsAreTrue, TypeOK, Tables, CallsTyped, AllRead, OwnerOf

\* One call goes on and the tables stand.
LEMMA CallGoesOn ==
  ASSUME IInv, NEW c \in Callers, NEW r \in CallRecords, Reads(r, OwnerOf(c), owners),
         call' = [call EXCEPT ![c] = r],
         UNCHANGED <<owners, quiet, atQos, consoleQos, heldAtDrop, wanted, refused, up, told,
                     broker>>
  PROVE  IInv'
<1>1. CallsTyped(call') /\ AllRead(call', owners)
  BY Before, OneSet
<1> QED BY <1>1, Before, TablesStand, After

\* A step that only moves a call to another stage, to one that reads nothing.
LEMMA StageMoves ==
  ASSUME TypeOK, NEW c \in Callers, NEW s \in Stages \ {"release", "unsuback"},
         ~call[c].fresh
  PROVE  /\ [call[c] EXCEPT !.stage = s] \in CallRecords
         /\ Reads([call[c] EXCEPT !.stage = s], OwnerOf(c), owners)
BY CallFields, SetStage, RestsOnNothing

\* A call at any other stage takes no record for fresh.
LEMMA FreshOnlyLettingGo ==
  ASSUME IInv, NEW c \in Callers, call[c].stage \notin {"release", "unsuback"}
  PROVE  ~call[c].fresh
BY Before DEF AllRead, Reads

\* The batch is sifted, what is covered is recorded, and the rest is asked.
LEMMA AskKept ==
  ASSUME IInv, NEW c \in Callers, Ask(c)
  PROVE  IInv'
<1>0. TypeOK /\ Tables /\ CallsTyped(call) /\ AllRead(call, owners)
  BY Before
<1>1. PICK b \in call[c].subs :
        LET silent == Sifted(b.reqs)
            asked  == b.reqs \ silent
            rest   == Rewritten([call EXCEPT ![c].subs = @ \ {b}], Named(silent))
        IN /\ owners' = [f \in Filters |-> IF f \in Named(silent) THEN owners[f] \union b.by
                                                                  ELSE owners[f]]
           /\ quiet' = quiet \union Named(silent)
           /\ consoleQos' = IF "console" \in b.by THEN AtQosOf(consoleQos, silent) ELSE consoleQos
           /\ \E no \in SUBSET {r \in asked : r.filter \in Refusable} :
                /\ broker' = AtQosOf(broker, asked \ no)
                /\ call' = IF asked = {} THEN rest
                           ELSE [rest EXCEPT ![c].stage = "suback", ![c].by = b.by,
                                             ![c].granted = asked \ no, ![c].no = Named(no)]
  BY DEF Ask
<1> DEFINE silent == Sifted(b.reqs)
           asked  == b.reqs \ silent
           r0     == [call[c] EXCEPT !.subs = @ \ {b}]
           k      == [call EXCEPT ![c] = r0]
           rest   == Rewritten(k, Named(silent))
<1>2. b \in Batches /\ b.by \in SUBSET Owners /\ b.reqs \in SUBSET Requests
  BY <1>0, CallFields DEF Batches
<1>3. silent \in SUBSET Requests /\ asked \in SUBSET Requests /\ Named(silent) \in SUBSET Filters
  BY <1>2 DEF Sifted, Named, Requests
<1>4. PICK no \in SUBSET asked :
        /\ broker' = AtQosOf(broker, asked \ no)
        /\ call' = IF asked = {} THEN rest
                   ELSE [rest EXCEPT ![c].stage = "suback", ![c].by = b.by,
                                     ![c].granted = asked \ no, ![c].no = Named(no)]
  BY <1>1
<1>5. Tables'
  <2>1. owners' \in [Filters -> SUBSET Owners]
    BY <1>0, <1>1, <1>2 DEF Tables
  <2>2. quiet' \subseteq Filters
    BY <1>0, <1>1, <1>3 DEF Tables
  <2>3. consoleQos' \in [Filters -> Qos]
    BY <1>0, <1>1, <1>3, AtQosType DEF Tables
  <2>4. broker' \in [Filters -> Qos \union {None}]
    <3>1. asked \ no \in SUBSET Requests
      BY <1>3
    <3> QED BY <1>0, <1>4, <3>1, AtQosType DEF Tables
  <2>5. UNCHANGED <<atQos, heldAtDrop, wanted, refused, up, told>>
    BY DEF Ask
  <2> QED BY <1>0, <2>1, <2>2, <2>3, <2>4, <2>5 DEF Tables
<1>6. /\ r0 \in CallRecords /\ r0.stage = "next" /\ ~r0.fresh
  <2>1. call[c].stage = "next" /\ ~call[c].fresh
    BY FreshOnlyLettingGo DEF Ask
  <2>2. call[c].subs \ {b} \in SUBSET Batches
    BY <1>0, CallFields
  <2> QED BY <1>0, <2>1, <2>2, CallFields, SetSubs
<1>7. CallsTyped(k) /\ AllRead(k, owners) /\ k[c] = r0
  <2> HIDE DEF r0
  <2>1. Reads(r0, OwnerOf(c), owners)
    BY <1>6, RestsOnNothing
  <2> QED BY <1>0, <1>6, <2>1, OneSet
<1>8. CallsTyped(rest) /\ AllRead(rest, owners') /\ ~rest[c].fresh
  <2>1. \A f \in Filters : f \notin Named(silent) => owners'[f] = owners[f]
    BY <1>1
  <2> HIDE DEF k, silent
  <2>2. CallsTyped(rest) /\ AllRead(rest, owners')
    BY <1>7, <2>1, AllTold
  <2>3. ~rest[c].fresh
    <3>1. ~k[c].fresh
      BY <1>6, <1>7
    <3> QED BY <1>7, <3>1, RewrittenKept
  <2> QED BY <2>2, <2>3
<1>9. CallsTyped(call') /\ AllRead(call', owners')
  <2> HIDE DEF rest, asked
  <2>1. CASE asked = {}
    BY <1>4, <1>8, <2>1
  <2>2. CASE asked # {}
    <3> DEFINE m == [rest[c] EXCEPT !.stage = "suback"]
               n == [m EXCEPT !.by = b.by]
               o == [n EXCEPT !.granted = asked \ no]
               q == [o EXCEPT !.no = Named(no)]
    <3>0. rest[c] \in CallRecords
      BY <1>8 DEF CallsTyped
    <3>1. m \in CallRecords /\ m.stage = "suback" /\ ~m.fresh
      BY <3>0, <1>8, StageNames, SetStage
    <3>2. n \in CallRecords /\ n.stage = "suback" /\ ~n.fresh
      <4> HIDE DEF m
      <4> QED BY <1>2, <3>1, SetBy
    <3>3. o \in CallRecords /\ o.stage = "suback" /\ ~o.fresh
      <4> HIDE DEF n
      <4>1. asked \ no \in SUBSET Requests
        BY <1>3
      <4> QED BY <3>2, <4>1, SetGranted
    <3>4. q \in CallRecords /\ q.stage = "suback" /\ ~q.fresh
      <4> HIDE DEF o
      <4>1. Named(no) \in SUBSET Filters
        BY <1>3, <1>4 DEF Named, Requests
      <4> QED BY <3>3, <4>1, SetNo
    <3>5. call' = [rest EXCEPT ![c] = q]
      BY <1>4, <1>8, <2>2 DEF CallsTyped
    <3> HIDE DEF q
    <3>6. Reads(q, OwnerOf(c), owners')
      BY <3>4, RestsOnNothing
    <3> QED BY <1>8, <3>4, <3>5, <3>6, OneSet
  <2> QED BY <2>1, <2>2
<1> QED BY <1>5, <1>9, After

\* A granted filter is recorded.
LEMMA RecordKept ==
  ASSUME IInv, NEW c \in Callers, Record(c)
  PROVE  IInv'
<1>0. TypeOK /\ Tables /\ CallsTyped(call) /\ AllRead(call, owners)
  BY Before
<1>1. PICK r \in call[c].granted :
        /\ owners' = [owners EXCEPT ![r.filter] = @ \union call[c].by]
        /\ consoleQos' = IF "console" \in call[c].by THEN AtQosOf(consoleQos, {r}) ELSE consoleQos
        /\ quiet' = quiet \ {r.filter}
        /\ atQos' = [atQos EXCEPT ![r.filter] = r.qos]
        /\ call' = Rewritten([call EXCEPT ![c].stage = "quieten", ![c].granted = @ \ {r},
                                          ![c].wide = r.filter, ![c].narrow = Held], {r.filter})
        /\ UNCHANGED <<heldAtDrop, wanted, refused, up, told, broker>>
  BY DEF Record, RecordsThen
<1>2. r \in Requests /\ r.filter \in Filters /\ r.qos \in Qos /\ {r} \in SUBSET Requests
  BY <1>0, CallFields DEF Requests
<1>3. Tables'
  <2>1. owners' \in [Filters -> SUBSET Owners]
    BY <1>0, <1>1, CallFields DEF Tables
  <2>2. consoleQos' \in [Filters -> Qos]
    BY <1>0, <1>1, <1>2, AtQosType DEF Tables
  <2>3. quiet' \subseteq Filters /\ atQos' \in [Filters -> Qos]
    BY <1>0, <1>1, <1>2 DEF Tables
  <2> QED BY <1>0, <1>1, <2>1, <2>2, <2>3 DEF Tables
<1> DEFINE m == [call[c] EXCEPT !.stage = "quieten"]
           n == [m EXCEPT !.granted = @ \ {r}]
           o == [n EXCEPT !.wide = r.filter]
           q == [o EXCEPT !.narrow = Held]
           k == [call EXCEPT ![c] = q]
<1>4. /\ m \in CallRecords /\ m.stage = "quieten" /\ ~m.fresh
      /\ m.granted = call[c].granted
  <2>1. ~call[c].fresh
    BY FreshOnlyLettingGo DEF Record
  <2>2. m \in CallRecords /\ m.stage = "quieten" /\ ~m.fresh
    BY <1>0, <2>1, CallFields, StageNames, SetStage
  <2>3. m.granted = call[c].granted
    BY <1>0, CallFields DEF CallRecords
  <2> QED BY <2>2, <2>3
<1>5. n \in CallRecords /\ n.stage = "quieten" /\ ~n.fresh
  <2> HIDE DEF m
  <2>1. m.granted \ {r} \in SUBSET Requests
    BY <1>0, <1>4, CallFields
  <2> QED BY <1>4, <2>1, SetGranted
<1>6. o \in CallRecords /\ o.stage = "quieten" /\ ~o.fresh
  <2> HIDE DEF n
  <2> QED BY <1>2, <1>5, SetWide
<1>7. q \in CallRecords /\ q.stage = "quieten" /\ ~q.fresh
  <2> HIDE DEF o
  <2>1. Held \in SUBSET Filters
    BY DEF Held
  <2> QED BY <1>6, <2>1, SetNarrow
<1>8. call' = Rewritten(k, {r.filter})
  BY <1>0, <1>1 DEF CallsTyped
<1>9. \A f \in Filters : f \notin {r.filter} => owners'[f] = owners[f]
  BY <1>0, <1>1 DEF Tables
<1> HIDE DEF q
<1>10. Reads(q, OwnerOf(c), owners)
  BY <1>7, RestsOnNothing
<1>11. CallsTyped(k) /\ AllRead(k, owners)
  BY <1>0, <1>7, <1>10, OneSet
<1> HIDE DEF k
<1>12. CallsTyped(call') /\ AllRead(call', owners')
  BY <1>8, <1>9, <1>11, AllTold
<1> QED BY <1>3, <1>12, After

\* Everything granted is recorded.
LEMMA AskEndsKept ==
  ASSUME IInv, NEW c \in Callers, AskEnds(c)
  PROVE  IInv'
<1>0. TypeOK /\ Tables /\ CallsTyped(call) /\ AllRead(call, owners) /\ ~call[c].fresh
  BY Before, FreshOnlyLettingGo DEF AskEnds
<1>1. CASE call[c].no = {}
  <2> DEFINE m == [call[c] EXCEPT !.stage = "next"]
             n == [m EXCEPT !.by = {}]
  <2>1. m \in CallRecords /\ m.stage = "next" /\ ~m.fresh
    BY <1>0, CallFields, StageNames, SetStage
  <2>2. n \in CallRecords /\ n.stage = "next" /\ ~n.fresh
    <3> HIDE DEF m
    <3> QED BY <2>1, SetBy
  <2>3. call' = [call EXCEPT ![c] = n]
    BY <1>0, <1>1 DEF AskEnds, CallsTyped
  <2>4. UNCHANGED <<owners, quiet, atQos, consoleQos, heldAtDrop, wanted, refused, up, told,
                    broker>>
    BY <1>1 DEF AskEnds
  <2> HIDE DEF n
  <2> QED BY <2>2, <2>3, <2>4, CallGoesOn, RestsOnNothing
<1>2. CASE call[c].no # {}
  <2>1. Tables'
    BY <1>0, <1>2, CallFields DEF AskEnds, Tables
  <2>2. CallsTyped(call') /\ AllRead(call', owners')
    BY <1>0, <1>2, NoCallType, OneSet, RestsOnNothing DEF AskEnds
  <2> QED BY <2>1, <2>2, After
<1> QED BY <1>1, <1>2

\* A filter is quietened.
LEMMA QuietenKept ==
  ASSUME IInv, NEW c \in Callers, Quieten(c)
  PROVE  IInv'
<1>0. TypeOK /\ Tables /\ CallsTyped(call) /\ AllRead(call, owners) /\ ~call[c].fresh
  BY Before, FreshOnlyLettingGo DEF Quieten, QuietensTo
<1>1. PICK n \in Filters :
        /\ quiet' = quiet \union {n}
        /\ atQos' = [atQos EXCEPT ![n] = 0]
        /\ broker' = [broker EXCEPT ![n] = None]
        /\ call' = [call EXCEPT ![c].stage = "quietack", ![c].narrow = @ \ {n}]
        /\ UNCHANGED <<owners, consoleQos, heldAtDrop, wanted, refused, up, told>>
  BY DEF Quieten, QuietensTo
<1>2. 0 \in Qos
  BY SubscriptionAssumption DEF Qos
<1>3. Tables'
  BY <1>0, <1>1, <1>2 DEF Tables
<1> DEFINE m == [call[c] EXCEPT !.stage = "quietack"]
           q == [m EXCEPT !.narrow = @ \ {n}]
<1>4. m \in CallRecords /\ m.stage = "quietack" /\ ~m.fresh
  BY <1>0, CallFields, StageNames, SetStage
<1>5. q \in CallRecords /\ q.stage = "quietack" /\ ~q.fresh
  <2> HIDE DEF m
  <2>1. m.narrow \ {n} \in SUBSET Filters
    BY <1>4 DEF CallRecords
  <2> QED BY <1>4, <2>1, SetNarrow
<1>6. call' = [call EXCEPT ![c] = q]
  BY <1>0, <1>1 DEF CallsTyped
<1> HIDE DEF q
<1>7. CallsTyped(call') /\ AllRead(call', owners)
  BY <1>0, <1>5, <1>6, OneSet, RestsOnNothing
<1> QED BY <1>1, <1>3, <1>7, After

\* The quietening is answered, or there is nothing left to quieten.
LEMMA QuietenedKept ==
  ASSUME IInv, NEW c \in Callers, Quietened(c)
  PROVE  IInv'
<1>0. TypeOK /\ CallsTyped(call) /\ ~call[c].fresh
  BY Before, FreshOnlyLettingGo DEF Quietened
<1>1. UNCHANGED <<owners, quiet, atQos, consoleQos, heldAtDrop, wanted, refused, up, told,
                  broker>>
  BY DEF Quietened
<1>2. CASE call' = [call EXCEPT ![c].stage = "quieten"]
  <2> DEFINE m == [call[c] EXCEPT !.stage = "quieten"]
  <2>1. m \in CallRecords /\ Reads(m, OwnerOf(c), owners)
    BY <1>0, StageNames, StageMoves
  <2>2. call' = [call EXCEPT ![c] = m]
    BY <1>0, <1>2 DEF CallsTyped
  <2> HIDE DEF m
  <2> QED BY <1>1, <2>1, <2>2, CallGoesOn
<1>3. CASE call' = [call EXCEPT ![c].stage = "recording", ![c].wide = None, ![c].narrow = {}]
  <2> DEFINE m == [call[c] EXCEPT !.stage = "recording"]
             n == [m EXCEPT !.wide = None]
             o == [n EXCEPT !.narrow = {}]
  <2>1. m \in CallRecords /\ m.stage = "recording" /\ ~m.fresh
    BY <1>0, CallFields, StageNames, SetStage
  <2>2. n \in CallRecords /\ n.stage = "recording" /\ ~n.fresh
    <3> HIDE DEF m
    <3> QED BY <2>1, SetWide
  <2>3. o \in CallRecords /\ o.stage = "recording" /\ ~o.fresh
    <3> HIDE DEF n
    <3> QED BY <2>2, SetNarrow
  <2>4. call' = [call EXCEPT ![c] = o]
    BY <1>0, <1>3 DEF CallsTyped
  <2> HIDE DEF o
  <2> QED BY <1>1, <2>3, <2>4, CallGoesOn, RestsOnNothing
<1> QED BY <1>2, <1>3 DEF Quietened

\* A record is read, to let go of it.
LEMMA LetGoKept ==
  ASSUME IInv, NEW c \in Callers, LetGo(c)
  PROVE  IInv'
<1>1. PICK f \in call[c].unsubs : call' = [call EXCEPT ![c] = Read(c, f)]
  BY DEF LetGo
<1>2. f \in Filters
  BY Before, CallFields
<1>3. Read(c, f) \in CallRecords /\ Reads(Read(c, f), OwnerOf(c), owners)
  BY <1>2, Before, ReadKept
<1> QED BY <1>1, <1>3, CallGoesOn DEF LetGo

\* A claim goes while others stay, or the record is read again.
LEMMA ReleaseKept ==
  ASSUME IInv, NEW c \in Callers, Release(c)
  PROVE  IInv'
<1> DEFINE f == call[c].filter
<1>0. TypeOK /\ Tables /\ CallsTyped(call) /\ AllRead(call, owners)
  BY Before
<1>1. f \in Filters /\ call[c].was \in SUBSET Owners
  BY <1>0, CallFields DEF Release, AllRead, Reads
<1>2. CASE call[c].fresh
  <2> DEFINE k == [call EXCEPT ![c] = Done(c)]
  <2>1. /\ owners' = [owners EXCEPT ![f] = call[c].was \ {OwnerOf(c)}]
        /\ call' = Rewritten(k, {f})
        /\ UNCHANGED <<quiet, atQos, consoleQos, heldAtDrop, wanted, refused, up, told, broker>>
    BY <1>2 DEF Release
  <2>2. Tables'
    BY <1>0, <1>1, <2>1 DEF Tables
  <2>3. CallsTyped(k) /\ AllRead(k, owners)
    BY <1>0, DoneKept, OneSet, RestsOnNothing
  <2>4. \A g \in Filters : g \notin {f} => owners'[g] = owners[g]
    BY <1>0, <2>1 DEF Tables
  <2> HIDE DEF k, f
  <2>5. CallsTyped(call') /\ AllRead(call', owners')
    BY <2>1, <2>3, <2>4, AllTold
  <2> QED BY <2>2, <2>5, After
<1>3. CASE ~call[c].fresh
  <2>1. Read(c, f) \in CallRecords /\ Reads(Read(c, f), OwnerOf(c), owners)
    BY <1>0, <1>1, ReadKept
  <2>2. call' = [call EXCEPT ![c] = Read(c, f)]
    BY <1>3 DEF Release
  <2>3. UNCHANGED <<owners, quiet, atQos, consoleQos, heldAtDrop, wanted, refused, up, told,
                    broker>>
    BY <1>3 DEF Release
  <2> QED BY <2>1, <2>2, <2>3, CallGoesOn
<1> QED BY <1>2, <1>3, <1>0, CallFields

\* The last claim on a quiet filter goes.
LEMMA ReleaseQuietKept ==
  ASSUME IInv, NEW c \in Callers, ReleaseQuiet(c)
  PROVE  IInv'
<1> DEFINE f == call[c].filter
           k == [call EXCEPT ![c] = Done(c)]
           fs == IF call[c].fresh THEN {f} ELSE {}
<1>0. TypeOK /\ Tables /\ CallsTyped(call) /\ AllRead(call, owners)
  BY Before
<1>1. /\ owners' = IF call[c].fresh THEN [owners EXCEPT ![f] = {}] ELSE owners
      /\ quiet' = quiet \ {f} /\ call' = Rewritten(k, fs)
      /\ UNCHANGED <<atQos, consoleQos, heldAtDrop, wanted, refused, up, told, broker>>
  BY DEF ReleaseQuiet
<1>2. Tables'
  BY <1>0, <1>1 DEF Tables
<1>3. CallsTyped(k) /\ AllRead(k, owners)
  BY <1>0, DoneKept, OneSet, RestsOnNothing
<1>4. \A g \in Filters : g \notin fs => owners'[g] = owners[g]
  BY <1>0, <1>1 DEF Tables
<1> HIDE DEF k, fs
<1>5. CallsTyped(call') /\ AllRead(call', owners')
  BY <1>1, <1>3, <1>4, AllTold
<1> QED BY <1>2, <1>5, After

\* The broker is told to let go of it.
LEMMA UnsubscribeKept ==
  ASSUME IInv, NEW c \in Callers, Unsubscribe(c)
  PROVE  IInv'
<1> DEFINE m == [call[c] EXCEPT !.stage = "unsuback"]
<1>0. TypeOK /\ Tables /\ CallsTyped(call) /\ AllRead(call, owners)
  BY Before
<1>1. Reads(call[c], OwnerOf(c), owners)
  BY <1>0 DEF AllRead
<1>2. Tables'
  BY <1>0 DEF Unsubscribe, Tables
<1>3. /\ m \in CallRecords /\ m.stage = "unsuback"
      /\ m.filter = call[c].filter /\ m.was = call[c].was /\ m.fresh = call[c].fresh
  BY <1>0, CallFields, StageNames, SetStage
<1>4. call' = [call EXCEPT ![c] = m]
  BY <1>0 DEF Unsubscribe, CallsTyped
<1> HIDE DEF m
<1>5. Reads(m, OwnerOf(c), owners)
  BY <1>1, <1>3 DEF Reads, Unsubscribe
<1>6. CallsTyped(call') /\ AllRead(call', owners)
  BY <1>0, <1>3, <1>4, <1>5, OneSet
<1> QED BY <1>2, <1>6, After DEF Unsubscribe

\* ... and has: the record goes, and what it covered is asked for.
LEMMA UnsubscribedKept ==
  ASSUME IInv, NEW c \in Callers, Unsubscribed(c)
  PROVE  IInv'
<1> DEFINE f == call[c].filter
           own == IF call[c].fresh THEN [owners EXCEPT ![f] = {}] ELSE owners
           orphans == Uncovered(own, f)
           batch(o) == [by |-> o, reqs |-> {[filter |-> g, qos |-> consoleQos[g]] :
                                            g \in {h \in orphans : own[h] = o}}]
           batches == {batch(own[g]) : g \in orphans}
           after == [Done(c) EXCEPT !.subs = batches]
           k == [call EXCEPT ![c] = after]
           fs == IF own # owners THEN {f} ELSE {}
<1>0. TypeOK /\ Tables /\ CallsTyped(call) /\ AllRead(call, owners)
  BY Before
<1>1. /\ owners' = own /\ atQos' = [atQos EXCEPT ![f] = 0] /\ quiet' = quiet \ orphans
      /\ call' = Rewritten(k, fs)
      /\ UNCHANGED <<consoleQos, heldAtDrop, wanted, refused, up, told, broker>>
  BY DEF Unsubscribed, Resubscribes
<1>2. own \in [Filters -> SUBSET Owners] /\ orphans \in SUBSET Filters
  <2>1. own \in [Filters -> SUBSET Owners]
    BY <1>0 DEF Tables
  <2>2. orphans \in SUBSET Filters
    BY <1>0 DEF Tables, Uncovered
  <2> QED BY <2>1, <2>2
<1>3. Tables'
  <2>1. 0 \in Qos
    BY SubscriptionAssumption DEF Qos
  <2> HIDE DEF own, orphans
  <2> QED BY <1>0, <1>1, <1>2, <2>1 DEF Tables
<1>4. batches \in SUBSET Batches
  <2> HIDE DEF own, orphans
  <2>1. ASSUME NEW g \in orphans PROVE batch(own[g]) \in Batches
    <3>1. own[g] \in SUBSET Owners
      BY <1>2
    <3>2. ASSUME NEW h \in orphans PROVE [filter |-> h, qos |-> consoleQos[h]] \in Requests
      BY <1>0, <1>2 DEF Tables, Requests
    <3> QED BY <3>1, <3>2 DEF Batches
  <2> QED BY <2>1
<1>5. after \in CallRecords /\ after.stage = "next" /\ ~after.fresh
  <2> HIDE DEF batches
  <2> QED BY <1>0, <1>4, DoneKept, SetSubs
<1> HIDE DEF after
<1>6. CallsTyped(k) /\ AllRead(k, owners)
  BY <1>0, <1>5, OneSet, RestsOnNothing
<1>7. \A g \in Filters : g \notin fs => owners'[g] = owners[g]
  BY <1>0, <1>1 DEF Tables
<1> HIDE DEF k, fs
<1>8. CallsTyped(call') /\ AllRead(call', owners')
  BY <1>1, <1>6, <1>7, AllTold
<1> QED BY <1>3, <1>8, After

\* A call is over: nothing is left of it, or its answer does not come.
LEMMA EndKept ==
  ASSUME IInv, NEW c \in Callers, CallEnds(c) \/ NoAnswer(c)
  PROVE  IInv'
<1>1. Reads(NoCall, OwnerOf(c), owners)
  BY NoCallType, RestsOnNothing
<1> QED BY <1>1, NoCallType, CallGoesOn DEF CallEnds, NoAnswer
-----------------------------------------------------------------------------
(* Who calls, and the link.                                                 *)

\* A call begins.
LEMMA StartKept ==
  ASSUME IInv, NEW c \in Callers, NEW s \in SUBSET Batches, NEW u \in SUBSET Filters,
         Start(c, s, u)
  PROVE  CallsTyped(call') /\ AllRead(call', owners)
<1> DEFINE r == [NoCall EXCEPT !.stage = "next", !.subs = s, !.unsubs = u]
<1>1. r \in CallRecords /\ r.stage = "next" /\ ~r.fresh
  BY StartedType
<1>2. call' = [call EXCEPT ![c] = r]
  BY DEF Start
<1> HIDE DEF r
<1> QED BY <1>1, <1>2, Before, OneSet, RestsOnNothing

\* The console asks or lets go, or the rules' pump finds something to do.
LEMMA StartsKept ==
  ASSUME IInv, Starts
  PROVE  IInv'
<1>0. TypeOK /\ Tables
  BY Before
<1>1. UNCHANGED <<owners, quiet, atQos, consoleQos, heldAtDrop, wanted, refused, up, told,
                  broker>>
  BY DEF Starts, ConsoleAsks, ConsoleLetsGo, Sync
<1>2. CASE ConsoleAsks
  <2>1. PICK r \in Requests : Start("console", {[by |-> {"console"}, reqs |-> {r}]}, {})
    BY <1>2 DEF ConsoleAsks
  <2> DEFINE s == {[by |-> {"console"}, reqs |-> {r}]}
  <2>2. s \in SUBSET Batches /\ Start("console", s, {}) /\ "console" \in Callers
    BY <2>1 DEF Batches, Owners, Callers
  <2> HIDE DEF s
  <2>3. CallsTyped(call') /\ AllRead(call', owners)
    BY <2>2, StartKept
  <2> QED BY <1>0, <1>1, <2>3, TablesStand, After
<1>3. CASE ConsoleLetsGo
  <2>1. PICK f \in Held : Start("console", {}, {f})
    BY <1>3 DEF ConsoleLetsGo
  <2>2. {f} \in SUBSET Filters /\ {} \in SUBSET Batches
    BY DEF Held
  <2>3. CallsTyped(call') /\ AllRead(call', owners)
    BY <2>1, <2>2, StartKept DEF Callers
  <2> QED BY <1>0, <1>1, <2>3, TablesStand, After
<1>4. CASE Sync
  <2> DEFINE mine    == {f \in Filters : "rules" \in owners[f]}
             missing == wanted \ (mine \union refused)
             gone    == mine \ wanted
             subs    == IF missing = {} THEN {}
                        ELSE {[by |-> {"rules"}, reqs |-> [filter : missing, qos : {RuleQos}]]}
  <2>1. missing \in SUBSET Filters /\ gone \in SUBSET Filters
    BY <1>0 DEF Tables
  <2>2. Start("rules", subs, gone)
    BY <1>4 DEF Sync
  <2> HIDE DEF missing, gone
  <2>3. subs \in SUBSET Batches
    <3>1. [filter : missing, qos : {RuleQos}] \in SUBSET Requests
      BY <2>1, SubscriptionAssumption DEF Requests
    <3> QED BY <3>1 DEF Batches, Owners
  <2> HIDE DEF subs
  <2>4. CallsTyped(call') /\ AllRead(call', owners)
    BY <2>1, <2>2, <2>3, StartKept DEF Callers
  <2> QED BY <1>0, <1>1, <2>4, TablesStand, After
<1> QED BY <1>2, <1>3, <1>4 DEF Starts

\* The link goes, its going is booked, and it is up again.
LEMMA LinkKept ==
  ASSUME IInv, Link
  PROVE  IInv'
<1>0. TypeOK /\ Tables /\ CallsTyped(call) /\ AllRead(call, owners)
  BY Before
<1>1. CASE LinkDrops
  <2>1. Tables' /\ UNCHANGED <<call, owners>>
    BY <1>0, <1>1 DEF LinkDrops, Tables
  <2> QED BY <1>0, <2>1, After
<1>2. CASE DropTold
  <2>1. heldAtDrop' \subseteq Requests
    BY <1>0, <1>2 DEF DropTold, Tables, Requests
  <2>2. 0 \in Qos
    BY SubscriptionAssumption DEF Qos
  <2>3. Tables'
    BY <1>0, <1>2, <2>1, <2>2 DEF DropTold, Tables
  <2>4. call' = Rewritten(call, Filters)
    BY <1>2 DEF DropTold
  <2>5. CallsTyped(call') /\ AllRead(call', owners')
    BY <1>0, <2>4, AllTold
  <2> QED BY <2>3, <2>5, After
<1>3. CASE LinkUp
  <2>1. Tables'
    BY <1>0, <1>3 DEF LinkUp, Tables
  <2>2. owners' = owners
    BY <1>3 DEF LinkUp
  <2>3. CASE Start("restore", {[by |-> {"console"}, reqs |-> heldAtDrop]}, {})
    <3> DEFINE s == {[by |-> {"console"}, reqs |-> heldAtDrop]}
    <3>1. s \in SUBSET Batches /\ Start("restore", s, {}) /\ "restore" \in Callers
      BY <1>0, <2>3 DEF Batches, Owners, Tables, Callers
    <3> HIDE DEF s
    <3>2. CallsTyped(call') /\ AllRead(call', owners)
      BY <3>1, StartKept
    <3> QED BY <2>1, <2>2, <3>2, After
  <2>4. CASE UNCHANGED call
    BY <1>0, <2>1, <2>2, <2>4, After
  <2> QED BY <1>3, <2>3, <2>4 DEF LinkUp
<1> QED BY <1>1, <1>2, <1>3 DEF Link

\* Every step keeps the invariant, and so do the rules being changed.
LEMMA Inductive == IInv /\ [Next]_vars => IInv'
<1> SUFFICES ASSUME IInv, [Next]_vars PROVE IInv'
  OBVIOUS
<1>1. ASSUME NEW c \in Callers, CallStep(c) \/ NoAnswer(c) PROVE IInv'
  BY <1>1, AskKept, RecordKept, AskEndsKept, QuietenKept, QuietenedKept, LetGoKept,
    ReleaseKept, ReleaseQuietKept, UnsubscribeKept, UnsubscribedKept, EndKept DEF CallStep
<1>2. CASE Starts
  BY <1>2, StartsKept
<1>3. CASE RulesChange
  <2>1. Tables' /\ UNCHANGED <<call, owners>>
    BY <1>3, Before DEF RulesChange, Tables
  <2> QED BY <2>1, Before, After
<1>4. CASE Link
  BY <1>4, LinkKept
<1>5. CASE UNCHANGED vars
  <2>1. Tables' /\ UNCHANGED <<call, owners>>
    BY <1>5, Before, TablesStand DEF vars
  <2> QED BY <2>1, Before, After
<1> QED BY <1>1, <1>2, <1>3, <1>4, <1>5 DEF Next

\* Nothing is read before anybody calls.
LEMMA InitInductive == Init => IInv
<1> SUFFICES ASSUME Init PROVE IInv
  OBVIOUS
<1>1. 0 \in Qos
  BY SubscriptionAssumption DEF Qos
<1>2. TypeOK
  BY <1>1, NoCallType DEF Init, TypeOK
<1>3. ReadsAreTrue
  BY NoCallType, RestsOnNothing DEF Init, ReadsAreTrue, AllRead
<1> QED BY <1>2, <1>3 DEF IInv

\* For any filters and levels, the subscriber's and the pump's fields keep their
\* types, and whoever lets go of a filter acts on a record it really read.
THEOREM RecordsAreRead == Spec => [](TypeOK /\ ReadsAreTrue)
BY InitInductive, Inductive, PTL DEF Spec, IInv

\* A claim goes only with its owner's own letting go, or with the link.
LEMMA ClaimKept ==
  ASSUME IInv, [Next]_vars, NEW f \in Filters, NEW o \in Owners,
         o \in owners[f], o \notin owners'[f]
  PROVE  \/ ~told /\ told'
         \/ \E c \in Callers : /\ OwnerOf(c) = o /\ call[c].filter = f
                               /\ call[c].stage \in {"release", "unsuback"}
<1>0. TypeOK /\ Tables /\ AllRead(call, owners)
  BY Before
<1>1. ASSUME NEW c \in Callers, Ask(c) \/ Record(c) PROVE FALSE
  <2>1. CASE Ask(c)
    <3>1. PICK b \in call[c].subs :
            owners' = [g \in Filters |-> IF g \in Named(Sifted(b.reqs)) THEN owners[g] \union b.by
                                                                       ELSE owners[g]]
      BY <2>1 DEF Ask
    <3> QED BY <3>1
  <2>2. CASE Record(c)
    <3>1. PICK r \in call[c].granted :
            owners' = [owners EXCEPT ![r.filter] = @ \union call[c].by]
      BY <2>2 DEF Record, RecordsThen
    <3> QED BY <1>0, <3>1 DEF Tables
  <2> QED BY <1>1, <2>1, <2>2
<1>2. ASSUME NEW c \in Callers, Release(c) \/ ReleaseQuiet(c) \/ Unsubscribed(c)
      PROVE  /\ OwnerOf(c) = o /\ call[c].filter = f
             /\ call[c].stage \in {"release", "unsuback"}
  <2>1. call[c].stage \in {"release", "unsuback"} /\ Reads(call[c], OwnerOf(c), owners)
    BY <1>0, <1>2 DEF Release, ReleaseQuiet, Unsubscribed, AllRead
  <2>2. call[c].fresh /\ call[c].filter = f
    BY <1>0, <1>2 DEF Tables, Release, ReleaseQuiet, Unsubscribed, Resubscribes
  <2>3. owners[f] = call[c].was
    BY <2>1, <2>2 DEF Reads
  <2>4. CASE Release(c)
    BY <1>0, <2>1, <2>2, <2>3, <2>4 DEF Tables, Release
  <2>5. CASE ReleaseQuiet(c)
    BY <2>1, <2>2, <2>3, <2>5 DEF ReleaseQuiet
  <2>6. CASE Unsubscribed(c)
    BY <2>1, <2>2, <2>3, <2>6 DEF Unsubscribed, Reads
  <2> QED BY <1>2, <2>1, <2>2, <2>4, <2>5, <2>6
<1>3. CASE DropTold
  BY <1>3 DEF DropTold
<1>4. CASE UNCHANGED owners
  BY <1>4
<1>5. \/ \E c \in Callers : Ask(c) \/ Record(c)
      \/ \E c \in Callers : Release(c) \/ ReleaseQuiet(c) \/ Unsubscribed(c)
      \/ DropTold \/ UNCHANGED owners
  BY DEF Next, CallStep, NoAnswer, AskEnds, Quieten, QuietensTo, Quietened, LetGo, Unsubscribe,
    CallEnds, Starts, ConsoleAsks, ConsoleLetsGo, Sync, RulesChange, Link, LinkDrops, LinkUp, vars
<1> QED BY <1>1, <1>2, <1>3, <1>4, <1>5

\* For any filters, covers and levels, and the three callers interleaved at every
\* await: what one owner lets go of is never another's claim.
THEOREM ClaimsKept == Spec => ClaimsAreKept
<1>1. TypeOK /\ ReadsAreTrue /\ [Next]_vars =>
        [\A f \in Filters, o \in Owners :
           o \in owners[f] /\ o \notin owners'[f] =>
             \/ ~told /\ told'
             \/ \E c \in Callers : /\ OwnerOf(c) = o /\ call[c].filter = f
                                   /\ call[c].stage \in {"release", "unsuback"}]_vars
  BY ClaimKept DEF IInv
<1> QED BY <1>1, RecordsAreRead, PTL DEF Spec, ClaimsAreKept
-----------------------------------------------------------------------------
(* The dials of several consoles.                                           *)

\* People's dials on a host that does not redial, however many callbacks wait.
PeopleSpec == D!DialInit /\ [][D!DialSystem \/ D!Environment]_(D!dialVars)

\* A dial that has been registered and may still be called off.
Registered(r) == r.stage \in {"supersede", "gate", "enter", "close", "dialing"} /\ ~r.cancelled

DialTypes ==
  /\ dial \in [D!Slots -> D!DialRecords] /\ attempt \in D!Slots \union {Lost, None}

FieldTypes ==
  /\ offline \in D!OfflineStates /\ failure \in Reasons \union {None}
  /\ callback \in {None} \union [why : Reasons \union {None}]

\* Nobody dials for the supervisor.
NoSupervisor == dial[Sup].stage = "idle" /\ attempt # Sup

\* Only a reader about to cancel another's dial keeps it as the one it found standing.
StandsBriefly == \A d \in D!Slots : dial[d].stage # "supersede" => dial[d].standing = None

\* What stands in _attempt, or is about to be cancelled, is every dial that runs.
AllReached ==
  \A d \in Readers :
    Registered(dial[d]) => attempt = d \/ \E e \in Readers : dial[e].standing = d

PeopleInv == DialTypes /\ NoSupervisor /\ StandsBriefly /\ AllReached

\* The records of dials that the steps make.
LEMMA RecordsOfDials ==
  ASSUME NEW r \in D!DialRecords
  PROVE  /\ [r EXCEPT !.cancelled = TRUE] \in D!DialRecords
         /\ \A a \in D!Slots \union {Lost, None} :
              [r EXCEPT !.stage = "supersede", !.standing = a] \in D!DialRecords
         /\ [r EXCEPT !.stage = "gate", !.standing = None] \in D!DialRecords
         /\ \A state \in D!OfflineStates, why \in Reasons \union {None} :
              [r EXCEPT !.stage = "close", !.was = state, !.why = why] \in D!DialRecords
  BY DEF D!DialRecords, D!Stages, D!Waiting, D!InGate, D!InManager

LEMMA RecordFields ==
  ASSUME NEW r \in D!DialRecords
  PROVE  LET s == [r EXCEPT !.cancelled = TRUE]
         IN  s.stage = r.stage /\ s.standing = r.standing /\ s.cancelled
  BY DEF D!DialRecords

\* A dial that moves on: nothing becomes registered by it, and _attempt is kept or cleared of
\* a dial that no longer is.
LEMMA MovesOn ==
  ASSUME PeopleInv, NEW d \in Readers, NEW r \in D!DialRecords, dial' = [dial EXCEPT ![d] = r],
         dial[d].stage # "supersede", r.stage # "supersede", r.standing = None,
         Registered(r) => Registered(dial[d]),
         attempt' = attempt \/ (attempt = d /\ attempt' = None /\ ~Registered(r))
  PROVE  PeopleInv'
<1> USE DEF PeopleInv, D!Slots
<1>1. DialTypes' /\ NoSupervisor' /\ StandsBriefly'
  BY ServerAssumption DEF DialTypes, NoSupervisor, StandsBriefly, D!DialAssumption
<1>2. \A e \in D!Slots : dial'[e].standing = dial[e].standing
  BY DEF DialTypes, StandsBriefly
<1>3. \A e \in Readers : Registered(dial'[e]) => Registered(dial[e]) /\ (e # d \/ attempt' = attempt)
  BY DEF DialTypes
<1>4. AllReached'
  BY <1>2, <1>3, ServerAssumption DEF AllReached, D!DialAssumption, DialTypes
<1> QED BY <1>1, <1>4

\* The dial that is called off, if there is one, is no longer to be reached.
LEMMA CallsOff ==
  ASSUME PeopleInv, dial' = D!Cancelled(dial, attempt), UNCHANGED attempt
  PROVE  PeopleInv'
<1>1. CASE attempt \notin D!Slots
  BY <1>1 DEF D!Cancelled, PeopleInv, DialTypes, NoSupervisor, StandsBriefly, AllReached
<1>2. CASE attempt \in D!Slots
  <2>1. dial' = [dial EXCEPT ![attempt] = [dial[attempt] EXCEPT !.cancelled = TRUE]]
    BY <1>2 DEF D!Cancelled
  <2>2. [dial[attempt] EXCEPT !.cancelled = TRUE] \in D!DialRecords
    BY <1>2 DEF PeopleInv, DialTypes, D!DialRecords
  <2>3. \A e \in D!Slots : /\ dial'[e].stage = dial[e].stage /\ dial'[e].standing = dial[e].standing
                           /\ Registered(dial'[e]) => Registered(dial[e])
    BY <1>2, <2>1 DEF PeopleInv, DialTypes, D!DialRecords, Registered
  <2>4. DialTypes'
    BY <1>2, <2>1, <2>2 DEF PeopleInv, DialTypes
  <2>5. NoSupervisor' /\ StandsBriefly' /\ AllReached'
    BY <2>3 DEF PeopleInv, NoSupervisor, StandsBriefly, AllReached, D!Slots
  <2> QED BY <2>4, <2>5 DEF PeopleInv
<1> QED BY <1>1, <1>2

\* A reader's dial takes its place in _attempt, and keeps what it found there to cancel it.
LEMMA TakesItsPlace ==
  ASSUME PeopleInv, NEW d \in Readers, D!RegisterAttempt(d)
  PROVE  PeopleInv'
<1> USE DEF PeopleInv, D!Slots, D!RegisterAttempt, D!To
<1>0. d # Sup /\ None \notin Readers /\ dial[d].stage = "asked" /\ dial[d].standing = None
  BY ServerAssumption DEF D!DialAssumption, StandsBriefly
<1>1. CASE attempt # None
  <2>1. dial' = [dial EXCEPT ![d] = [dial[d] EXCEPT !.stage = "supersede", !.standing = attempt]]
    BY <1>1
  <2>2. [dial[d] EXCEPT !.stage = "supersede", !.standing = attempt] \in D!DialRecords
    BY RecordsOfDials DEF DialTypes
  <2>3. DialTypes' /\ NoSupervisor' /\ StandsBriefly'
    BY <1>0, <2>1, <2>2 DEF DialTypes, NoSupervisor, StandsBriefly
  <2>4. /\ dial'[d].standing = attempt
        /\ \A e \in D!Slots : e # d => dial'[e] = dial[e]
    BY <2>1 DEF DialTypes, D!DialRecords
  <2>5. AllReached'
    BY <1>0, <2>4 DEF AllReached
  <2> QED BY <2>3, <2>5
<1>2. CASE attempt = None
  <2>1. dial' = [dial EXCEPT ![d] = [dial[d] EXCEPT !.stage = "gate"]]
    BY <1>2
  <2>2. [dial[d] EXCEPT !.stage = "gate"] \in D!DialRecords
    BY DEF DialTypes, D!DialRecords, D!Stages, D!Waiting
  <2>3. /\ dial'[d].standing = None
        /\ \A e \in D!Slots : e # d => dial'[e] = dial[e]
    BY <1>0, <2>1 DEF DialTypes, D!DialRecords
  <2>4. DialTypes' /\ NoSupervisor' /\ StandsBriefly'
    BY <1>0, <2>1, <2>2, <2>3 DEF DialTypes, NoSupervisor, StandsBriefly
  <2>5. AllReached'
    BY <1>0, <1>2, <2>3 DEF AllReached
  <2> QED BY <2>4, <2>5
<1> QED BY <1>1, <1>2

\* It cancels that one; or that one is over, and its source is disposed of.
LEMMA CancelsTheOther ==
  ASSUME PeopleInv, NEW d \in Readers, D!CancelStanding(d)
  PROVE  PeopleInv'
<1> USE DEF PeopleInv, D!Slots, D!CancelStanding
<1> DEFINE a == dial[d].standing
<1>0. d # Sup /\ None \notin Readers /\ dial[d].stage = "supersede" /\ Lost # None
  BY ServerAssumption DEF D!DialAssumption
<1>1. CASE D!Disposed(a)
  <2>1. dial' = [e \in D!Slots |-> IF e = d THEN D!NoDial
                  ELSE [dial[e] EXCEPT !.standing = IF dial[e].standing = d THEN Lost
                                                    ELSE dial[e].standing]]
    BY <1>1 DEF D!Forsake
  <2>2. attempt' = IF attempt = d THEN Lost ELSE attempt
    BY <1>1 DEF D!Forsake
  <2>3. \A e \in D!Slots : dial'[e] \in D!DialRecords
    BY <2>1 DEF DialTypes, D!DialRecords, D!NoDial, D!Stages, D!OfflineStates
  <2>4. DialTypes'
    BY <2>1, <2>2, <2>3 DEF DialTypes
  <2>5. \A e \in D!Slots \ {d} : /\ dial'[e].stage = dial[e].stage
                                 /\ dial'[e].cancelled = dial[e].cancelled
                                 /\ dial'[e].standing = IF dial[e].standing = d THEN Lost
                                                        ELSE dial[e].standing
    BY <2>1 DEF DialTypes, D!DialRecords
  <2>6. dial'[d].stage = "idle" /\ dial'[d].standing = None
    BY <2>1 DEF D!NoDial
  <2>7. NoSupervisor' /\ StandsBriefly'
    BY <1>0, <2>2, <2>5, <2>6, ServerAssumption DEF NoSupervisor, StandsBriefly, D!DialAssumption
  <2>8. a \in D!Slots => ~Registered(dial[a])
    BY <1>1 DEF D!Disposed, Registered, D!Saving
  <2>9. AllReached'
    BY <1>0, <2>2, <2>5, <2>6, <2>8 DEF AllReached, Registered
  <2> QED BY <2>4, <2>7, <2>9
<1>2. CASE ~D!Disposed(a)
  <2>1. dial' = [D!Cancelled(dial, a) EXCEPT ![d].stage = "gate", ![d].standing = None]
        /\ attempt' = attempt
    BY <1>2
  <2>2. \A e \in D!Slots :
          /\ D!Cancelled(dial, a)[e] \in D!DialRecords
          /\ D!Cancelled(dial, a)[e] = IF e = a THEN [dial[e] EXCEPT !.cancelled = TRUE] ELSE dial[e]
    <3>1. CASE a \in D!Slots
      BY <3>1, RecordsOfDials DEF D!Cancelled, DialTypes
    <3>2. CASE a \notin D!Slots
      BY <3>2 DEF D!Cancelled, DialTypes
    <3> QED BY <3>1, <3>2
  <2>3. DOMAIN D!Cancelled(dial, a) = D!Slots
    BY DEF D!Cancelled, DialTypes
  <2>. HIDE DEF a
  <2>4. /\ dial'[d] = [D!Cancelled(dial, a)[d] EXCEPT !.stage = "gate", !.standing = None]
        /\ \A e \in D!Slots \ {d} : dial'[e] = D!Cancelled(dial, a)[e]
    BY <2>1, <2>3
  <2>5. DialTypes'
    <3>1. dial'[d] \in D!DialRecords
      BY <2>2, <2>4 DEF D!DialRecords, D!Stages, D!Waiting
    <3>2. \A e \in D!Slots : dial'[e] \in D!DialRecords
      BY <2>2, <2>4, <3>1
    <3>3. dial' = [e \in D!Slots |-> dial'[e]]
      BY <2>1, <2>3, <2>2 DEF D!Cancelled, DialTypes
    <3> QED BY <2>1, <3>2, <3>3 DEF DialTypes
  <2>6. \A e \in D!Slots \ {d} : /\ dial'[e].stage = dial[e].stage
                                 /\ dial'[e].standing = dial[e].standing
                                 /\ Registered(dial'[e]) => Registered(dial[e]) /\ e # a
    <3> SUFFICES ASSUME NEW e \in D!Slots \ {d}
                 PROVE  /\ dial'[e].stage = dial[e].stage /\ dial'[e].standing = dial[e].standing
                        /\ Registered(dial'[e]) => Registered(dial[e]) /\ e # a
      OBVIOUS
    <3>1. CASE e = a
      <4>1. dial'[e] = [dial[e] EXCEPT !.cancelled = TRUE]
        BY <2>2, <2>4, <3>1
      <4> QED BY <4>1, RecordFields DEF DialTypes, Registered
    <3>2. CASE e # a
      BY <2>2, <2>4, <3>2
    <3> QED BY <3>1, <3>2
  <2>7. /\ dial'[d].stage = "gate" /\ dial'[d].standing = None
        /\ Registered(dial'[d]) => Registered(dial[d]) /\ d # a
    BY <1>0, <2>2, <2>4 DEF DialTypes, D!DialRecords, Registered
  <2>8. NoSupervisor' /\ StandsBriefly'
    BY <1>0, <2>1, <2>6, <2>7 DEF NoSupervisor, StandsBriefly
  <2>9. AllReached'
    <3>1. ASSUME NEW e \in Readers, Registered(dial'[e])
          PROVE  attempt' = e \/ \E g \in Readers : dial'[g].standing = e
      <4>1. Registered(dial[e]) /\ e # dial[d].standing
        BY <2>6, <2>7, <3>1 DEF a
      <4>2. CASE attempt = e
        BY <2>1, <4>2
      <4>3. CASE attempt # e
        <5>1. PICK g \in Readers : dial[g].standing = e
          BY <4>1, <4>3 DEF AllReached
        <5> QED BY <2>6, <4>1, <5>1
      <4> QED BY <4>2, <4>3
    <3> QED BY <3>1 DEF AllReached
  <2> QED BY <2>5, <2>8, <2>9
<1> QED BY <1>1, <1>2

\* Every other step of a dial moves it on.
LEMMA DialMovesOn ==
  ASSUME PeopleInv, FieldTypes, NEW d \in Readers, D!DialStep(d),
         ~D!RegisterAttempt(d), ~D!CancelStanding(d)
  PROVE  PeopleInv'
<1> USE DEF D!To
<1> DEFINE At(stage) == [dial[d] EXCEPT !.stage = stage]
<1>0. dial[d] \in D!DialRecords /\ (dial[d].stage # "supersede" => dial[d].standing = None)
  BY DEF PeopleInv, DialTypes, StandsBriefly, D!Slots
<1>1. D!NoDial \in D!DialRecords /\ ~Registered(D!NoDial)
  BY DEF D!NoDial, D!DialRecords, D!Stages, D!OfflineStates, Registered
<1>2. \A stage \in D!Stages :
        /\ At(stage) \in D!DialRecords /\ At(stage).stage = stage
        /\ At(stage).standing = dial[d].standing /\ At(stage).cancelled = dial[d].cancelled
  BY <1>0 DEF D!DialRecords
<1>3. {"enter", "close", "closed", "dialing", "failed", "up", "booked", "published", "leaving",
       "remember", "save"} \subseteq D!Stages
  BY DEF D!Stages, D!InGate, D!InManager, D!Saving
<1>4. CASE D!ConnectSkipped(d) \/ D!SaveSettings(d)
  <2>1. dial' = [dial EXCEPT ![d] = D!NoDial] /\ attempt' = attempt /\ dial[d].stage # "supersede"
    BY <1>4 DEF D!ConnectSkipped, D!SaveSettings
  <2> QED BY <1>1, <2>1, MovesOn DEF D!NoDial
<1>5. CASE D!EnterManager(d)
  <2> DEFINE r == [dial[d] EXCEPT !.stage = "close", !.was = offline, !.why = failure]
  <2>1. r \in D!DialRecords
    BY <1>0, RecordsOfDials DEF FieldTypes
  <2>2. /\ r.stage = "close" /\ r.standing = dial[d].standing
        /\ r.cancelled = dial[d].cancelled
    BY <1>0 DEF D!DialRecords
  <2>3. dial' = [dial EXCEPT ![d] = r] /\ attempt' = attempt /\ dial[d].stage = "enter"
    BY <1>5 DEF D!EnterManager
  <2> HIDE DEF r
  <2>4. Registered(r) => Registered(dial[d])
    BY <2>2, <2>3 DEF Registered
  <2> QED BY <1>0, <2>1, <2>2, <2>3, <2>4, MovesOn
<1>6. ASSUME NEW stage \in D!Stages \ {"supersede"}, dial' = [dial EXCEPT ![d] = At(stage)],
             attempt' = attempt \/ (attempt = d /\ attempt' = None /\ ~Registered(At(stage))),
             dial[d].stage # "supersede", Registered(At(stage)) => Registered(dial[d])
      PROVE  PeopleInv'
  <2>1. /\ At(stage) \in D!DialRecords /\ At(stage).stage # "supersede"
        /\ At(stage).standing = None
    BY <1>0, <1>2, <1>6
  <2> HIDE DEF At
  <2> QED BY <1>6, <2>1, MovesOn
<1>7. ASSUME NEW stage \in D!Stages \ {"supersede"}, dial' = [dial EXCEPT ![d].stage = stage],
             attempt' = attempt,
             \/ dial[d].stage \in {"gate", "enter", "close", "dialing"}
             \/ stage \notin {"supersede", "gate", "enter", "close", "dialing"},
             dial[d].stage # "supersede"
      PROVE  PeopleInv'
  <2>1. Registered(At(stage)) => Registered(dial[d])
    <3> HIDE DEF At
    <3> QED BY <1>2, <1>7 DEF Registered
  <2> QED BY <1>6, <1>7, <2>1
<1>8. CASE D!EnterDialGate(d) \/ D!CloseOldLink(d)
  BY <1>3, <1>7, <1>8 DEF D!EnterDialGate, D!CloseOldLink
<1>9. CASE D!CloseCalledOff(d) \/ D!CloseThrows(d) \/ D!ConnectAccepted(d)
           \/ \E r \in Reasons : D!ConnectFails(d, r)
  BY <1>3, <1>7, <1>9 DEF D!CloseCalledOff, D!CloseThrows, D!ConnectAccepted, D!ConnectFails
<1>10. CASE D!BookLink(d) \/ D!PublishLink(d) \/ D!PutBack(d) \/ D!RememberSettings(d)
  BY <1>3, <1>7, <1>10 DEF D!BookLink, D!PublishLink, D!PutBack, D!RememberSettings
<1>11. CASE D!Leave(d) \/ D!LeaveUntouched(d)
  <2>1. attempt' = attempt \/ (attempt = d /\ attempt' = None)
    BY <1>11 DEF D!Leave, D!LeaveUntouched
  <2>2. dial[d].stage # "supersede"
    BY <1>11 DEF D!Leave, D!LeaveUntouched, D!Gone
  <2>3. CASE dial' = [dial EXCEPT ![d] = D!NoDial]
    BY <1>1, <2>1, <2>2, <2>3, MovesOn DEF D!NoDial
  <2>4. CASE dial' = [dial EXCEPT ![d].stage = "remember"]
    <3>1. ~Registered(At("remember"))
      <4> HIDE DEF At
      <4> QED BY <1>2, <1>3 DEF Registered
    <3>2. dial' = [dial EXCEPT ![d] = At("remember")]
      BY <2>4
    <3> HIDE DEF At
    <3> QED BY <1>3, <1>6, <2>1, <2>2, <3>1, <3>2
  <2> QED BY <1>11, <2>3, <2>4 DEF D!Leave, D!LeaveUntouched, D!Gone
<1> QED BY <1>4, <1>5, <1>8, <1>9, <1>10, <1>11 DEF D!DialStep

\* What a dial finds, and what the callback tells, keep their types.
LEMMA FieldsKept ==
  ASSUME PeopleInv, FieldTypes, D!DialSystem \/ D!Environment
  PROVE  FieldTypes'
<1> USE DEF FieldTypes, D!OfflineStates
<1>1. ASSUME NEW d \in D!Slots, D!DialStep(d) PROVE FieldTypes'
  <2>1. dial[d] \in D!DialRecords
    BY DEF PeopleInv, DialTypes
  <2>2. dial[d].was \in D!OfflineStates /\ dial[d].why \in Reasons \union {None}
    BY <2>1 DEF D!DialRecords
  <2> QED BY <1>1, <2>2 DEF D!DialStep, D!ConnectSkipped, D!RegisterAttempt, D!CancelStanding,
       D!EnterDialGate, D!EnterManager, D!CloseOldLink, D!CloseCalledOff, D!CloseThrows,
       D!ConnectAccepted, D!ConnectFails, D!BookLink, D!PublishLink, D!PutBack, D!Leave,
       D!LeaveUntouched, D!RememberSettings, D!SaveSettings, D!mgrVars
<1>2. CASE D!CloseLink \/ D!Callback
  BY <1>2 DEF D!CloseLink, D!Callback, D!OnDisconnected, D!DropExplained
<1>3. CASE D!Environment
  BY <1>3 DEF D!Environment, D!ReaderAsks, D!AbortAttempt, D!HangUp, D!HangUpGone, D!LinkDrops,
    D!mgrVars
<1> QED BY <1>1, <1>2, <1>3 DEF D!DialSystem

\* Every step of people, their dials and the network keeps every dial within reach.
LEMMA PeopleStep ==
  PeopleInv /\ FieldTypes /\ [D!DialSystem \/ D!Environment]_(D!dialVars)
    => PeopleInv' /\ FieldTypes'
<1> SUFFICES ASSUME PeopleInv, FieldTypes, [D!DialSystem \/ D!Environment]_(D!dialVars)
             PROVE  PeopleInv' /\ FieldTypes'
  OBVIOUS
<1>1. ASSUME NEW d \in D!Slots, D!DialStep(d) PROVE PeopleInv'
  <2>1. d # Sup
    BY <1>1 DEF PeopleInv, NoSupervisor, D!DialStep, D!ConnectSkipped, D!RegisterAttempt,
      D!CancelStanding, D!EnterDialGate, D!EnterManager, D!CloseOldLink, D!CloseCalledOff,
      D!CloseThrows, D!ConnectAccepted, D!ConnectFails, D!BookLink, D!PublishLink, D!PutBack,
      D!Leave, D!Gone, D!LeaveUntouched, D!RememberSettings, D!SaveSettings
  <2> QED BY <1>1, <2>1, TakesItsPlace, CancelsTheOther, DialMovesOn DEF D!Slots
<1>2. ASSUME UNCHANGED <<dial, attempt>> PROVE PeopleInv'
  BY <1>2 DEF PeopleInv, DialTypes, NoSupervisor, StandsBriefly, AllReached
<1>3. ASSUME NEW d \in Readers, NEW b \in Brokers, D!ReaderAsks(d, b) PROVE PeopleInv'
  <2> DEFINE r == [D!NoDial EXCEPT !.stage = "asked", !.to = b]
  <2>1. r \in D!DialRecords /\ r.stage = "asked" /\ r.standing = None /\ ~Registered(r)
    BY DEF D!DialRecords, D!NoDial, D!Stages, D!OfflineStates, Registered
  <2>2. dial' = [dial EXCEPT ![d] = r] /\ attempt' = attempt /\ dial[d].stage = "idle"
    BY <1>3 DEF D!ReaderAsks, D!Free
  <2> HIDE DEF r
  <2> QED BY <2>1, <2>2, MovesOn
<1>4. ASSUME D!AbortAttempt \/ D!HangUp PROVE PeopleInv'
  <2>1. dial' = D!Cancelled(dial, attempt) /\ UNCHANGED attempt
    BY <1>4 DEF D!AbortAttempt, D!HangUp
  <2> QED BY <2>1, CallsOff
<1>5. ASSUME D!CloseLink \/ D!Callback \/ D!HangUpGone \/ \E r \in Reasons : D!LinkDrops(r)
      PROVE  PeopleInv'
  BY <1>2, <1>5 DEF D!CloseLink, D!Callback, D!OnDisconnected, D!DropExplained, D!HangUpGone,
    D!LinkDrops, D!svcVars
<1>6. ASSUME UNCHANGED D!dialVars PROVE PeopleInv' /\ FieldTypes'
  BY <1>2, <1>6 DEF D!dialVars, D!mgrVars, D!svcVars, FieldTypes
<1>7. CASE D!DialSystem \/ D!Environment
  BY <1>1, <1>3, <1>4, <1>5, <1>7, FieldsKept DEF D!DialSystem, D!Environment
<1> QED BY <1>6, <1>7

\* For any number of consoles, brokers and reasons, however many callbacks wait: of dials
\* that people make, none is left running that nobody can call off.
THEOREM EveryDialCanBeCalledOff == PeopleSpec => []Abortable
<1>1. D!DialInit => PeopleInv /\ FieldTypes
  BY ServerAssumption DEF D!DialInit, D!NoDial, D!DialAssumption, PeopleInv, FieldTypes, DialTypes,
    NoSupervisor, StandsBriefly, AllReached, Registered, D!Slots, D!DialRecords, D!Stages,
    D!OfflineStates
<1>2. PeopleInv => Abortable
  BY DEF PeopleInv, AllReached, Registered, Abortable, D!Abortable, D!InFlight
<1> QED BY <1>1, <1>2, PeopleStep, PTL DEF PeopleSpec

-----------------------------------------------------------------------------
(* What arrives, and what stands under what, where one call follows another: *)
(* with one level, and a broker that refuses nothing.  Neither holds between *)
(* two awaits of a call: HearInv says what each stage still owes the broker.  *)

\* One level and a broker that refuses nothing: with two levels a filter goes deaf, and a
\* refusal leaves what was quietened under it.
OneLevel == MaxQos = 0 /\ Refusable = {} /\ IsFiniteSet(Filters)

\* The filters that stand: held, and not quiet.
Stand == {f \in Filters : owners[f] # {} /\ f \notin quiet}

\* What a call has still to ask for, what it was granted and has still to record, and what
\* stands or is about to.
Awaited(c) == {f \in Filters : \E b \in call[c].subs : f \in Named(b.reqs)}
Taken(c)   == Named(call[c].granted)
Tops(c)    == Stand \union Taken(c)

Asking == {"suback", "recording", "quieten", "quietack"}

\* What each stage of the one call holds.
InTurn(c) ==
  /\ call[c].no = {} /\ \A b \in call[c].subs : b.by # {}
  /\ call[c].stage = "idle" => call[c].subs = {}
  /\ call[c].stage \notin Asking => call[c].granted = {}
  /\ call[c].stage \in Asking => call[c].by # {}
  /\ call[c].stage \in {"quieten", "quietack"} =>
       call[c].wide \in Stand /\ \A n \in call[c].narrow : owners[n] # {}
  /\ call[c].stage \in {"release", "unsuback"} => call[c].subs = {} /\ call[c].fresh
  /\ call[c].stage = "unsuback" => call[c].filter \notin quiet

QuietIsHeld == \A f \in quiet : owners[f] # {}

\* Whatever is quiet is so under a filter that stands, or that was granted with it.
QuietIsCovered(c) == \A g \in quiet : \E h \in Tops(c) : <<h, g>> \in Covers

\* Nothing that stands, or was granted beside it, covers what was granted.
TakenIsOnTop(c) == \A f \in Taken(c), h \in Tops(c) : <<h, f>> \notin Covers

\* What stands under another is about to be asked for, or to be quietened.
StandsApart(c) ==
  \A g, h \in Stand : <<h, g>> \in Covers =>
    \/ g \in Awaited(c)
    \/ call[c].stage \in {"quieten", "quietack"} /\ call[c].wide = h /\ g \in call[c].narrow

\* What stands has a standing order, but for what is about to be asked for or let go of.
StandIsSent(c) ==
  /\ \A f \in Taken(c) : Sends(f)
  /\ \A f \in Stand : \/ Sends(f) \/ f \in Awaited(c)
                      \/ call[c].stage = "unsuback" /\ call[c].filter = f

TablesHold(c) ==
  /\ QuietIsHeld /\ QuietIsCovered(c) /\ TakenIsOnTop(c) /\ StandsApart(c)
  /\ told => StandIsSent(c)

Clean(c) == /\ call[c].stage = "idle" /\ call[c].subs = {}
            /\ call[c].granted = {} /\ call[c].no = {}

\* The one call there may be, and the tables round it.
Alone(c) ==
  /\ up => told
  /\ call[c].stage # "idle" => up
  /\ \A d \in Callers \ {c} : Clean(d)
  /\ InTurn(c)

HearInv == \E c \in Callers : Alone(c) /\ TablesHold(c)
-----------------------------------------------------------------------------
\* With one level, every level there is, is the same, and a request is its filter.
LEMMA Levels ==
  ASSUME OneLevel, TypeOK
  PROVE  /\ Qos = {0} /\ None # 0
         /\ \A f \in Filters : atQos[f] = 0 /\ consoleQos[f] = 0 /\ broker[f] \in {0, None}
         /\ \A r \in Requests : r.filter \in Filters /\ r.qos = 0 /\ r = [filter |-> r.filter, qos |-> 0]
  <1>1. Qos = {0} /\ None # 0
    BY SubscriptionAssumption DEF OneLevel, Qos
  <1>. QED  BY <1>1 DEF TypeOK, Requests

\* What covers a filter at all does so with one that nothing covers.
LEMMA Widest ==
  ASSUME OneLevel, NEW T \in SUBSET Filters, NEW g \in Filters, NEW k \in T, <<k, g>> \in Covers
  PROVE  \E w \in T : <<w, g>> \in Covers /\ \A y \in T : <<y, w>> \notin Covers
  <1>. DEFINE Over == {x \in T : <<x, g>> \in Covers}
              Above(x) == {y \in Over : <<y, x>> \in Covers}
              Sizes == {Cardinality(Above(x)) : x \in Over}
  <1>1. \A x \in Over : IsFiniteSet(Above(x)) /\ Cardinality(Above(x)) \in Nat
    BY FS_Subset, FS_CardinalityType DEF OneLevel
  <1>2. Sizes \subseteq Nat /\ Sizes # {}
    BY <1>1
  <1>3. PICK n \in Sizes : \A m \in Sizes : ~(<<m, n>> \in OpToRel(<, Nat))
    <2>. HIDE DEF Sizes
    <2>. QED  BY <1>2, WFMin, NatLessThanWellFounded
  <1>4. \A m \in Sizes : ~(m < n)
    BY <1>2, <1>3 DEF OpToRel
  <1>5. PICK w \in Over : n = Cardinality(Above(w))
    OBVIOUS
  <1>6. ASSUME NEW y \in T, <<y, w>> \in Covers  PROVE FALSE
    <2>1. y \in Over
      BY <1>6, SubscriptionAssumption
    <2>2. Above(y) \subseteq Above(w)
      BY <1>6, SubscriptionAssumption
    <2>3. y \in Above(w) /\ y \notin Above(y)
      BY <1>6, <2>1, SubscriptionAssumption
    <2>4. Cardinality(Above(y)) <= n /\ Cardinality(Above(y)) # n
      BY <1>1, <1>5, <2>2, <2>3, FS_Subset
    <2>5. Cardinality(Above(y)) \in Sizes
      BY <2>1
    <2>6. Cardinality(Above(y)) \in Nat /\ n \in Nat
      BY <1>1, <1>5, <2>1
    <2>7. ~(Cardinality(Above(y)) < n)
      BY <1>4, <2>5
    <2>. QED  BY <2>4, <2>6, <2>7
  <1>. QED  BY <1>5, <1>6

\* What is not worth asking for is what stands under something, up or in the batch.
LEMMA SiftedNames ==
  ASSUME OneLevel, TypeOK, NEW reqs \in SUBSET Requests
  PROVE  /\ Named(reqs) \subseteq Filters /\ Sifted(reqs) \subseteq reqs
         /\ Named(Sifted(reqs)) =
              {f \in Named(reqs) : \E k \in Stand \union Named(reqs) : <<k, f>> \in Covers}
         /\ Named(reqs \ Sifted(reqs)) = Named(reqs) \ Named(Sifted(reqs))
  <1>1. ASSUME NEW r \in reqs
        PROVE  r \in Sifted(reqs) <=>
                 \E k \in Stand \union Named(reqs) : <<k, r.filter>> \in Covers
    <2>0. r \in Requests /\ r.filter \in Filters /\ r.qos = 0
      BY Levels
    <2>1. Covering(r) = {g \in Stand : <<g, r.filter>> \in Covers}
      BY <2>0, Levels, SubscriptionAssumption DEF Covering, Stand, Held
    <2>2. \A s \in reqs : s.qos >= r.qos
      BY <2>0, Levels
    <2>3. r \in Sifted(reqs) <=> \/ Covering(r) # {}
                                 \/ \E s \in reqs : <<s.filter, r.filter>> \in Covers
      BY <2>2 DEF Sifted
    <2>. QED  BY <2>1, <2>3 DEF Named
  <1>2. \A r, s \in reqs : r.filter = s.filter => r = s
    BY Levels
  <1>3. Sifted(reqs) \subseteq reqs /\ Named(reqs) \subseteq Filters
    BY Levels DEF Sifted, Named
  <1>. QED  BY <1>1, <1>2, <1>3 DEF Named

\* What is asked has a standing order, and what had one keeps it.
LEMMA SentStays ==
  ASSUME OneLevel, TypeOK, NEW reqs \in SUBSET Requests, NEW f \in Filters
  PROVE  AtQosOf(broker, reqs)[f] # None <=> Sends(f) \/ f \in Named(reqs)
  <1>1. CASE \E r \in reqs : r.filter = f
    <2>1. AtQosOf(broker, reqs)[f] = (CHOOSE r \in reqs : r.filter = f).qos
      BY <1>1 DEF AtQosOf
    <2>2. (CHOOSE r \in reqs : r.filter = f) \in reqs
      BY <1>1
    <2>. QED  BY <1>1, <2>1, <2>2, Levels DEF Named
  <1>2. CASE ~ \E r \in reqs : r.filter = f
    BY <1>2 DEF AtQosOf, Sends, Named
  <1>. QED  BY <1>1, <1>2

\* A record that is written leaves every call's other fields.
LEMMA RewrittenFields ==
  ASSUME NEW k, CallsTyped(k), NEW fs, NEW d \in Callers
  PROVE  LET s == Rewritten(k, fs)[d]
         IN  /\ s.stage = k[d].stage /\ s.subs = k[d].subs /\ s.granted = k[d].granted
             /\ s.no = k[d].no /\ s.by = k[d].by /\ s.wide = k[d].wide
             /\ s.narrow = k[d].narrow /\ s.filter = k[d].filter
             /\ s.fresh = (k[d].fresh /\ k[d].filter \notin fs)
  <1>1. Rewritten(k, fs)[d] = [k[d] EXCEPT !.fresh = k[d].fresh /\ k[d].filter \notin fs]
    BY DEF Rewritten
  <1>2. k[d] \in CallRecords
    BY DEF CallsTyped
  <1>. QED  BY <1>1, <1>2 DEF CallRecords

\* While one call acts, the others have nothing out.
LEMMA OthersRest ==
  ASSUME NEW c \in Callers, Alone(c), TypeOK,
         \A d \in Callers \ {c} :
            /\ call'[d].stage = call[d].stage /\ call'[d].subs = call[d].subs
            /\ call'[d].granted = call[d].granted /\ call'[d].no = call[d].no
  PROVE  \A d \in Callers \ {c} : Clean(d)'
  BY DEF Alone, Clean

\* What the lemmas about steps start from: the tables and the calls are what they should be,
\* before and after, and one call is out.
Acts(c) == OneLevel /\ IInv /\ TypeOK' /\ Alone(c) /\ TablesHold(c)

\* A call that is out finds the link up and its last drop told.
LEMMA Acting ==
  ASSUME NEW c \in Callers, Acts(c), call[c].stage # "idle"
  PROVE  /\ up /\ told /\ TypeOK /\ CallsTyped(call) /\ call[c] \in CallRecords
         /\ DOMAIN call = Callers /\ StandIsSent(c)
  BY Before DEF Acts, Alone, TablesHold, CallsTyped

\* The batch is asked for: its widest are granted, and the rest is quiet under them or under
\* what stands.
LEMMA AskHears ==
  ASSUME NEW c \in Callers, Acts(c), Ask(c)
  PROVE  Alone(c)' /\ TablesHold(c)'
  <1>. USE DEF Acts
  <1>0. /\ call[c].stage = "next" /\ call[c].granted = {} /\ call[c].no = {}
        /\ up /\ told /\ TypeOK /\ CallsTyped(call) /\ call[c] \in CallRecords
        /\ DOMAIN call = Callers /\ StandIsSent(c)
    BY Acting DEF Ask, Alone, InTurn, Asking
  <1>1. PICK b \in call[c].subs :
        LET silent == Sifted(b.reqs)
            asked  == b.reqs \ silent
            rest   == Rewritten([call EXCEPT ![c].subs = @ \ {b}], Named(silent))
        IN /\ owners' = [f \in Filters |-> IF f \in Named(silent) THEN owners[f] \union b.by
                                                                  ELSE owners[f]]
           /\ quiet' = quiet \union Named(silent)
           /\ \E no \in SUBSET {r \in asked : r.filter \in Refusable} :
                /\ broker' = AtQosOf(broker, asked \ no)
                /\ call' = IF asked = {} THEN rest
                           ELSE [rest EXCEPT ![c].stage = "suback", ![c].by = b.by,
                                             ![c].granted = asked \ no, ![c].no = Named(no)]
    BY DEF Ask
  <1>. DEFINE reqs   == b.reqs
              silent == Sifted(reqs)
              asked  == reqs \ silent
              k      == [call EXCEPT ![c].subs = @ \ {b}]
              rest   == Rewritten(k, Named(silent))
              SN     == Named(silent)
              AN     == Named(asked)
  <1>2. b.by # {} /\ reqs \in SUBSET Requests /\ UNCHANGED <<up, told>>
    BY <1>0, CallFields DEF Batches, Alone, InTurn, Ask
  <1>3. /\ Named(reqs) \subseteq Filters /\ silent \subseteq reqs
        /\ SN = {f \in Named(reqs) : \E g \in Stand \union Named(reqs) : <<g, f>> \in Covers}
        /\ AN = Named(reqs) \ SN
    BY <1>0, <1>2, SiftedNames
  <1>4. /\ broker' = AtQosOf(broker, asked)
        /\ call' = IF asked = {} THEN rest
                   ELSE [rest EXCEPT ![c].stage = "suback", ![c].by = b.by,
                                     ![c].granted = asked, ![c].no = {}]
    <2>1. {r \in asked : r.filter \in Refusable} = {} /\ Named({}) = {}
      BY DEF OneLevel, Named
    <2>. QED  BY <1>1, <2>1
  <1>5. /\ CallsTyped(k) /\ k[c].subs = call[c].subs \ {b} /\ k[c].stage = "next"
        /\ k[c].granted = {} /\ k[c].no = {}
        /\ \A d \in Callers \ {c} : k[d] = call[d]
    <2>1. [call[c] EXCEPT !.subs = @ \ {b}] \in CallRecords
      BY <1>0, SetSubs, CallFields
    <2>2. k = [call EXCEPT ![c] = [call[c] EXCEPT !.subs = @ \ {b}]]
      BY <1>0
    <2>3. k[c] = [call[c] EXCEPT !.subs = @ \ {b}]
      BY <1>0, <2>2
    <2>4. CallsTyped(k)
      BY <1>0, <2>1, <2>2 DEF CallsTyped
    <2>. QED  BY <1>0, <2>2, <2>3, <2>4 DEF CallRecords
  <1>6. /\ rest[c].subs = call[c].subs \ {b} /\ rest[c].stage = "next"
        /\ rest[c].granted = {} /\ rest[c].no = {}
        /\ DOMAIN rest = Callers /\ rest[c] \in CallRecords
        /\ \A d \in Callers \ {c} :
             /\ rest[d].stage = call[d].stage /\ rest[d].subs = call[d].subs
             /\ rest[d].granted = call[d].granted /\ rest[d].no = call[d].no
    <2>. HIDE DEF k
    <2>1. CallsTyped(rest)
      BY <1>5, RewrittenKept
    <2>. QED  BY <1>5, <2>1, RewrittenFields DEF CallsTyped
  <1>7. /\ call'[c].subs = call[c].subs \ {b} /\ call'[c].no = {}
        /\ call'[c].granted = asked /\ call'[c].stage \in {"next", "suback"}
        /\ call'[c].stage = "next" => asked = {}
        /\ call'[c].stage = "suback" => call'[c].by = b.by
        /\ \A d \in Callers \ {c} :
             /\ call'[d].stage = call[d].stage /\ call'[d].subs = call[d].subs
             /\ call'[d].granted = call[d].granted /\ call'[d].no = call[d].no
    <2>. HIDE DEF rest, asked
    <2>. QED  BY <1>4, <1>6 DEF CallRecords
  <1>. HIDE DEF k, rest, silent, asked
  <1>8. Alone(c)'
    <2>1. InTurn(c)'
      BY <1>2, <1>7 DEF Alone, InTurn, Asking
    <2>2. \A d \in Callers \ {c} : Clean(d)'
      BY <1>0, <1>7, OthersRest
    <2>. QED  BY <1>0, <1>2, <2>1, <2>2 DEF Alone
  <1>9. Stand' = Stand \ SN /\ Taken(c)' = AN /\ Taken(c) = {}
    <2>1. Stand' = Stand \ SN
      BY <1>1, <1>2, <1>3 DEF Stand, silent
    <2>. QED  BY <1>0, <1>7, <2>1 DEF Taken, Named
  <1>10. Awaited(c) \subseteq Awaited(c)' \union Named(reqs)
    BY <1>7 DEF Awaited
  <1>11. QuietIsHeld'
    BY <1>1, <1>2, <1>3, <1>0 DEF QuietIsHeld, TablesHold, silent, TypeOK
  <1>12. QuietIsCovered(c)'
    <2>1. Stand \union Named(reqs) \in SUBSET Filters
      BY <1>3 DEF Stand
    <2>2. ASSUME NEW g \in quiet'  PROVE \E h \in Tops(c)' : <<h, g>> \in Covers
      <3>1. PICK h \in Stand \union Named(reqs) : <<h, g>> \in Covers
        BY <1>1, <1>3, <1>9 DEF TablesHold, QuietIsCovered, Tops, silent
      <3>2. PICK w \in Stand \union Named(reqs) :
              <<w, g>> \in Covers /\ \A y \in Stand \union Named(reqs) : <<y, w>> \notin Covers
        <4>1. g \in Filters
          BY <3>1, SubscriptionAssumption
        <4>. HIDE DEF reqs
        <4>. QED  BY <2>1, <3>1, <4>1, Widest
      <3>3. w \notin SN
        BY <1>3, <3>2
      <3>. QED  BY <1>3, <1>9, <3>2, <3>3 DEF Tops
    <2>. QED  BY <2>2 DEF QuietIsCovered
  <1>13. TakenIsOnTop(c)'
    <2>1. Tops(c)' \subseteq Stand \union Named(reqs)
      BY <1>3, <1>9 DEF Tops
    <2>. QED  BY <1>3, <1>9, <2>1 DEF TakenIsOnTop
  <1>14. StandsApart(c)'
    <2>1. ASSUME NEW g \in Stand', NEW h \in Stand', <<h, g>> \in Covers  PROVE g \in Awaited(c)'
      <3>1. g \in Stand /\ h \in Stand /\ g \notin SN
        BY <1>9, <2>1
      <3>2. g \in Awaited(c)
        BY <1>0, <2>1, <3>1 DEF TablesHold, StandsApart
      <3>. QED  BY <1>3, <1>10, <2>1, <3>1, <3>2
    <2>. QED  BY <2>1 DEF StandsApart
  <1>15. StandIsSent(c)'
    <2>1. \A f \in Filters : Sends(f)' <=> Sends(f) \/ f \in AN
      BY <1>0, <1>2, <1>4, SentStays DEF Sends, asked
    <2>2. \A f \in Stand : Sends(f) \/ f \in Awaited(c)
      BY <1>0 DEF StandIsSent
    <2>3. \A f \in Stand' : Sends(f)' \/ f \in Awaited(c)'
      BY <1>3, <1>9, <1>10, <2>1, <2>2 DEF Stand
    <2>. QED  BY <1>3, <1>9, <2>1, <2>3 DEF StandIsSent
  <1>. QED  BY <1>8, <1>11, <1>12, <1>13, <1>14, <1>15 DEF TablesHold

\* One granted filter is recorded: it stands, on top.
LEMMA RecordHears ==
  ASSUME NEW c \in Callers, Acts(c), Record(c)
  PROVE  Alone(c)' /\ TablesHold(c)'
  <1>. USE DEF Acts
  <1>0. /\ call[c].stage \in {"suback", "recording"} /\ call[c].no = {}
        /\ up /\ told /\ TypeOK /\ CallsTyped(call) /\ call[c] \in CallRecords
        /\ DOMAIN call = Callers /\ StandIsSent(c) /\ call[c].by # {}
    BY Acting DEF Record, Alone, InTurn, Asking
  <1>1. PICK r \in call[c].granted :
        /\ owners' = [owners EXCEPT ![r.filter] = @ \union call[c].by]
        /\ quiet' = quiet \ {r.filter}
        /\ call' = Rewritten([call EXCEPT ![c].stage = "quieten", ![c].granted = @ \ {r},
                                          ![c].wide = r.filter, ![c].narrow = Held], {r.filter})
        /\ UNCHANGED <<up, told, broker>>
    BY DEF Record, RecordsThen
  <1>. DEFINE k == [call EXCEPT ![c].stage = "quieten", ![c].granted = @ \ {r},
                                ![c].wide = r.filter, ![c].narrow = Held]
              q == [call[c] EXCEPT !.stage = "quieten", !.granted = @ \ {r},
                                   !.wide = r.filter, !.narrow = Held]
  <1>2. r \in Requests /\ r.filter \in Filters /\ call[c].granted \in SUBSET Requests
    BY <1>0, CallFields DEF Requests
  <1>3. /\ q.subs = call[c].subs /\ q.stage = "quieten" /\ q.granted = call[c].granted \ {r}
        /\ q.no = {} /\ q.by = call[c].by /\ q.wide = r.filter /\ q.narrow = Held
        /\ q \in CallRecords
    <2>1. Held \subseteq Filters
      BY DEF Held
    <2>. QED  BY <1>0, <1>2, <2>1 DEF CallRecords, Stages
  <1>4. k = [call EXCEPT ![c] = q]
    BY <1>0
  <1>. HIDE DEF q
  <1>5. CallsTyped(k) /\ k[c] = q /\ \A d \in Callers \ {c} : k[d] = call[d]
    BY <1>0, <1>3, <1>4 DEF CallsTyped
  <1>6. /\ call'[c].subs = call[c].subs /\ call'[c].no = {} /\ call'[c].by = call[c].by
        /\ call'[c].granted = call[c].granted \ {r} /\ call'[c].stage = "quieten"
        /\ call'[c].wide = r.filter /\ call'[c].narrow = Held
        /\ \A d \in Callers \ {c} :
             /\ call'[d].stage = call[d].stage /\ call'[d].subs = call[d].subs
             /\ call'[d].granted = call[d].granted /\ call'[d].no = call[d].no
    <2>. HIDE DEF k
    <2>1. call' = Rewritten(k, {r.filter})
      BY <1>1 DEF k
    <2>. QED  BY <1>3, <1>5, <2>1, RewrittenFields
  <1>. HIDE DEF k
  <1>7. Stand' = Stand \union {r.filter} /\ Taken(c) = Taken(c)' \union {r.filter}
    <2>1. Stand' = Stand \union {r.filter}
      BY <1>0, <1>1, <1>2 DEF Stand, TypeOK
    <2>. QED  BY <1>1, <1>6, <2>1 DEF Taken, Named
  <1>8. \A f \in Filters : owners[f] # {} => owners'[f] # {}
    BY <1>0, <1>1, <1>2 DEF TypeOK
  <1>9. Tops(c)' = Tops(c) /\ Awaited(c)' = Awaited(c)
    BY <1>6, <1>7 DEF Tops, Awaited
  <1>10. Alone(c)'
    <2>1. InTurn(c)'
      BY <1>0, <1>6, <1>7, <1>8 DEF Alone, InTurn, Asking, Held
    <2>2. \A d \in Callers \ {c} : Clean(d)'
      BY <1>0, <1>6, OthersRest
    <2>. QED  BY <1>0, <1>1, <2>1, <2>2 DEF Alone
  <1>11. QuietIsHeld'
    BY <1>0, <1>1, <1>8 DEF QuietIsHeld, TablesHold, TypeOK
  <1>12. QuietIsCovered(c)' /\ TakenIsOnTop(c)'
    BY <1>1, <1>7, <1>9 DEF QuietIsCovered, TakenIsOnTop, TablesHold
  <1>13. StandsApart(c)'
    <2>1. ASSUME NEW g \in Stand', NEW h \in Stand', <<h, g>> \in Covers, g \notin Awaited(c)'
          PROVE  h = r.filter /\ g \in Held
      <3>1. g # r.filter
        BY <1>7, <1>9, <2>1 DEF TablesHold, TakenIsOnTop, Tops
      <3>2. g \in Stand
        BY <1>7, <2>1, <3>1
      <3>3. h \notin Stand
        BY <1>0, <1>9, <2>1, <3>2 DEF TablesHold, StandsApart
      <3>. QED  BY <1>7, <2>1, <3>2, <3>3 DEF Stand, Held
    <2>. QED  BY <1>6, <2>1 DEF StandsApart
  <1>14. StandIsSent(c)'
    <2>1. \A f : Sends(f)' <=> Sends(f)
      BY <1>1 DEF Sends
    <2>2. \A f \in Taken(c) : Sends(f)
      BY <1>0 DEF StandIsSent
    <2>3. \A f \in Stand : Sends(f) \/ f \in Awaited(c)
      BY <1>0 DEF StandIsSent
    <2>. QED  BY <1>7, <1>9, <2>1, <2>2, <2>3 DEF StandIsSent
  <1>. QED  BY <1>10, <1>11, <1>12, <1>13, <1>14 DEF TablesHold

\* A step that moves one call alone, and keeps what it has to ask for and to record.
LEMMA OneMoves ==
  ASSUME NEW c \in Callers, Acts(c), up, NEW q, call' = [call EXCEPT ![c] = q],
         UNCHANGED <<owners, quiet, broker, up, told>>,
         q.subs = call[c].subs, q.granted = call[c].granted, q.no = {}
  PROVE  /\ call'[c] = q /\ Stand' = Stand /\ Taken(c)' = Taken(c) /\ Awaited(c)' = Awaited(c)
         /\ up' => told'
         /\ \A d \in Callers \ {c} : Clean(d)'
         /\ QuietIsHeld' /\ QuietIsCovered(c)' /\ TakenIsOnTop(c)'
         /\ StandIsSent(c) /\ told'
  <1>. USE DEF Acts
  <1>0. /\ TypeOK /\ DOMAIN call = Callers /\ told
        /\ \A d \in Callers \ {c} : call'[d] = call[d]
    BY Before DEF Alone, CallsTyped
  <1>1. call'[c] = q
    BY <1>0
  <1>2. Stand' = Stand
    BY DEF Stand
  <1>3. Taken(c)' = Taken(c) /\ Awaited(c)' = Awaited(c)
    BY <1>1 DEF Taken, Awaited
  <1>4. \A d \in Callers \ {c} : Clean(d)'
    BY <1>0, OthersRest
  <1>5. QuietIsHeld' /\ QuietIsCovered(c)' /\ TakenIsOnTop(c)'
    BY <1>2, <1>3 DEF TablesHold, QuietIsHeld, QuietIsCovered, TakenIsOnTop, Tops
  <1>. QED  BY <1>0, <1>1, <1>2, <1>3, <1>4, <1>5 DEF TablesHold

\* Everything granted is recorded.
LEMMA AskEndsHears ==
  ASSUME NEW c \in Callers, Acts(c), AskEnds(c)
  PROVE  Alone(c)' /\ TablesHold(c)'
  <1>0. /\ call[c].stage \in {"suback", "recording"} /\ call[c].no = {} /\ call[c].granted = {}
        /\ up /\ told /\ TypeOK /\ call[c] \in CallRecords /\ DOMAIN call = Callers
    BY Acting DEF AskEnds, Acts, Alone, InTurn
  <1>. DEFINE q == [call[c] EXCEPT !.stage = "next", !.by = {}]
  <1>1. call' = [call EXCEPT ![c] = q] /\ UNCHANGED <<owners, quiet, broker, up, told>>
    BY <1>0 DEF AskEnds
  <1>2. /\ q.subs = call[c].subs /\ q.granted = {} /\ q.no = {} /\ q.stage = "next"
    BY <1>0 DEF CallRecords
  <1>. HIDE DEF q
  <1>3. /\ call'[c] = q /\ Stand' = Stand /\ Taken(c)' = Taken(c) /\ Awaited(c)' = Awaited(c)
        /\ up' => told'
        /\ \A d \in Callers \ {c} : Clean(d)'
        /\ QuietIsHeld' /\ QuietIsCovered(c)' /\ TakenIsOnTop(c)'
        /\ StandIsSent(c) /\ told'
    BY <1>0, <1>1, <1>2, OneMoves
  <1>4. Alone(c)'
    BY <1>0, <1>1, <1>2, <1>3 DEF Acts, Alone, InTurn, Asking
  <1>5. StandsApart(c)' /\ StandIsSent(c)'
    BY <1>0, <1>1, <1>2, <1>3 DEF Acts, TablesHold, StandsApart, StandIsSent, Sends
  <1>. QED  BY <1>3, <1>4, <1>5 DEF TablesHold

\* One narrow filter is quiet from now on, under the wide one.
LEMMA QuietenHears ==
  ASSUME NEW c \in Callers, Acts(c), Quieten(c)
  PROVE  Alone(c)' /\ TablesHold(c)'
  <1>. USE DEF Acts
  <1>0. /\ call[c].stage = "quieten" /\ call[c].no = {} /\ call[c].by # {}
        /\ up /\ told /\ TypeOK /\ call[c] \in CallRecords /\ DOMAIN call = Callers
        /\ StandIsSent(c) /\ call[c].wide \in Stand /\ \A x \in call[c].narrow : owners[x] # {}
    BY Acting DEF Quieten, QuietensTo, Alone, InTurn, Asking
  <1>1. PICK n \in Filters :
          /\ n \in call[c].narrow \ (quiet \union {call[c].wide}) /\ <<call[c].wide, n>> \in Covers
          /\ quiet' = quiet \union {n} /\ broker' = [broker EXCEPT ![n] = None]
          /\ call' = [call EXCEPT ![c].stage = "quietack", ![c].narrow = @ \ {n}]
          /\ UNCHANGED <<owners, up, told>>
    BY DEF Quieten, QuietensTo, Quietens
  <1>. DEFINE q == [call[c] EXCEPT !.stage = "quietack", !.narrow = @ \ {n}]
  <1>2. /\ q.subs = call[c].subs /\ q.granted = call[c].granted /\ q.no = {} /\ q.by # {}
        /\ q.stage = "quietack" /\ q.wide = call[c].wide /\ q.narrow = call[c].narrow \ {n}
    BY <1>0 DEF CallRecords
  <1>. HIDE DEF q
  <1>3. call'[c] = q /\ \A d \in Callers \ {c} : call'[d] = call[d]
    <2>1. call' = [call EXCEPT ![c] = q]
      BY <1>0, <1>1 DEF q
    <2>. QED  BY <1>0, <2>1
  <1>4. Stand' = Stand \ {n} /\ Taken(c)' = Taken(c) /\ Awaited(c)' = Awaited(c)
    BY <1>1, <1>2, <1>3 DEF Stand, Taken, Awaited
  <1>5. n \notin Taken(c) /\ n # call[c].wide
    BY <1>0, <1>1 DEF TablesHold, TakenIsOnTop, Tops
  <1>6. Alone(c)'
    <2>1. InTurn(c)'
      BY <1>0, <1>1, <1>2, <1>3, <1>4, <1>5 DEF Alone, InTurn, Asking
    <2>2. \A d \in Callers \ {c} : Clean(d)'
      BY <1>0, <1>3, OthersRest
    <2>. QED  BY <1>0, <1>1, <2>1, <2>2 DEF Alone
  <1>7. QuietIsHeld'
    BY <1>0, <1>1 DEF TablesHold, QuietIsHeld
  <1>8. QuietIsCovered(c)'
    <2>1. ASSUME NEW g \in quiet'  PROVE \E h \in Tops(c)' : <<h, g>> \in Covers
      <3>1. CASE g = n
        BY <1>0, <1>1, <1>4, <1>5, <3>1 DEF Tops
      <3>2. CASE g \in quiet
        <4>1. PICK h \in Tops(c) : <<h, g>> \in Covers
          BY <3>2 DEF TablesHold, QuietIsCovered
        <4>2. CASE h = n
          <5>1. <<call[c].wide, g>> \in Covers
            BY <1>1, <4>1, <4>2, SubscriptionAssumption
          <5>. QED  BY <1>0, <1>4, <1>5, <5>1 DEF Tops
        <4>3. CASE h # n
          BY <1>4, <4>1, <4>3 DEF Tops
        <4>. QED  BY <4>2, <4>3
      <3>. QED  BY <1>1, <3>1, <3>2
    <2>. QED  BY <2>1 DEF QuietIsCovered
  <1>9. TakenIsOnTop(c)'
    BY <1>4 DEF TablesHold, TakenIsOnTop, Tops
  <1>10. StandsApart(c)'
    BY <1>0, <1>2, <1>3, <1>4 DEF TablesHold, StandsApart
  <1>11. StandIsSent(c)'
    <2>1. \A f \in Filters : f # n => (Sends(f)' <=> Sends(f))
      BY <1>0, <1>1 DEF Sends, TypeOK
    <2>2. Taken(c) \subseteq Filters /\ Stand \subseteq Filters
      BY <1>0, CallFields, Levels DEF Taken, Named, Stand
    <2>. QED  BY <1>0, <1>4, <1>5, <2>1, <2>2 DEF StandIsSent
  <1>. QED  BY <1>6, <1>7, <1>8, <1>9, <1>10, <1>11 DEF TablesHold

\* Answered, or everything under the wide filter is quiet.
LEMMA QuietenedHears ==
  ASSUME NEW c \in Callers, Acts(c), Quietened(c)
  PROVE  Alone(c)' /\ TablesHold(c)'
  <1>0. /\ call[c].stage \in {"quieten", "quietack"} /\ call[c].no = {} /\ call[c].by # {}
        /\ up /\ told /\ TypeOK /\ call[c] \in CallRecords /\ DOMAIN call = Callers
        /\ call[c].wide \in Stand /\ \A x \in call[c].narrow : owners[x] # {}
    BY Acting DEF Quietened, Acts, Alone, InTurn, Asking
  <1>1. UNCHANGED <<owners, quiet, broker, up, told>>
    BY DEF Quietened
  <1>2. CASE call[c].stage = "quietack"
    <2>. DEFINE q == [call[c] EXCEPT !.stage = "quieten"]
    <2>1. call' = [call EXCEPT ![c] = q]
      BY <1>0, <1>2 DEF Quietened
    <2>2. /\ q.subs = call[c].subs /\ q.granted = call[c].granted /\ q.no = {} /\ q.by # {}
          /\ q.stage = "quieten" /\ q.wide = call[c].wide /\ q.narrow = call[c].narrow
      BY <1>0 DEF CallRecords
    <2>. HIDE DEF q
    <2>3. /\ call'[c] = q /\ Stand' = Stand /\ Taken(c)' = Taken(c) /\ Awaited(c)' = Awaited(c)
          /\ up' => told'
          /\ \A d \in Callers \ {c} : Clean(d)'
          /\ QuietIsHeld' /\ QuietIsCovered(c)' /\ TakenIsOnTop(c)'
          /\ StandIsSent(c) /\ told'
      BY <1>0, <1>1, <2>1, <2>2, OneMoves
    <2>4. Alone(c)'
      BY <1>0, <1>1, <2>2, <2>3 DEF Acts, Alone, InTurn, Asking
    <2>5. StandsApart(c)' /\ StandIsSent(c)'
      BY <1>0, <1>1, <2>2, <2>3 DEF Acts, TablesHold, StandsApart, StandIsSent, Sends
    <2>. QED  BY <2>3, <2>4, <2>5 DEF TablesHold
  <1>3. CASE call[c].stage = "quieten"
    <2>. DEFINE q == [call[c] EXCEPT !.stage = "recording", !.wide = None, !.narrow = {}]
    <2>1. call' = [call EXCEPT ![c] = q] /\ \A n \in Filters : ~Quietens(c, n)
      BY <1>0, <1>3 DEF Quietened
    <2>2. /\ q.subs = call[c].subs /\ q.granted = call[c].granted /\ q.no = {} /\ q.by # {}
          /\ q.stage = "recording"
      BY <1>0 DEF CallRecords
    <2>. HIDE DEF q
    <2>3. /\ call'[c] = q /\ Stand' = Stand /\ Taken(c)' = Taken(c) /\ Awaited(c)' = Awaited(c)
          /\ up' => told'
          /\ \A d \in Callers \ {c} : Clean(d)'
          /\ QuietIsHeld' /\ QuietIsCovered(c)' /\ TakenIsOnTop(c)'
          /\ StandIsSent(c) /\ told'
      BY <1>0, <1>1, <2>1, <2>2, OneMoves
    <2>4. Alone(c)'
      BY <1>0, <1>1, <2>2, <2>3 DEF Acts, Alone, InTurn, Asking
    <2>5. ASSUME NEW g \in Stand, NEW h \in Stand, <<h, g>> \in Covers
          PROVE  g \in Awaited(c)
      <3>1. SUFFICES ASSUME g \notin Awaited(c)  PROVE FALSE
        OBVIOUS
      <3>2. call[c].wide = h /\ g \in call[c].narrow
        BY <2>5, <3>1 DEF Acts, TablesHold, StandsApart
      <3>3. g \in Filters /\ h \in Filters /\ g \notin quiet /\ g # h
        BY <2>5, SubscriptionAssumption DEF Stand
      <3>4. atQos[h] = 0 /\ atQos[g] = 0
        BY <1>0, <3>3, Levels DEF Acts
      <3>. QED  BY <2>1, <2>5, <3>2, <3>3, <3>4 DEF Quietens
    <2>6. StandsApart(c)' /\ StandIsSent(c)'
      BY <1>0, <1>1, <2>2, <2>3, <2>5 DEF StandsApart, StandIsSent, Sends
    <2>. QED  BY <2>3, <2>4, <2>6 DEF TablesHold
  <1>. QED  BY <1>0, <1>2, <1>3

\* What reading a record, and being done with one, leaves of a call.
LEMMA LettingGoFields ==
  ASSUME TypeOK, NEW c \in Callers, NEW f
  PROVE  /\ Read(c, f).subs = call[c].subs /\ Read(c, f).granted = call[c].granted
         /\ Read(c, f).no = call[c].no /\ Read(c, f).stage \in {"release", "next"}
         /\ Read(c, f).stage = "release" => Read(c, f).fresh
         /\ Done(c).subs = call[c].subs /\ Done(c).granted = call[c].granted
         /\ Done(c).no = call[c].no /\ Done(c).stage = "next"
  <1>1. call[c] \in CallRecords
    BY DEF TypeOK
  <1>. QED  BY <1>1 DEF Read, Done, CallRecords

\* A step that moves the call to what it lets go of next, or away.
LEMMA MovesOff ==
  ASSUME NEW c \in Callers, Acts(c), up, call[c].stage \in {"next", "release"},
         NEW q, call' = [call EXCEPT ![c] = q],
         UNCHANGED <<owners, quiet, broker, up, told>>,
         call[c].subs = {}, q.subs = {}, q.granted = {}, q.no = {},
         q.stage \in {"idle", "next", "release"}, q.stage = "release" => q.fresh
  PROVE  Alone(c)' /\ TablesHold(c)'
  <1>0. call[c].granted = {} /\ call[c].stage \notin {"quieten", "quietack", "unsuback"}
    BY DEF Acts, Alone, InTurn, Asking
  <1>1. /\ call'[c] = q /\ Stand' = Stand /\ Taken(c)' = Taken(c) /\ Awaited(c)' = Awaited(c)
        /\ up' => told'
        /\ \A d \in Callers \ {c} : Clean(d)'
        /\ QuietIsHeld' /\ QuietIsCovered(c)' /\ TakenIsOnTop(c)'
        /\ StandIsSent(c) /\ told'
    BY <1>0, OneMoves
  <1>2. Alone(c)'
    BY <1>1 DEF Alone, InTurn, Asking
  <1>3. StandsApart(c)' /\ StandIsSent(c)'
    BY <1>0, <1>1 DEF Acts, TablesHold, StandsApart, StandIsSent, Sends
  <1>. QED  BY <1>1, <1>2, <1>3 DEF TablesHold

\* The record is read.
LEMMA LetGoHears ==
  ASSUME NEW c \in Callers, Acts(c), LetGo(c)
  PROVE  Alone(c)' /\ TablesHold(c)'
  <1>0. /\ call[c].stage = "next" /\ call[c].no = {} /\ call[c].granted = {} /\ call[c].subs = {}
        /\ up /\ TypeOK
    BY Acting DEF LetGo, Acts, Alone, InTurn, Asking
  <1>1. PICK f \in call[c].unsubs : call' = [call EXCEPT ![c] = Read(c, f)]
    BY DEF LetGo
  <1>. DEFINE q == Read(c, f)
  <1>2. /\ q.subs = {} /\ q.granted = {} /\ q.no = {} /\ q.stage \in {"release", "next"}
        /\ q.stage = "release" => q.fresh
    BY <1>0, LettingGoFields
  <1>3. call' = [call EXCEPT ![c] = q] /\ UNCHANGED <<owners, quiet, broker, up, told>>
    BY <1>1 DEF LetGo
  <1>. HIDE DEF q
  <1>. QED  BY <1>0, <1>2, <1>3, MovesOff

\* Nothing is left of the call.
LEMMA CallEndsHears ==
  ASSUME NEW c \in Callers, Acts(c), CallEnds(c)
  PROVE  Alone(c)' /\ TablesHold(c)'
  <1>0. /\ call[c].stage = "next" /\ call[c].subs = {} /\ up
    BY Acting DEF CallEnds, Acts, Alone
  <1>1. NoCall.subs = {} /\ NoCall.granted = {} /\ NoCall.no = {} /\ NoCall.stage = "idle"
    BY DEF NoCall
  <1>2. call' = [call EXCEPT ![c] = NoCall] /\ UNCHANGED <<owners, quiet, broker, up, told>>
    BY DEF CallEnds
  <1>. QED  BY <1>0, <1>1, <1>2, MovesOff

\* A call that lets go of a filter it has read a claim on acts on the record that is there.
LEMMA ReadIsTrue ==
  ASSUME NEW c \in Callers, Acts(c), call[c].stage \in {"release", "unsuback"}
  PROVE  /\ call[c].fresh /\ call[c].filter \in Filters /\ owners[call[c].filter] = call[c].was
         /\ OwnerOf(c) \in call[c].was
         /\ call[c].stage = "unsuback" => call[c].was = {OwnerOf(c)}
         /\ call[c].subs = {} /\ call[c].granted = {} /\ call[c].no = {}
  BY Before DEF Acts, Alone, InTurn, Asking, AllRead, Reads

\* The call is done with the filter, and its record may have been written.
LEMMA DoneFields ==
  ASSUME NEW c \in Callers, Acts(c), call[c].stage \in {"release", "unsuback"},
         \E fs : call' = Rewritten([call EXCEPT ![c] = Done(c)], fs)
  PROVE  /\ call'[c].subs = {} /\ call'[c].granted = {} /\ call'[c].no = {}
         /\ call'[c].stage = "next"
         /\ \A d \in Callers \ {c} : Clean(d)'
  <1>. DEFINE k == [call EXCEPT ![c] = Done(c)]
  <1>0. TypeOK /\ CallsTyped(call) /\ AllRead(call, owners) /\ Done(c) \in CallRecords
    BY Before, DoneKept DEF Acts
  <1>1. CallsTyped(k) /\ k[c] = Done(c) /\ \A d \in Callers \ {c} : k[d] = call[d]
    BY <1>0 DEF CallsTyped
  <1>2. PICK fs : call' = Rewritten(k, fs)
    OBVIOUS
  <1>. HIDE DEF k
  <1>3. /\ call'[c].subs = Done(c).subs /\ call'[c].granted = Done(c).granted
        /\ call'[c].no = Done(c).no /\ call'[c].stage = Done(c).stage
    BY <1>1, <1>2, RewrittenFields
  <1>4. \A d \in Callers \ {c} :
             /\ call'[d].stage = call[d].stage /\ call'[d].subs = call[d].subs
             /\ call'[d].granted = call[d].granted /\ call'[d].no = call[d].no
    BY <1>1, <1>2, RewrittenFields
  <1>5. \A d \in Callers \ {c} : Clean(d)'
    BY <1>0, <1>4, OthersRest DEF Acts
  <1>. QED  BY <1>0, <1>3, <1>5, LettingGoFields, ReadIsTrue

\* So what stands, and nothing else, has to be seen to.
LEMMA DoneHears ==
  ASSUME NEW c \in Callers, Acts(c), up, told', up' = up, UNCHANGED broker,
         call[c].stage = "release", Stand' = Stand, quiet' \subseteq quiet, QuietIsHeld',
         call'[c].subs = {}, call'[c].granted = {}, call'[c].no = {}, call'[c].stage = "next",
         \A d \in Callers \ {c} : Clean(d)'
  PROVE  Alone(c)' /\ TablesHold(c)'
  <1>1. call[c].subs = {} /\ call[c].granted = {} /\ StandIsSent(c)
    BY ReadIsTrue, Acting
  <1>2. Taken(c) = {} /\ Taken(c)' = {} /\ Awaited(c) = {}
    BY <1>1 DEF Taken, Awaited, Named
  <1>3. Alone(c)'
    BY DEF Alone, InTurn, Asking
  <1>4. QuietIsCovered(c)' /\ TakenIsOnTop(c)'
    BY <1>2 DEF Acts, TablesHold, QuietIsCovered, TakenIsOnTop, Tops
  <1>5. StandsApart(c)'
    BY <1>2 DEF Acts, TablesHold, StandsApart
  <1>6. StandIsSent(c)'
    BY <1>1, <1>2 DEF StandIsSent, Sends
  <1>. QED  BY <1>3, <1>4, <1>5, <1>6 DEF TablesHold

\* Somebody else holds it still.
LEMMA ReleaseHears ==
  ASSUME NEW c \in Callers, Acts(c), Release(c)
  PROVE  Alone(c)' /\ TablesHold(c)'
  <1>. DEFINE f == call[c].filter
              left == call[c].was \ {OwnerOf(c)}
  <1>0. /\ call[c].stage = "release" /\ up /\ told /\ TypeOK
        /\ call[c].fresh /\ f \in Filters /\ owners[f] # {} /\ left # {}
    BY Acting, ReadIsTrue DEF Release
  <1>1. /\ owners' = [owners EXCEPT ![f] = left]
        /\ call' = Rewritten([call EXCEPT ![c] = Done(c)], {f})
        /\ UNCHANGED <<quiet, broker, up, told>>
    BY <1>0 DEF Release
  <1>2. Stand' = Stand
    BY <1>0, <1>1 DEF Stand, TypeOK
  <1>3. QuietIsHeld'
    BY <1>0, <1>1 DEF QuietIsHeld, Acts, TablesHold, TypeOK
  <1>4. /\ call'[c].subs = {} /\ call'[c].granted = {} /\ call'[c].no = {}
        /\ call'[c].stage = "next" /\ \A d \in Callers \ {c} : Clean(d)'
    <2>1. call[c].stage \in {"release", "unsuback"}
      BY <1>0
    <2>2. \E fs : call' = Rewritten([call EXCEPT ![c] = Done(c)], fs)
      BY <1>1
    <2>. QED  BY <2>1, <2>2, DoneFields
  <1>. QED  BY <1>0, <1>1, <1>2, <1>3, <1>4, DoneHears

\* The last claim on a quiet filter.
LEMMA ReleaseQuietHears ==
  ASSUME NEW c \in Callers, Acts(c), ReleaseQuiet(c)
  PROVE  Alone(c)' /\ TablesHold(c)'
  <1>. DEFINE f == call[c].filter
  <1>0. /\ call[c].stage = "release" /\ up /\ told /\ TypeOK
        /\ call[c].fresh /\ f \in Filters /\ f \in quiet
    BY Acting, ReadIsTrue DEF ReleaseQuiet
  <1>1. /\ owners' = [owners EXCEPT ![f] = {}] /\ quiet' = quiet \ {f}
        /\ call' = Rewritten([call EXCEPT ![c] = Done(c)], {f})
        /\ UNCHANGED <<broker, up, told>>
    BY <1>0 DEF ReleaseQuiet
  <1>2. Stand' = Stand
    BY <1>0, <1>1 DEF Stand, TypeOK
  <1>3. QuietIsHeld'
    BY <1>0, <1>1 DEF QuietIsHeld, Acts, TablesHold, TypeOK
  <1>4. /\ call'[c].subs = {} /\ call'[c].granted = {} /\ call'[c].no = {}
        /\ call'[c].stage = "next" /\ \A d \in Callers \ {c} : Clean(d)'
    <2>1. call[c].stage \in {"release", "unsuback"}
      BY <1>0
    <2>2. \E fs : call' = Rewritten([call EXCEPT ![c] = Done(c)], fs)
      BY <1>1
    <2>. QED  BY <2>1, <2>2, DoneFields
  <1>. QED  BY <1>0, <1>1, <1>2, <1>3, <1>4, DoneHears

\* The broker is told first: that one filter stands without its order.
LEMMA UnsubscribeHears ==
  ASSUME NEW c \in Callers, Acts(c), Unsubscribe(c)
  PROVE  Alone(c)' /\ TablesHold(c)'
  <1>. DEFINE f == call[c].filter
              q == [call[c] EXCEPT !.stage = "unsuback"]
  <1>0. /\ call[c].stage = "release" /\ up /\ told /\ TypeOK /\ call[c] \in CallRecords
        /\ DOMAIN call = Callers /\ StandIsSent(c) /\ f \notin quiet /\ f \in Filters
        /\ call[c].fresh /\ call[c].subs = {} /\ call[c].granted = {} /\ call[c].no = {}
    BY Acting, ReadIsTrue DEF Unsubscribe
  <1>1. /\ call' = [call EXCEPT ![c] = q] /\ broker' = [broker EXCEPT ![f] = None]
        /\ UNCHANGED <<owners, quiet, up, told>>
    BY <1>0 DEF Unsubscribe
  <1>2. /\ q.subs = {} /\ q.granted = {} /\ q.no = {} /\ q.stage = "unsuback"
        /\ q.filter = f /\ q.fresh
    BY <1>0 DEF CallRecords
  <1>. HIDE DEF q
  <1>3. call'[c] = q /\ \A d \in Callers \ {c} : call'[d] = call[d]
    BY <1>0, <1>1
  <1>4. /\ Stand' = Stand /\ Taken(c) = {} /\ Taken(c)' = {}
        /\ Awaited(c) = {} /\ Awaited(c)' = {}
    BY <1>0, <1>1, <1>2, <1>3 DEF Stand, Taken, Awaited, Named
  <1>5. Alone(c)'
    <2>1. \A d \in Callers \ {c} : Clean(d)'
      BY <1>0, <1>3, OthersRest DEF Acts
    <2>. QED  BY <1>0, <1>1, <1>2, <1>3, <2>1 DEF Alone, InTurn, Asking
  <1>6. QuietIsHeld' /\ QuietIsCovered(c)' /\ TakenIsOnTop(c)'
    BY <1>1, <1>4 DEF Acts, TablesHold, QuietIsHeld, QuietIsCovered, TakenIsOnTop, Tops
  <1>7. StandsApart(c)'
    BY <1>0, <1>4 DEF Acts, TablesHold, StandsApart
  <1>8. StandIsSent(c)'
    BY <1>0, <1>1, <1>2, <1>3, <1>4 DEF StandIsSent, Sends, Stand, TypeOK
  <1>. QED  BY <1>5, <1>6, <1>7, <1>8 DEF TablesHold

\* The filter goes, and what it covered alone stands and is asked for.
LEMMA UnsubscribedHears ==
  ASSUME NEW c \in Callers, Acts(c), Unsubscribed(c)
  PROVE  Alone(c)' /\ TablesHold(c)'
  <1>. DEFINE f == call[c].filter
              own == [owners EXCEPT ![f] = {}]
              orphans == Uncovered(own, f)
              batch(o) == [by |-> o, reqs |-> {[filter |-> g, qos |-> consoleQos[g]] :
                                               g \in {h \in orphans : own[h] = o}}]
              subs == {batch(own[g]) : g \in orphans}
              q == [Done(c) EXCEPT !.subs = subs]
              k == [call EXCEPT ![c] = q]
  <1>0. /\ call[c].stage = "unsuback" /\ up /\ told /\ TypeOK /\ CallsTyped(call)
        /\ StandIsSent(c) /\ f \notin quiet /\ f \in Filters
        /\ call[c].fresh /\ call[c].subs = {} /\ call[c].granted = {} /\ call[c].no = {}
    BY Acting, ReadIsTrue DEF Unsubscribed, Acts, Alone, InTurn
  <1>1. /\ owners' = own /\ quiet' = quiet \ orphans
        /\ call' = Rewritten(k, IF own # owners THEN {f} ELSE {})
        /\ UNCHANGED <<up, told, broker>>
    BY <1>0 DEF Unsubscribed, Resubscribes
  <1>2. /\ own \in [Filters -> SUBSET Owners] /\ own[f] = {}
        /\ \A g \in Filters : g # f => own[g] = owners[g]
    BY <1>0 DEF TypeOK
  <1>3. /\ orphans \subseteq quiet /\ f \notin orphans
        /\ \A g \in quiet : g \notin orphans <=>
             \E h \in Filters : h \notin quiet /\ own[h] # {} /\ <<h, g>> \in Covers
        /\ \A g \in quiet : g \in Filters /\ g # f /\ own[g] = owners[g] /\ own[g] # {}
    <2>1. \A g \in quiet : g \in Filters /\ g # f /\ own[g] = owners[g] /\ own[g] # {}
      BY <1>0, <1>2 DEF TypeOK, Acts, TablesHold, QuietIsHeld
    <2>2. ASSUME NEW g \in quiet, NEW h \in Filters
          PROVE  ~((IF h = f THEN 0 ELSE atQos[h]) < consoleQos[g])
      BY <1>0, <2>1, Levels DEF Acts
    <2>3. \A g \in quiet : g \in orphans <=>
            \A h \in Filters \ (quiet \union {g}) : ~(own[h] # {} /\ <<h, g>> \in Covers)
      <3>. HIDE DEF own
      <3>. QED  BY <2>1, <2>2 DEF Uncovered
    <2>4. orphans \subseteq quiet
      BY DEF Uncovered
    <2>. HIDE DEF orphans, own
    <2>5. f \notin orphans
      BY <1>0, <2>4
    <2>6. ASSUME NEW g \in quiet
          PROVE  g \notin orphans <=>
                   \E h \in Filters : h \notin quiet /\ own[h] # {} /\ <<h, g>> \in Covers
      BY <2>3
    <2>. QED  BY <2>1, <2>4, <2>5, <2>6
  <1>. HIDE DEF own
  <1>4. /\ subs \in SUBSET Batches /\ \A b \in subs : b.by # {}
        /\ \A g \in orphans : \E b \in subs : g \in Named(b.reqs)
    <2>1. \A g \in orphans : g \in Filters /\ own[g] # {} /\ own[g] \in SUBSET Owners
                             /\ consoleQos[g] \in Qos
      BY <1>0, <1>2, <1>3 DEF TypeOK
    <2>. HIDE DEF orphans
    <2>2. \A g \in orphans : batch(own[g]) \in Batches
      BY <2>1 DEF Batches, Requests
    <2>3. \A g \in orphans : g \in Named(batch(own[g]).reqs)
      <3>1. ASSUME NEW g \in orphans  PROVE g \in Named(batch(own[g]).reqs)
        <4>1. [filter |-> g, qos |-> consoleQos[g]] \in batch(own[g]).reqs
          BY <2>1
        <4>. QED  BY <4>1 DEF Named
      <3>. QED  BY <3>1
    <2>4. \A o : batch(o).by = o
      OBVIOUS
    <2>. HIDE DEF batch
    <2>. QED  BY <2>1, <2>2, <2>3, <2>4
  <1>. HIDE DEF orphans, subs
  <1>5. /\ q \in CallRecords /\ q.subs = subs /\ q.granted = {} /\ q.no = {} /\ q.stage = "next"
    <2>1. Done(c) \in CallRecords /\ Done(c).granted = {} /\ Done(c).no = {} /\ Done(c).stage = "next"
      BY <1>0, DoneKept, LettingGoFields
    <2>. HIDE DEF subs
    <2>2. q \in CallRecords
      BY <1>4, <2>1, SetSubs
    <2>. QED  BY <2>1, <2>2 DEF CallRecords
  <1>. HIDE DEF q
  <1>6. CallsTyped(k) /\ k[c] = q /\ \A d \in Callers \ {c} : k[d] = call[d]
    BY <1>0, <1>5 DEF CallsTyped
  <1>. HIDE DEF k
  <1>7. /\ call'[c].subs = subs /\ call'[c].granted = {} /\ call'[c].no = {}
        /\ call'[c].stage = "next"
        /\ \A d \in Callers \ {c} : Clean(d)'
    <2>1. PICK fs : call' = Rewritten(k, fs)
      BY <1>1
    <2>2. \A d \in Callers :
             /\ call'[d].stage = k[d].stage /\ call'[d].subs = k[d].subs
             /\ call'[d].granted = k[d].granted /\ call'[d].no = k[d].no
      BY <1>6, <2>1, RewrittenFields
    <2>3. \A d \in Callers \ {c} : Clean(d)'
      BY <1>0, <1>6, <2>2, OthersRest DEF Acts
    <2>. QED  BY <1>5, <1>6, <2>2, <2>3
  <1>8. /\ Stand' = (Stand \ {f}) \union orphans /\ Taken(c) = {} /\ Taken(c)' = {}
        /\ Awaited(c) = {} /\ orphans \subseteq Awaited(c)'
    <2>1. Stand' = (Stand \ {f}) \union orphans
      BY <1>0, <1>1, <1>2, <1>3 DEF Stand
    <2>2. Taken(c) = {} /\ Taken(c)' = {} /\ Awaited(c) = {}
      BY <1>0, <1>7 DEF Taken, Awaited, Named
    <2>3. orphans \subseteq Awaited(c)'
      BY <1>3, <1>4, <1>7 DEF Awaited
    <2>. QED  BY <2>1, <2>2, <2>3
  <1>9. Alone(c)'
    BY <1>0, <1>1, <1>4, <1>7 DEF Alone, InTurn, Asking
  <1>10. QuietIsHeld'
    BY <1>1, <1>3 DEF QuietIsHeld
  <1>11. QuietIsCovered(c)' /\ TakenIsOnTop(c)'
    <2>1. ASSUME NEW g \in quiet'  PROVE \E h \in Tops(c)' : <<h, g>> \in Covers
      <3>1. PICK h \in Filters : h \notin quiet /\ own[h] # {} /\ <<h, g>> \in Covers
        BY <1>1, <1>3, <2>1
      <3>2. h \in Stand /\ h # f
        BY <1>2, <3>1 DEF Stand
      <3>. QED  BY <1>8, <3>1, <3>2 DEF Tops
    <2>. QED  BY <1>8, <2>1 DEF QuietIsCovered, TakenIsOnTop
  <1>12. StandsApart(c)'
    <2>1. ASSUME NEW g \in Stand', NEW h \in Stand', <<h, g>> \in Covers, g \notin orphans
          PROVE  FALSE
      <3>1. g \in Stand
        BY <1>8, <2>1
      <3>2. PICK w \in Stand : <<w, g>> \in Covers
        <4>1. CASE h \in Stand
          BY <2>1, <4>1
        <4>2. CASE h \in quiet
          <5>1. PICK w \in Stand : <<w, h>> \in Covers
            BY <1>8, <4>2 DEF Acts, TablesHold, QuietIsCovered, Tops
          <5>2. <<w, g>> \in Covers
            BY <2>1, <5>1, SubscriptionAssumption
          <5>. QED  BY <5>2
        <4>. QED  BY <1>3, <1>8, <2>1, <4>1, <4>2
      <3>. QED  BY <1>0, <1>8, <3>1, <3>2 DEF Acts, TablesHold, StandsApart
    <2>. QED  BY <1>8, <2>1 DEF StandsApart
  <1>13. StandIsSent(c)'
    <2>1. \A g : Sends(g)' <=> Sends(g)
      BY <1>1 DEF Sends
    <2>2. \A g \in Stand : g # f => Sends(g)
      BY <1>0, <1>8 DEF StandIsSent
    <2>. QED  BY <1>8, <2>1, <2>2 DEF StandIsSent
  <1>. QED  BY <1>9, <1>10, <1>11, <1>12, <1>13 DEF TablesHold

\* Every step of the one call keeps what holds round it.
LEMMA CallHears ==
  ASSUME NEW c \in Callers, Acts(c), CallStep(c)
  PROVE  HearInv'
  <1>1. Alone(c)' /\ TablesHold(c)'
    BY AskHears, RecordHears, AskEndsHears, QuietenHears, QuietenedHears, LetGoHears,
       ReleaseHears, ReleaseQuietHears, UnsubscribeHears, UnsubscribedHears, CallEndsHears
       DEF CallStep
  <1>. QED  BY <1>1 DEF HearInv

\* With nobody asking, any caller is the one that may.
LEMMA AnyMayAsk ==
  ASSUME OneLevel, IInv, HearInv, Idle, NEW c \in Callers
  PROVE  /\ up => told
         /\ \A d \in Callers : Clean(d)
         /\ QuietIsHeld /\ (\A g \in quiet : \E h \in Stand : <<h, g>> \in Covers)
         /\ \A g, h \in Stand : <<h, g>> \notin Covers
         /\ told => \A f \in Stand : Sends(f)
  <1>1. PICK e \in Callers : Alone(e) /\ TablesHold(e)
    BY DEF HearInv
  <1>2. \A d \in Callers : Clean(d)
    <2>1. Clean(e)
      BY <1>1 DEF Idle, Alone, InTurn, Asking, Clean
    <2>. QED  BY <1>1, <2>1 DEF Alone
  <1>3. Taken(e) = {} /\ Awaited(e) = {} /\ call[e].stage = "idle"
    BY <1>2 DEF Taken, Awaited, Named, Clean
  <1>. QED  BY <1>1, <1>2, <1>3
            DEF Alone, TablesHold, QuietIsCovered, Tops, StandsApart, StandIsSent

\* ... and the tables hold round whichever it is.
LEMMA NobodyAsks ==
  ASSUME NEW c \in Callers, up => told, \A d \in Callers : Clean(d),
         QuietIsHeld, \A g \in quiet : \E h \in Stand : <<h, g>> \in Covers,
         \A g, h \in Stand : <<h, g>> \notin Covers,
         told => \A f \in Stand : Sends(f)
  PROVE  HearInv
  <1>1. Taken(c) = {} /\ Awaited(c) = {} /\ call[c].stage = "idle"
    BY DEF Taken, Awaited, Named, Clean
  <1>2. Alone(c)
    BY DEF Alone, InTurn, Clean, Asking
  <1>3. TablesHold(c)
    BY <1>1 DEF TablesHold, QuietIsCovered, TakenIsOnTop, Tops, StandsApart, StandIsSent
  <1>. QED  BY <1>2, <1>3 DEF HearInv

\* The same after a step.
LEMMA NobodyAsksThen ==
  ASSUME NEW c \in Callers, up' => told', \A d \in Callers : Clean(d)',
         QuietIsHeld', \A g \in quiet' : \E h \in Stand' : <<h, g>> \in Covers,
         \A g, h \in Stand' : <<h, g>> \notin Covers,
         told' => \A f \in Stand' : Sends(f)'
  PROVE  HearInv'
  <1>1. Taken(c)' = {} /\ Awaited(c)' = {} /\ call'[c].stage = "idle"
    BY DEF Taken, Awaited, Named, Clean
  <1>2. Alone(c)'
    BY DEF Alone, InTurn, Clean, Asking
  <1>3. TablesHold(c)'
    BY <1>1 DEF TablesHold, QuietIsCovered, TakenIsOnTop, Tops, StandsApart, StandIsSent
  <1>. QED  BY <1>2, <1>3 DEF HearInv

\* A call begins.
LEMMA StartHears ==
  ASSUME OneLevel, IInv, HearInv, Idle, NEW c \in Callers, up',
         NEW s \in SUBSET Batches, NEW u \in SUBSET Filters, Start(c, s, u),
         \A b \in s : b.by # {},
         UNCHANGED <<owners, quiet, told, broker>>, told
  PROVE  HearInv'
  <1>. DEFINE q == [NoCall EXCEPT !.stage = "next", !.subs = s, !.unsubs = u]
  <1>1. q.stage = "next" /\ q.subs = s /\ q.granted = {} /\ q.no = {}
    BY DEF NoCall
  <1>2. call' = [call EXCEPT ![c] = q] /\ DOMAIN call = Callers
    BY Before DEF Start, CallsTyped
  <1>. HIDE DEF q
  <1>3. call'[c] = q /\ \A d \in Callers \ {c} : call'[d] = call[d]
    BY <1>2
  <1>4. /\ \A d \in Callers : Clean(d)
        /\ QuietIsHeld /\ \A g \in quiet : \E h \in Stand : <<h, g>> \in Covers
        /\ \A g, h \in Stand : <<h, g>> \notin Covers
        /\ \A f \in Stand : Sends(f)
    BY AnyMayAsk
  <1>5. Stand' = Stand /\ Taken(c)' = {}
    BY <1>1, <1>3 DEF Stand, Taken, Named
  <1>6. Alone(c)'
    BY <1>1, <1>3, <1>4 DEF Alone, InTurn, Clean, Asking
  <1>7. TablesHold(c)'
    BY <1>4, <1>5
       DEF TablesHold, QuietIsHeld, QuietIsCovered, TakenIsOnTop, Tops, StandsApart, StandIsSent,
           Sends
  <1>. QED  BY <1>6, <1>7 DEF HearInv

\* The console asks or lets go, or the rules' pump finds something to do.
LEMMA StartsHear ==
  ASSUME OneLevel, IInv, HearInv, Idle, Starts
  PROVE  HearInv'
  <1>0. /\ up /\ up' /\ TypeOK /\ UNCHANGED <<owners, quiet, told, broker>>
        /\ told
    BY Before, AnyMayAsk DEF Starts, ConsoleAsks, ConsoleLetsGo, Sync, Callers
  <1>1. CASE ConsoleAsks
    <2>1. PICK r \in Requests : Start("console", {[by |-> {"console"}, reqs |-> {r}]}, {})
      BY <1>1 DEF ConsoleAsks
    <2>. DEFINE s == {[by |-> {"console"}, reqs |-> {r}]}
    <2>2. s \in SUBSET Batches /\ \A b \in s : b.by # {}
      BY DEF Batches, Owners
    <2>3. Start("console", s, {}) /\ "console" \in Callers
      BY <2>1 DEF Callers
    <2>. HIDE DEF s
    <2>. QED  BY <1>0, <2>2, <2>3, StartHears
  <1>2. CASE ConsoleLetsGo
    <2>1. PICK f \in Held : Start("console", {}, {f})
      BY <1>2 DEF ConsoleLetsGo
    <2>2. {f} \in SUBSET Filters /\ {} \in SUBSET Batches /\ "console" \in Callers
      BY DEF Held, Callers
    <2>. QED  BY <1>0, <2>1, <2>2, StartHears
  <1>3. CASE Sync
    <2>. DEFINE mine    == {f \in Filters : "rules" \in owners[f]}
                missing == wanted \ (mine \union refused)
                gone    == mine \ wanted
                s       == IF missing = {} THEN {}
                           ELSE {[by |-> {"rules"}, reqs |-> [filter : missing, qos : {RuleQos}]]}
    <2>1. missing \in SUBSET Filters /\ gone \in SUBSET Filters /\ "rules" \in Callers
      BY <1>0 DEF TypeOK, Callers
    <2>2. Start("rules", s, gone)
      BY <1>3 DEF Sync
    <2>. HIDE DEF missing, gone
    <2>3. s \in SUBSET Batches /\ \A b \in s : b.by # {}
      <3>1. [filter : missing, qos : {RuleQos}] \in SUBSET Requests
        BY <2>1, SubscriptionAssumption DEF Requests
      <3>. QED  BY <3>1 DEF Batches, Owners
    <2>. HIDE DEF s
    <2>. QED  BY <1>0, <2>1, <2>2, <2>3, StartHears
  <1>. QED  BY <1>1, <1>2, <1>3 DEF Starts

\* The link goes, its going is booked, and it is up again.
LEMMA LinkHears ==
  ASSUME OneLevel, IInv, HearInv, Idle, LinkDrops \/ DropTold \/ (told /\ LinkUp)
  PROVE  HearInv'
  <1>0. /\ TypeOK /\ CallsTyped(call) /\ "console" \in Callers /\ "restore" \in Callers
        /\ up => told
        /\ \A d \in Callers : Clean(d)
        /\ QuietIsHeld /\ \A g \in quiet : \E h \in Stand : <<h, g>> \in Covers
        /\ \A g, h \in Stand : <<h, g>> \notin Covers
        /\ told => \A f \in Stand : Sends(f)
    BY Before, AnyMayAsk DEF Callers
  <1>1. CASE LinkDrops
    <2>1. UNCHANGED <<owners, quiet, call>> /\ up' = FALSE /\ told' = FALSE
      BY <1>1 DEF LinkDrops
    <2>2. (\A d \in Callers : Clean(d)') /\ Stand' = Stand /\ QuietIsHeld'
      BY <1>0, <2>1 DEF Clean, Stand, QuietIsHeld
    <2>. QED  BY <1>0, <2>1, <2>2, NobodyAsksThen
  <1>2. CASE DropTold
    <2>1. /\ owners' = [f \in Filters |-> {}] /\ quiet' = {} /\ told'
          /\ call' = Rewritten(call, Filters)
      BY <1>2 DEF DropTold
    <2>2. \A d \in Callers : Clean(d)'
      BY <1>0, <2>1, RewrittenFields DEF Clean
    <2>3. Stand' = {} /\ QuietIsHeld'
      BY <2>1 DEF Stand, QuietIsHeld
    <2>. QED  BY <1>0, <2>1, <2>2, <2>3, NobodyAsksThen
  <1>3. CASE told /\ LinkUp
    <2>1. UNCHANGED <<owners, quiet, told, broker>> /\ up' /\ told'
      BY <1>3 DEF LinkUp
    <2>2. CASE Start("restore", {[by |-> {"console"}, reqs |-> heldAtDrop]}, {})
      <3>. DEFINE s == {[by |-> {"console"}, reqs |-> heldAtDrop]}
      <3>1. s \in SUBSET Batches /\ \A b \in s : b.by # {}
        BY <1>0 DEF Batches, Owners, TypeOK, Requests
      <3>2. Start("restore", s, {})
        BY <2>2
      <3>. HIDE DEF s
      <3>. QED  BY <1>0, <1>3, <2>1, <3>1, <3>2, StartHears
    <2>3. CASE UNCHANGED call
      <3>1. (\A d \in Callers : Clean(d)') /\ Stand' = Stand /\ QuietIsHeld'
        BY <1>0, <2>1, <2>3 DEF Clean, Stand, QuietIsHeld
      <3>2. \A f : Sends(f)' <=> Sends(f)
        BY <2>1 DEF Sends
      <3>3. \A f \in Stand' : Sends(f)'
        BY <1>0, <1>3, <3>1, <3>2
      <3>. QED  BY <1>0, <2>1, <3>1, <3>3, NobodyAsksThen
    <2>. QED  BY <1>3, <2>2, <2>3 DEF LinkUp
  <1>. QED  BY <1>1, <1>2, <1>3

\* One step of callers who take turns.
LEMMA SequentialStep ==
  ASSUME OneLevel, IInv, HearInv, [OneAtATime]_vars, TypeOK'
  PROVE  HearInv'
  <1>1. PICK e \in Callers : Alone(e) /\ TablesHold(e)
    BY DEF HearInv
  <1>2. ASSUME NEW c \in Callers, CallStep(c)  PROVE HearInv'
    <2>1. CASE c = e
      BY <1>1, <1>2, <2>1, CallHears DEF Acts
    <2>2. CASE c # e
      <3>1. call[c].stage = "idle"
        BY <1>1, <2>2 DEF Alone, Clean
      <3>. QED  BY <1>2, <3>1 DEF CallStep, Ask, Record, AskEnds, Quieten, QuietensTo, Quietened,
                    LetGo, Release, ReleaseQuiet, Unsubscribe, Unsubscribed, CallEnds
    <2>. QED  BY <2>1, <2>2
  <1>3. CASE Idle /\ Starts
    BY <1>3, StartsHear
  <1>4. ~up => Idle
    BY <1>1 DEF Alone, Clean, Idle
  <1>5. CASE (Idle /\ LinkDrops) \/ DropTold \/ (told /\ LinkUp)
    <2>1. DropTold \/ LinkUp => Idle
      BY <1>1, <1>4 DEF DropTold, LinkUp, Alone
    <2>. QED  BY <1>5, <2>1, LinkHears
  <1>6. CASE UNCHANGED <<owners, quiet, call, up, told, broker>>
    BY <1>6 DEF HearInv, Alone, TablesHold, InTurn, Clean, QuietIsHeld, QuietIsCovered, TakenIsOnTop,
         StandsApart, StandIsSent, Stand, Taken, Tops, Awaited, Sends
  <1>. QED  BY <1>2, <1>3, <1>5, <1>6 DEF OneAtATime, RulesChange, vars

\* The invariant from the start of a run to its end, whichever part it plays.
LEMMA SequentialInvariance ==
  ASSUME OneLevel
  PROVE  MCSpec => [](part # "people" => IInv /\ (part = "sequential" => HearInv))
  <1>. DEFINE Inv == part # "people" => IInv /\ (part = "sequential" => HearInv)
  <1>1. OneLevel
    OBVIOUS
  <1>2. MCInit => Inv
    <2>. SUFFICES ASSUME Init  PROVE IInv /\ HearInv
      BY DEF MCInit
    <2>1. (\A d \in Callers : Clean(d)) /\ "console" \in Callers
      BY DEF Init, Clean, NoCall, Callers
    <2>2. Stand = {} /\ QuietIsHeld /\ quiet = {} /\ told
      BY DEF Init, Stand, QuietIsHeld
    <2>. QED  BY <2>1, <2>2, InitInductive, NobodyAsks
  <1>3. Inv /\ [MCNext]_<<vars, dials, part>> => Inv'
    <2>. SUFFICES ASSUME Inv, [MCNext]_<<vars, dials, part>>, part' # "people"  PROVE Inv'
      OBVIOUS
    <2>1. part' = part
      BY DEF MCNext
    <2>2. CASE part = "sequential"
      <3>1. [OneAtATime]_vars
        BY <2>2 DEF MCNext
      <3>2. [Next]_vars
        BY <3>1 DEF OneAtATime, Next, Link, vars
      <3>3. IInv'
        BY <2>2, <3>2, Inductive
      <3>. QED  BY <1>1, <2>1, <2>2, <3>1, <3>3, SequentialStep DEF IInv
    <2>3. CASE part # "sequential"
      <3>1. [Next]_vars
        BY <2>1, <2>3 DEF MCNext, TwoOwners, Next, Link, vars
      <3>. QED  BY <2>1, <2>3, <3>1, Inductive
    <2>. QED  BY <2>2, <2>3
  <1>. QED  BY <1>2, <1>3, PTL DEF MCSpec

\* For any filters that cover one another as they may, with one level and a broker that
\* refuses nothing: where one call follows another, a filter somebody holds arrives
\* (MqttnetSubscriber's Sift, QuietenCoveredAsync and ResubscribeUncoveredAsync).
THEOREM WhoHoldsHears ==
  ASSUME OneLevel
  PROVE  MCSpec => []HeldIsHeard
  <1>1. (part # "people" => IInv /\ (part = "sequential" => HearInv)) => HeldIsHeard
    <2>. SUFFICES ASSUME IInv, HearInv, Settled, NEW f \in Held
         PROVE  \E g \in Filters : Brings(g, f)
      BY DEF HeldIsHeard, HearsWhatItHolds, IInv
    <2>1. Idle /\ told /\ "console" \in Callers
      BY DEF Settled, Idle, Callers
    <2>2. /\ \A g \in quiet : \E h \in Stand : <<h, g>> \in Covers
          /\ \A g \in Stand : Sends(g)
      BY <2>1, AnyMayAsk
    <2>. QED  BY <2>2 DEF Brings, Stand, Held
  <1>. QED  BY <1>1, SequentialInvariance, PTL

\* ... and no filter stands recorded under another that does (Sift and QuietenCoveredAsync).
THEOREM WhatStandsStandsApart ==
  ASSUME OneLevel
  PROVE  MCSpec => []NoneStandsUnderAnother
  <1>1. (part # "people" => IInv /\ (part = "sequential" => HearInv)) => NoneStandsUnderAnother
    <2>. SUFFICES ASSUME IInv, HearInv, Settled, NEW p \in Covers, {p[1], p[2]} \subseteq Held \ quiet
         PROVE  FALSE
      BY DEF NoneStandsUnderAnother, NoKnownDoubling
    <2>1. Idle /\ "console" \in Callers
      BY DEF Settled, Idle, Callers
    <2>2. \A g, h \in Stand : <<h, g>> \notin Covers
      BY <2>1, AnyMayAsk
    <2>3. p = <<p[1], p[2]>>
      BY SubscriptionAssumption
    <2>. QED  BY <2>2, <2>3 DEF Stand, Held
  <1>. QED  BY <1>1, SequentialInvariance, PTL
=============================================================================
