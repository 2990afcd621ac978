------------------------------ MODULE RuleDraft ------------------------------
(* One rule in the editor: what the server holds as boxes, the boxes changed   *)
(* one at a time, and the boxes as a rule again; what the editor refuses, and  *)
(* what the server's own validator refuses of what the editor sends.           *)
(*                                                                             *)
(* What is typed is a text, "" where the box is empty; Reads gives the texts   *)
(* that are numbers, in halves.  The two or three plain choices of a condition *)
(* (its operator, inside, negate) are one, its way.  A filter is its levels    *)
(* and so is a publish topic.  Where the two sides read a text by engines of   *)
(* their own the text is named for it: a pattern in the browser's "dialect", a *)
(* "mended" address, a "c1" control character, a level "uncarried" by MQTT.    *)
EXTENDS Integers, Sequences, SequencesExt, FiniteSets, Functions, Sieve

CONSTANTS Reads,            \* the texts that are numbers, and what they say in halves
          Text(_),          \* a number as a text
          Junk, Ways, Names, Patterns, Lines, Filters, Addresses, Headers, Secrets, Topics,
          Prefix,           \* the levels this server publishes its own alerts under
          PrefixesHeard,         \* those a form may go by: the last GET's, or before it the console's own
          Widest,           \* the greatest number of seconds the server's int holds, in halves
          Rules,            \* rules the server holds
          MaxEdits

VARIABLES draft,            \* the boxes
          rule,             \* the rule they were made of: a sequence of at most one
          touched,          \* history: the parts that have been edited
          edits

vars == <<draft, rule, touched, edits>>

Texts == DOMAIN Reads \cup {"", Junk}

SIMPLE_TYPES == {"threshold", "band", "pattern", "oneOf", "silence", "outlier",
                 "distributionShift", "shapeChange", "pulse"}
Joiners == {"all", "any"}

defaultK(method) == IF method = "tukey" THEN "1.5" ELSE "3"

\* A condition of this type, as a reader would want to find it.
blankCondition(type) ==
    CASE type = "threshold" -> [type |-> type, way |-> "gt", value |-> ""]
      [] type = "band"      -> [type |-> type, way |-> "gt", low |-> "", high |-> ""]
      [] type = "pattern"   -> [type |-> type, way |-> "gt", regex |-> ""]
      [] type = "oneOf"     -> [type |-> type, way |-> "gt", values |-> <<>>]
      [] type = "silence"   -> [type |-> type, after |-> "60"]
      [] type = "outlier"   -> [type |-> type, method |-> "tukey", k |-> defaultK("tukey"), window |-> ""]
      [] type = "pulse"     -> [type |-> type, metric |-> "count", way |-> "gt", value |-> "", window |-> ""]
      [] type \in {"distributionShift", "shapeChange"} -> [type |-> type, window |-> ""]
      [] OTHER -> [type |-> type, of |-> <<>>]

\* Between all and any the list is the same list, joined differently; nothing else is carried.
retypeCondition(current, next) ==
    IF next \in Joiners /\ current.type \in Joiners THEN [current EXCEPT !.type = next]
                                                    ELSE blankCondition(next)

-----------------------------------------------------------------------------
(* What comes over the wire.                                                   *)

Amounts == {Reads[t] : t \in DOMAIN Reads}
OrNot(amounts) == amounts \cup {0}

\* The conditions the form has boxes for.
Simple ==
    [type : {"threshold"}, way : Ways, value : Amounts]
    \cup [type : {"band"}, way : Ways, low : Amounts, high : Amounts]
    \cup [type : {"pattern"}, way : Ways, regex : Patterns]
    \cup [type : {"oneOf"}, way : Ways, values : Seq(STRING)]
    \cup [type : {"silence"}, after : Amounts]
    \cup [type : {"outlier"}, method : {"tukey", "sigma"}, k : OrNot(Amounts), window : OrNot(Amounts)]
    \cup [type : {"pulse"}, metric : {"count", "duty"}, way : Ways, value : Amounts,
          window : OrNot(Amounts)]
    \cup [type : {"distributionShift", "shapeChange"}, window : OrNot(Amounts)]

IsPart(c)      == c.type \in SIMPLE_TYPES => c \in Simple
IsComposite(c) == /\ c \in [type : Joiners, of : Seq(ToSet(c.of))]
                  /\ \A x \in ToSet(c.of) : IsPart(x)
IsCondition(c) == IF c.type \in Joiners THEN IsComposite(c) ELSE IsPart(c)

IsChannel(a) ==
    CASE a.type \in {"screen", "sound"} -> a \in [type : {"screen", "sound"}]
      [] a.type = "webhook" -> a \in [type : {"webhook"}, url : STRING, names : Seq(STRING \ {""})]
      [] a.type = "publish" -> a \in [type : {"publish"}, topic : Seq(STRING), retain : BOOLEAN]
      [] OTHER -> TRUE

IsRule(r) ==
    /\ r.name \in STRING /\ r.filter \in Seq(STRING)
    /\ IsCondition(r.condition)
    /\ r.clear \in Seq(ToSet(r.clear)) /\ Len(r.clear) <= 1 /\ \A c \in ToSet(r.clear) : IsCondition(c)
    /\ r.for \in Seq(Amounts) /\ Len(r.for) <= 1
    /\ r.actions \in Seq(ToSet(r.actions)) /\ \A a \in ToSet(r.actions) : IsChannel(a)

\* Every amount a rule may hold has a text, which reads as that amount.  The rest says what kind
\* of thing the sets the form picks from hold.
RuleDraftAssumption ==
    /\ Reads \in [DOMAIN Reads -> Int] /\ DOMAIN Reads \subseteq STRING \ {"", Junk}
    /\ \A n \in Amounts : Text(n) \in DOMAIN Reads /\ Reads[Text(n)] = n
    /\ {"1.5", "3", "60"} \subseteq DOMAIN Reads /\ Reads["1.5"] # 0 /\ Reads["3"] # 0
    /\ {"", Junk} \subseteq STRING /\ Junk # "" /\ "gt" \in Ways /\ "" \in Patterns /\ Lines \subseteq Seq(STRING)
    /\ Names \subseteq STRING /\ Filters \subseteq Seq(STRING) /\ Addresses \subseteq STRING
    /\ Headers \subseteq STRING /\ Secrets \subseteq STRING /\ Topics \subseteq Seq(STRING)
    /\ Prefix \in PrefixesHeard /\ PrefixesHeard \subseteq Seq(STRING) /\ Widest \in Int
    /\ \A r \in Rules : IsRule(r)

-----------------------------------------------------------------------------
(* From the wire to the boxes.                                                 *)

\* Nought on the wire is an empty box: the member was not given.
absent(n) == IF n = 0 THEN "" ELSE Text(n)
kOr(n, method) == IF n = 0 THEN defaultK(method) ELSE Text(n)

Opaque(c) == [type |-> "opaque", source |-> c]

simpleDraft(c) ==
    CASE c.type = "threshold" -> [c EXCEPT !.value = Text(@)]
      [] c.type = "band"      -> [c EXCEPT !.low = Text(@), !.high = Text(@)]
      [] c.type \in {"pattern", "oneOf"} -> c
      [] c.type = "silence"   -> [c EXCEPT !.after = Text(@)]
      [] c.type = "outlier"   -> [c EXCEPT !.k = kOr(@, c.method), !.window = absent(@)]
      [] c.type = "pulse"     -> [c EXCEPT !.value = Text(@), !.window = absent(@)]
      [] c.type \in {"distributionShift", "shapeChange"} -> [c EXCEPT !.window = absent(@)]
      [] OTHER -> Opaque(c)

\* One level of a composite is drawn; what lies deeper is carried as it is.
conditionDraft(c) ==
    IF c.type \in Joiners
    THEN [c EXCEPT !.of = [i \in DOMAIN @ |-> IF @[i].type \in Joiners THEN Opaque(@[i])
                                                                       ELSE simpleDraft(@[i])]]
    ELSE simpleDraft(c)

Actions(r, type) == Sieved(r.actions, {a \in ToSet(r.actions) : a.type = type})
Has(r, type) == Actions(r, type) # <<>>

\* The channels the form does not draw: all but the first of each kind it knows.
Extra(r) ==
    LET drawn(i) == /\ r.actions[i].type \in {"screen", "sound", "webhook", "publish"}
                    /\ \A j \in 1..i - 1 : r.actions[j].type # r.actions[i].type
        kept     == Sieved([i \in DOMAIN r.actions |-> i], {i \in DOMAIN r.actions : ~drawn(i)})
    IN  [n \in DOMAIN kept |-> r.actions[kept[n]]]

\* A header comes as a name with its value withheld: an empty box is the one already stored.
webhookDraft(a) == [url |-> a.url, headers |-> [i \in DOMAIN a.names |->
                                                  [name |-> a.names[i], value |-> ""]]]

draftOf(r) ==
    [name |-> r.name, filter |-> r.filter, condition |-> conditionDraft(r.condition),
     clear |-> [i \in DOMAIN r.clear |-> conditionDraft(r.clear[i])],
     for |-> IF r.for = <<>> THEN "" ELSE Text(r.for[1]),
     screen |-> Has(r, "screen"), sound |-> Has(r, "sound"),
     webhook |-> IF Has(r, "webhook") THEN <<webhookDraft(Actions(r, "webhook")[1])>> ELSE <<>>,
     publish |-> IF Has(r, "publish") THEN <<Actions(r, "publish")[1]>> ELSE <<>>,
     extra |-> Extra(r)]

blankDraft ==
    [name |-> "", filter |-> <<"">>, condition |-> blankCondition("threshold"), clear |-> <<>>,
     for |-> "", screen |-> TRUE, sound |-> FALSE, webhook |-> <<>>, publish |-> <<>>,
     extra |-> <<>>]

-----------------------------------------------------------------------------
(* From the boxes to the wire.                                                 *)

\* An empty box is nought; what is no number never gets past the faults below.
numberOf(t) == IF t \in DOMAIN Reads THEN Reads[t] ELSE 0
seconds(t)  == IF t = "" THEN <<>> ELSE <<numberOf(t)>>

\* A line each, the blank ones dropped.
listOf(lines) == Sieved(lines, ToSet(lines) \ {""})

simpleOf(d) ==
    CASE d.type = "opaque"    -> d.source
      [] d.type = "threshold" -> [d EXCEPT !.value = numberOf(@)]
      [] d.type = "band"      -> [d EXCEPT !.low = numberOf(@), !.high = numberOf(@)]
      [] d.type = "oneOf"     -> [d EXCEPT !.values = listOf(@)]
      [] d.type = "pattern"   -> d
      [] d.type = "silence"   -> [d EXCEPT !.after = numberOf(@)]
      [] d.type = "outlier"   -> [d EXCEPT !.k = numberOf(@), !.window = numberOf(@)]
      [] d.type = "pulse"     -> [d EXCEPT !.value = numberOf(@), !.window = numberOf(@)]
      [] OTHER                -> [d EXCEPT !.window = numberOf(@)]

conditionOf(d) == IF d.type \in Joiners THEN [d EXCEPT !.of = [i \in DOMAIN @ |-> simpleOf(@[i])]]
                                        ELSE simpleOf(d)

\* The headers that have a name.
Named(w) == Sieved(w.headers, {h \in ToSet(w.headers) : h.name # ""})

\* Always a map, never absent: this form has opened the headers.  Of two rows of one name the
\* later speaks.
webhookOf(w) ==
    LET named == Named(w)
        last(n) == CHOOSE i \in DOMAIN named : /\ named[i].name = n
                                               /\ \A j \in i + 1..Len(named) : named[j].name # n
    IN  [type |-> "webhook", url |-> w.url,
         headers |-> [n \in {named[i].name : i \in DOMAIN named} |-> named[last(n)].value]]

ruleOf(d) ==
    [name |-> d.name, filter |-> d.filter, condition |-> conditionOf(d.condition),
     clear |-> [i \in DOMAIN d.clear |-> conditionOf(d.clear[i])],
     for |-> seconds(d.for),
     actions |-> (IF d.screen THEN <<[type |-> "screen"]>> ELSE <<>>)
                 \o (IF d.sound THEN <<[type |-> "sound"]>> ELSE <<>>)
                 \o [i \in DOMAIN d.webhook |-> webhookOf(d.webhook[i])]
                 \o d.publish \o d.extra]

-----------------------------------------------------------------------------
(* What the editor refuses.                                                    *)

finite(t) == t \in DOMAIN Reads
whole(t)  == finite(t) /\ Reads[t] % 2 = 0
wholeSeconds(t) == t = "" \/ (whole(t) /\ Reads[t] >= 0)

MIN_WINDOW == 2 * 20
MAX_WINDOW == 2 * 2000

windowFault(t) == t # "" /\ ~(whole(t) /\ Reads[t] \in MIN_WINDOW..MAX_WINDOW)

\* k's range is the method's, because k is the method's number.
kFault(method, t) ==
    t # "" /\ ~(finite(t) /\ Reads[t] \in IF method = "tukey" THEN 1..10 ELSE 2..20)

\* The browser's engine: a pattern of its own dialect compiles too.
browserCompiles(regex) == regex # "unclosed"

simpleFault(c) ==
    CASE c.type = "threshold" -> ~finite(c.value)
      [] c.type = "band"      -> ~finite(c.low) \/ ~finite(c.high)
      [] c.type = "pattern"   -> c.regex \in {"", "long"} \/ ~browserCompiles(c.regex)
      [] c.type = "oneOf"     -> listOf(c.values) = <<>>
      [] c.type = "silence"   -> ~(whole(c.after) /\ Reads[c.after] >= 2)
      [] c.type = "outlier"   -> windowFault(c.window) \/ kFault(c.method, c.k)
      [] c.type = "pulse"     -> \/ windowFault(c.window) \/ ~finite(c.value)
                                 \/ Reads[c.value] < 0
                                 \/ (c.metric = "duty" /\ Reads[c.value] > 2)
      [] c.type = "opaque"    -> FALSE      \* kept, not judged
      [] OTHER                -> windowFault(c.window)

conditionFault(c) == IF c.type \in Joiners THEN c.of = <<>> \/ \E i \in DOMAIN c.of : simpleFault(c.of[i])
                                           ELSE simpleFault(c)

Momentary == {"silence", "distributionShift", "shapeChange"}

\* Mutant: only the condition itself is asked about, and none of its children.
alreadyADurationItself(c) == c.type \in Momentary

\* Whether anything here is an interval or a moment already, which 'for' cannot wait out.
alreadyADuration(c) == \/ c.type \in Momentary
                       \/ c.type \in Joiners /\ \E i \in DOMAIN c.of : c.of[i].type \in Momentary

Wildcards == {"#", "+"}

\* Whether a filter reaches into the tree under the prefix the form goes by.
covers(f, p) ==
    \/ \E i \in DOMAIN p : /\ i <= Len(f) /\ f[i] = "#"
                           /\ \A j \in 1..i - 1 : f[j] = "+" \/ f[j] = p[j]
    \/ Len(f) > Len(p) /\ \A j \in DOMAIN p : f[j] = "+" \/ f[j] = p[j]

filterFault(f, p) == \/ f = <<"">>
                     \/ \E i \in DOMAIN f : f[i] = "#x" \/ (f[i] = "#" /\ i # Len(f))
                     \/ covers(f, p)

\* Of the control characters it knows those below a space, and DEL.
webhookFault(w) ==
    \/ w.url \in {"", "relative", "ftp", "user"}
    \/ \E h \in ToSet(Named(w)) : h.name = "long" \/ "control" \in {h.name, h.value}

startsWith(topic, p) == Len(topic) > Len(p) /\ \A j \in DOMAIN p : topic[j] = p[j]

\* A publish topic stays under the prefix, and a retained one from a wildcard filter says which
\* topic it is about.
publishFault(a, f, p) ==
    /\ a.topic # <<>>
    /\ \/ ToSet(a.topic) \cap Wildcards # {}
       \/ ~startsWith(a.topic, p)
       \/ a.retain /\ ToSet(f) \cap Wildcards # {} /\ "{topic}" \notin ToSet(a.topic)

faultsIn(d, p) ==
    {x \in {"name", "filter", "for", "condition", "clear", "webhook", "publish"} :
        CASE x = "name"      -> d.name \in {"", "long"}
          [] x = "filter"    -> filterFault(d.filter, p)
          [] x = "for"       -> ~wholeSeconds(d.for) \/ (d.for # "" /\ alreadyADuration(d.condition))
          [] x = "condition" -> conditionFault(d.condition)
          [] x = "clear"     -> d.clear # <<>> /\ conditionFault(d.clear[1])
          [] x = "webhook"   -> d.webhook # <<>> /\ webhookFault(d.webhook[1])
          [] x = "publish"   -> d.publish # <<>> /\ publishFault(d.publish[1], d.filter, p)}

savable(d, p) == faultsIn(d, p) = {}

-----------------------------------------------------------------------------
(* What the server refuses, by checks of its own.  It walks the whole tree, and  *)
(* nought is not given.                                                        *)

OutsideTheWindow(n) == n # 0 /\ (n < MIN_WINDOW \/ n > MAX_WINDOW)

\* JSON that lies deeper than this is not read at all.
MAX_DEPTH == 64

\* A condition and all that it is made of, to the bottom.
Within(c) ==
    LET parts[n \in 0..MAX_DEPTH] ==
          IF n = 0 THEN {c}
          ELSE LET above == parts[n - 1]
               IN  above \cup UNION {ToSet(x.of) : x \in {y \in above : y.type \in Joiners}}
    IN  parts[MAX_DEPTH]

\* The engine of .NET.
Compiles(regex) == regex \notin {"unclosed", "dialect"}

FaultItself(c) ==
    CASE c.type = "pattern" -> c.regex = "long" \/ ~Compiles(c.regex)
      [] c.type = "silence" -> c.after <= 0
      [] c.type = "outlier" -> \/ OutsideTheWindow(c.window)
                               \/ c.k # 0 /\ c.k \notin IF c.method = "tukey" THEN 1..10 ELSE 2..20
      [] c.type = "pulse"   -> \/ OutsideTheWindow(c.window) \/ c.value < 0
                               \/ (c.metric = "duty" /\ c.value > 2)
      [] c.type \in {"distributionShift", "shapeChange"} -> OutsideTheWindow(c.window)
      [] OTHER -> FALSE

Fault(c) == \E x \in Within(c) : FaultItself(x)
AlreadyADuration(c) == \E x \in Within(c) : x.type \in Momentary

\* A wait its int does not hold is refused as the body is read, wherever it stands.
Binds(c) == \A x \in Within(c) : x.type = "silence" => x.after <= Widest

IsValidFilter(f) ==
    /\ f # <<"">> /\ "uncarried" \notin ToSet(f)     \* longer than MQTT carries, or a NUL in it
    /\ \A i \in DOMAIN f : f[i] # "#x" /\ (f[i] = "#" => i = Len(f))

\* The filter goes along with the prefix, and past its end or to a '#' on the way.
Covers(f) ==
    \E n \in 0..Len(Prefix) :
        /\ n < Len(f) /\ \A j \in 1..n : f[j] = "+" \/ f[j] = Prefix[j]
        /\ n = Len(Prefix) \/ f[n + 1] = "#"

Inside(topic) == Len(topic) > Len(Prefix) /\ \A j \in DOMAIN Prefix : topic[j] = Prefix[j]

HasWildcard(t) == \E i \in DOMAIN t : t[i] \in {"#", "+"}

WebhookFaults(a) ==
    \/ a.url \in {"", "relative", "ftp", "user", "mended"}
    \/ "headers" \in DOMAIN a /\ \E n \in DOMAIN a.headers :
          n = "long" \/ a.headers[n] = "huge" \/ {n, a.headers[n]} \cap {"control", "c1"} # {}

PublishFaults(a, f) ==
    /\ a.topic # <<>>
    /\ \/ "uncarried" \in ToSet(a.topic) \/ HasWildcard(a.topic)
       \/ ~Inside(a.topic)
       \/ a.retain /\ HasWildcard(f) /\ \A i \in DOMAIN a.topic : a.topic[i] # "{topic}"

ActionFault(a, f) ==
    CASE a.type = "webhook" -> WebhookFaults(a)
      [] a.type = "publish" -> PublishFaults(a, f)
      [] OTHER -> a.type \notin {"screen", "sound"}

ServerTakes(r) ==
    /\ r.name \notin {"", "long"} /\ IsValidFilter(r.filter) /\ ~Covers(r.filter)
    /\ Binds(r.condition) /\ ~Fault(r.condition)
    /\ \A i \in DOMAIN r.clear : Binds(r.clear[i])         \* and nothing else of it
    /\ r.for # <<>> => ~AlreadyADuration(r.condition) /\ r.for[1] \in 0..Widest
    /\ \A i \in DOMAIN r.actions : ~ActionFault(r.actions[i], r.filter)

-----------------------------------------------------------------------------
(* The form.                                                                   *)

Init == /\ \/ rule = <<>> /\ draft = blankDraft
           \/ \E r \in Rules : rule = <<r>> /\ draft = draftOf(r)
        /\ touched = {} /\ edits = 0

Edit(part, d) == /\ edits < MaxEdits /\ edits' = edits + 1
                 /\ d # draft /\ draft' = d /\ touched' = touched \cup {part}
                 /\ UNCHANGED rule

\* The boxes of a condition, each changed by itself; another method takes its own k with it.
Put(c, boxes, values) == {[c EXCEPT ![b] = v] : b \in DOMAIN c \cap boxes, v \in values}

Boxed(c) ==
    Put(c, {"value", "low", "high", "after", "k", "window"}, Texts)
    \cup Put(c, {"way"}, Ways) \cup Put(c, {"regex"}, Patterns) \cup Put(c, {"values"}, Lines)
    \cup Put(c, {"metric"}, {"count", "duty"})
    \cup {[e EXCEPT !.k = defaultK(e.method)] : e \in Put(c, {"method"}, {"tukey", "sigma"})}

\* A composite's children: added at the end, taken out, retyped blank, or changed in place.
Children(s) ==
    {Append(s, blankCondition("threshold"))}
    \cup {RemoveAt(s, i) : i \in DOMAIN s}
    \cup UNION {{[s EXCEPT ![i] = b] : b \in Boxed(s[i]) \cup {blankCondition(t) : t \in SIMPLE_TYPES}} :
                i \in DOMAIN s}

ConditionFields(c) ==
    {retypeCondition(c, t) : t \in SIMPLE_TYPES \cup Joiners}
    \cup IF c.type \in Joiners THEN {[c EXCEPT !.of = l] : l \in Children(c.of)} ELSE Boxed(c)

EditCondition == \E c \in ConditionFields(draft.condition) :
    Edit("condition", [draft EXCEPT !.condition = c])

EditClear == \E c \in (IF draft.clear = <<>> THEN {<<blankCondition("threshold")>>}
                       ELSE {<<>>} \cup {<<x>> : x \in ConditionFields(draft.clear[1])}) :
    Edit("clear", [draft EXCEPT !.clear = c])

EditWords == \/ \E n \in Names   : Edit("name", [draft EXCEPT !.name = n])
             \/ \E f \in Filters : Edit("filter", [draft EXCEPT !.filter = f])
             \/ \E t \in Texts   : Edit("for", [draft EXCEPT !.for = t])
             \/ Edit("actions", [draft EXCEPT !.screen = ~@])
             \/ Edit("actions", [draft EXCEPT !.sound = ~@])

\* A row of headers: added at the end, taken out, its name or its value written.
Rows(s) ==
    {Append(s, [name |-> "", value |-> ""])}
    \cup {RemoveAt(s, i) : i \in DOMAIN s}
    \cup UNION {{[s EXCEPT ![i] = h] : h \in Put(s[i], {"name"}, Headers) \cup Put(s[i], {"value"}, Secrets)} :
                i \in DOMAIN s}

EditedWebhook(w) == {[w EXCEPT !.url = u] : u \in Addresses} \cup {[w EXCEPT !.headers = l] : l \in Rows(w.headers)}

EditWebhook == \E w \in (IF draft.webhook = <<>> THEN {<<[url |-> "", headers |-> <<>>]>>}
                         ELSE {<<>>} \cup {<<x>> : x \in EditedWebhook(draft.webhook[1])}) :
    Edit("actions", [draft EXCEPT !.webhook = w])

EditPublish ==
    \E p \in (IF draft.publish = <<>> THEN {<<[type |-> "publish", topic |-> <<>>, retain |-> FALSE]>>}
              ELSE {<<>>} \cup {<<[draft.publish[1] EXCEPT !.topic = t]>> : t \in Topics}
                          \cup {<<[draft.publish[1] EXCEPT !.retain = ~@]>>}) :
    Edit("actions", [draft EXCEPT !.publish = p])

Next == EditCondition \/ EditClear \/ EditWords \/ EditWebhook \/ EditPublish

Spec == Init /\ [][Next]_vars

-----------------------------------------------------------------------------
(* Properties.                                                                 *)

TypeOK == /\ touched \subseteq {"name", "filter", "for", "condition", "clear", "actions"}
          /\ Len(draft.clear) <= 1 /\ Len(draft.webhook) <= 1 /\ Len(draft.publish) <= 1
          /\ draft.condition.type \in SIMPLE_TYPES \cup Joiners \cup {"opaque"}

\* A rule with what was left out of it said: an outlier's k is its method's own, and a header
\* sent by its name alone asks for the value on disk.  The blank values of a list are the one
\* thing the form drops.
SimpleSaid(c) ==
    CASE c.type = "outlier" /\ c.k = 0 -> [c EXCEPT !.k = Reads[defaultK(c.method)]]
      [] c.type = "oneOf"              -> [c EXCEPT !.values = listOf(@)]
      [] OTHER                         -> c
Said(c) == IF c.type \in Joiners THEN [c EXCEPT !.of = [i \in DOMAIN @ |-> SimpleSaid(@[i])]]
                                 ELSE SimpleSaid(c)

SaidAction(a) == IF "names" \in DOMAIN a
                 THEN [type |-> a.type, url |-> a.url, headers |-> [n \in ToSet(a.names) |-> ""]]
                 ELSE a

\* A rule somebody opened and did not touch is the rule that goes back: each part of it that
\* was not edited, whatever was done to the others, the channels the form does not draw too.
OpenedIsKept ==
    rule # <<>> =>
        LET back == ruleOf(draft)
            r    == rule[1]
        IN  /\ "name" \in touched \/ back.name = r.name
            /\ "filter" \in touched \/ back.filter = r.filter
            /\ "for" \in touched \/ back.for = r.for
            /\ "condition" \in touched \/ back.condition = Said(r.condition)
            /\ "clear" \in touched \/ back.clear = [i \in DOMAIN r.clear |-> Said(r.clear[i])]
            /\ "actions" \in touched \/
                  {SaidAction(a) : a \in ToSet(back.actions)} = {SaidAction(a) : a \in ToSet(r.actions)}

\* What a sheet draws of a condition: itself, or what it joins.
Leaves(d) == IF d.type \in Joiners THEN ToSet(d.of) ELSE {d}
Drawn(d) == Leaves(d.condition) \cup UNION {Leaves(c) : c \in ToSet(d.clear)}

\* A condition or a channel carried unread is the server's alone to judge.
Unread(d) == \/ \E c \in Drawn(d) : c.type = "opaque"
             \/ \E a \in ToSet(d.extra) : ActionFault(a, d.filter)

\* What the form has no eyes for: a pattern of the browser's dialect, an address it mends, a
\* header the server reads more closely, a filter or a topic MQTT does not carry, and a wait no
\* int holds.
TooWide(t) == t \in DOMAIN Reads /\ Reads[t] > Widest
Unseen(d) ==
    \/ \E c \in Leaves(d.condition) : c.type = "pattern" /\ c.regex = "dialect"
    \/ \E w \in ToSet(d.webhook) :
          \/ w.url = "mended"
          \/ \E h \in ToSet(w.headers) : h.value = "huge" \/ "c1" \in {h.name, h.value}
    \/ "uncarried" \in ToSet(d.filter) \/ \E a \in ToSet(d.publish) : "uncarried" \in ToSet(a.topic)
    \/ TooWide(d.for) \/ \E c \in Drawn(d) : c.type = "silence" /\ TooWide(c.after)

\* A filter over the server's own tree, or a topic outside it, is refused by the prefix it has
\* now; a form that goes by another cannot tell.
AtOdds(d) == Covers(d.filter) \/ \E a \in ToSet(d.publish) : a.topic # <<>> /\ ~Inside(a.topic)

\* What the editor lets somebody save, the server takes, but for what it was given unread, what
\* it has no eyes for, and a prefix it has not read.
SavedIsTaken ==
    \A p \in PrefixesHeard :
        savable(draft, p) =>
            \/ ServerTakes(ruleOf(draft)) \/ Unread(draft) \/ Unseen(draft)
            \/ p # Prefix /\ AtOdds(draft)
=============================================================================
