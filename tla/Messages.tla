------------------------------ MODULE Messages ------------------------------
(***************************************************************************)
(* What the control socket's messages say and how they are read            *)
(* (libtimed/src/lib.rs: encode and decode of Request and Reply,           *)
(* read_source, for_each_field).  A message is a map.  Its reader takes    *)
(* the fields one after another in whatever order they come, from a writer *)
(* of another age, who may know of fewer fields or of more.                *)
(*                                                                         *)
(* A field is its key and its value, a value its type on the wire and what *)
(* it is.  copy tells a field from one with its key and value.  Fields     *)
(* that are written and read as another one is are left out: a status      *)
(* keeps a number, a name, a flag, an optional name, and the fields whose  *)
(* keys a snapshot or a list has too; of a source's sixteen its name, its  *)
(* state and its note are kept.                                            *)
(*                                                                         *)
(* meant is the message as its writer has it, written what it wrote.       *)
(***************************************************************************)
EXTENDS Integers, Sequences, FiniteSets

CONSTANTS
    Meant,         \* messages there are to write
    Names,         \* hosts and texts
    Newer,         \* names of syncs and states of a later age
    None,          \* Option::None
    Second         \* 1,000,000,000 nanoseconds

(* as_str and parse of the enumerations.                                   *)
Syncs == {"unsynchronised", "settling", "synchronised", "spike"}
SourceStates == {"system-peer", "candidate", "outlier", "falseticker",
                 "unreachable", "unusable"}

(* Request, Reply and SourceInfo.                                          *)
Questions == {"status", "sources", "subscribe", "reload", "set"}
Ask ==
    [is : Questions \ {"set"}] \cup [is : {"set"}, seconds : Int, nanos : Nat]
SourceInfo ==
    [name : Names, state : SourceStates \cup Newer, note : Names \cup {None}]
Tell ==
    [is : {"ok"}] \cup [is : {"error"}, message : Names]
    \cup [is : {"status"}, generation : Nat, sync : Syncs \cup Newer,
          leap : Int, sources : Nat, manual : BOOLEAN,
          zone : Names \cup {None}]
    \cup [is : {"sources"}, more : BOOLEAN, sources : Seq(SourceInfo)]
    \cup [is : {"snapshot"}, generation : Nat, leap : Nat,
          synchronised : BOOLEAN]

ASSUME MessageConstants ==
    /\ None \notin Names \cup Int /\ Second \in Nat \ {0}
    /\ Meant \subseteq [query : Ask] \cup [reply : Tell]

VARIABLES meant, written, unread, seen, draft, heard

messageVars == <<meant, written, unread, seen, draft, heard>>

-----------------------------------------------------------------------------
(* Values and fields *)

Number(n) == [is |-> "number", of |-> n]
Text(t) == [is |-> "text", of |-> t]
Flag(b) == [is |-> "flag", of |-> b]
List(l) == [is |-> "list", of |-> l]
Optional(o) == IF o = None THEN [is |-> "nil", of |-> None] ELSE Text(o)

Field(key, value) == [key |-> key, value |-> value, copy |-> 0]

-----------------------------------------------------------------------------
(* encode *)

EncodedRequest(m) ==
    IF m.is = "set"
    THEN {Field("query", Text("set")), Field("seconds", Number(m.seconds)),
          Field("nanos", Number(m.nanos))}
    ELSE {Field("query", Text(m.is))}

EncodedSource(s) ==
    {Field("name", Text(s.name)), Field("state", Text(s.state)),
     Field("note", Optional(s.note))}

EncodedReply(m) ==
    {Field("reply", Text(m.is))} \cup
    CASE m.is = "ok" -> {}
      [] m.is = "error" -> {Field("message", Text(m.message))}
      [] m.is = "status" ->
            {Field("generation", Number(m.generation)),
             Field("sync", Text(m.sync)), Field("leap", Number(m.leap)),
             Field("sources", Number(m.sources)),
             Field("manual", Flag(m.manual)), Field("zone", Optional(m.zone))}
      [] m.is = "sources" ->
            {Field("more", Flag(m.more)),
             Field("sources", List([i \in DOMAIN m.sources |->
                                       EncodedSource(m.sources[i])]))}
      [] m.is = "snapshot" ->
            {Field("generation", Number(m.generation)),
             Field("leap", Number(m.leap)),
             Field("synchronised", Flag(m.synchronised))}

IsRequest(m) == "query" \in DOMAIN m
Encoded(m) == IF IsRequest(m) THEN EncodedRequest(m.query) ELSE EncodedReply(m.reply)

-----------------------------------------------------------------------------
(* decode.  Drafts start as the defaults. *)

NoDraft ==
    [query |-> None, seconds |-> None, nanos |-> 0,
     reply |-> None, message |-> None, more |-> FALSE, list |-> << >>,
     status |-> [generation |-> 0, sync |-> "unsynchronised", leap |-> 0,
                 sources |-> 0, manual |-> FALSE, zone |-> None],
     snapshot |-> [generation |-> 0, leap |-> 0, synchronised |-> FALSE]]

(* The types a key is read as; keys that are not here are skipped.         *)
RequestTypes == [query |-> {"text"}, seconds |-> {"number"}, nanos |-> {"number"}]
ReplyTypes ==
    [reply |-> {"text"}, message |-> {"text"}, more |-> {"flag"},
     sources |-> {"number", "list"}, generation |-> {"number"},
     sync |-> {"text"}, leap |-> {"number"}, manual |-> {"flag"},
     zone |-> {"text", "nil"}, synchronised |-> {"flag"}]
Types == IF IsRequest(meant) THEN RequestTypes ELSE ReplyTypes

(* read_source.  A state this reader has no name for is the default one.   *)
ReadSource(source) ==
    LET At(key) == (CHOOSE f \in source : f.key = key).value.of
    IN  [name |-> At("name"), note |-> At("note"),
         state |-> IF At("state") \in SourceStates THEN At("state")
                   ELSE "unreachable"]

Unsigned(n) == IF n < 0 THEN 0 ELSE n

(* One field taken into the draft.  "sources" is a count or the list       *)
(* itself; a number both a status and a snapshot have goes to both.        *)
WithLeap(d, v) == [d EXCEPT !.status.leap = v, !.snapshot.leap = Unsigned(v)]

ByLabel(d, value) ==
    IF d.reply = "sources"
    THEN [d EXCEPT !.list = [i \in DOMAIN value.of |-> ReadSource(value.of[i])]]
    ELSE [d EXCEPT !.status.sources = value.of]
ByType(d, value) ==
    IF value.is = "list"
    THEN [d EXCEPT !.list = [i \in DOMAIN value.of |-> ReadSource(value.of[i])]]
    ELSE [d EXCEPT !.status.sources = value.of]

Put(d, key, value) ==
    CASE key \in {"query", "seconds", "nanos", "reply", "message", "more"} ->
            [d EXCEPT ![key] = value.of]
      [] key = "sources" -> ByType(d, value)
      [] key = "generation" ->
            [d EXCEPT !.status.generation = value.of,
                      !.snapshot.generation = value.of]
      [] key = "leap" -> WithLeap(d, value.of)
      [] key \in {"sync", "manual", "zone"} ->
            [d EXCEPT !.status = [@ EXCEPT ![key] = value.of]]
      [] key = "synchronised" -> [d EXCEPT !.snapshot.synchronised = value.of]

(* What the fields together come to, or that they come to nothing.         *)
Unheard == [is |-> "unheard"]
Refused == [is |-> "refused"]

Question(d) ==
    IF \/ d.query \notin Questions
       \/ d.query = "set" /\ (d.seconds = None \/ d.nanos >= Second)
    THEN Refused
    ELSE [query |-> IF d.query = "set"
                    THEN [is |-> "set", seconds |-> d.seconds, nanos |-> d.nanos]
                    ELSE [is |-> d.query]]

Labelled(label, rest) ==
    [k \in {"is"} \cup DOMAIN rest |-> IF k = "is" THEN label ELSE rest[k]]

Answer(d) ==
    CASE d.reply = "ok" -> [reply |-> [is |-> "ok"]]
      [] d.reply = "error" -> [reply |-> [is |-> "error", message |-> d.message]]
      [] d.reply = "status" -> [reply |-> Labelled("status", d.status)]
      [] d.reply = "sources" ->
            [reply |-> [is |-> "sources", sources |-> d.list, more |-> d.more]]
      [] d.reply = "snapshot" -> [reply |-> Labelled("snapshot", d.snapshot)]
      [] OTHER -> Refused

-----------------------------------------------------------------------------
(* What is written: the message, or one of it with a field twice or one    *)
(* left out or one more than the reader knows.                             *)
Unknown == Field("unknown", [is |-> "number", of |-> 0])

Variants(all) ==
    {all, all \cup {Unknown}}
    \cup {all \cup {[f EXCEPT !.copy = 1]} : f \in all}
    \cup {all \ {f} : f \in all}

MessageInit ==
    /\ meant \in Meant
    /\ written \in Variants(Encoded(meant))
    /\ unread = written
    /\ seen = {} /\ draft = NoDraft /\ heard = Unheard

Closed(what) ==
    /\ heard' = what
    /\ unread' = {} /\ seen' = {} /\ draft' = NoDraft
    /\ UNCHANGED <<meant, written>>

Twice(f) == f.key \in seen

(* A key seen before, a value of another type, or a name of none of syncs. *)
Unreadable(f) ==
    \/ Twice(f)
    \/ f.key \in DOMAIN Types /\ f.value.is \notin Types[f.key]
    \/ f.key = "sync" /\ f.value.of \notin Syncs

Refusing(f) ==
    /\ f \in unread /\ Unreadable(f)
    /\ Closed(Refused)

Taking(f) ==
    /\ f \in unread /\ ~Unreadable(f)
    /\ unread' = unread \ {f}
    /\ seen' = seen \cup {f.key}
    /\ draft' = IF f.key \in DOMAIN Types THEN Put(draft, f.key, f.value) ELSE draft
    /\ UNCHANGED <<meant, written, heard>>

Understanding ==
    /\ heard = Unheard /\ unread = {}
    /\ Closed(IF IsRequest(meant) THEN Question(draft) ELSE Answer(draft))

MessageNext ==
    \/ \E f \in unread : Refusing(f) \/ Taking(f)
    \/ Understanding

MessageSpec == MessageInit /\ [][MessageNext]_messageVars

-----------------------------------------------------------------------------
(* Properties *)

(* With the types: a snapshot's leap has no sign in whatever order the     *)
(* draft was filled.                                                       *)
Texts ==
    Names \cup Newer \cup Syncs \cup SourceStates \cup Questions
    \cup {"ok", "error", "snapshot"}
Draft ==
    [query : Texts \cup {None}, seconds : Int \cup {None}, nanos : Int,
     reply : Texts \cup {None}, message : Texts \cup {None}, more : BOOLEAN,
     list : Seq(SourceInfo),
     status : [generation : Int, sync : Texts, leap : Int, sources : Int,
               manual : BOOLEAN, zone : Texts \cup {None}],
     snapshot : [generation : Int, leap : Nat, synchronised : BOOLEAN]]
MessageTypeOK ==
    /\ meant \in Meant
    /\ unread \subseteq written
    /\ seen \subseteq {f.key : f \in written}
    /\ draft \in Draft

(* decode: what is read is what was meant, in whatever order the fields    *)
(* come and whatever else comes with them.  A writer that does not know of *)
(* manual clocks and zones is heard to keep the clock itself, in UTC.      *)
OlderThan(field) == written = {f \in Encoded(meant) : f.key # field}
KnownNames(m) ==
    IF IsRequest(m) THEN m.query.is = "set" => m.query.nanos < Second
    ELSE /\ m.reply.is = "status" => m.reply.sync \in Syncs
         /\ m.reply.is = "sources" =>
               \A i \in DOMAIN m.reply.sources :
                   m.reply.sources[i].state \in SourceStates

HeardAsMeant ==
    heard # Unheard /\ KnownNames(meant) =>
       /\ Encoded(meant) \subseteq written
              /\ written \subseteq Encoded(meant) \cup {Unknown}
          => heard = meant
       /\ ~IsRequest(meant) /\ meant.reply.is = "status" =>
             /\ OlderThan("manual") =>
                   heard = [meant EXCEPT !.reply.manual = FALSE]
             /\ OlderThan("zone") =>
                   heard = [meant EXCEPT !.reply.zone = None]

(* for_each_field: "Duplicate keys are a protocol error", known or not and *)
(* wherever the second one comes; and no order is made up from parts: a    *)
(* clock is set only to a whole time.                                      *)
OnceOrRefused ==
    /\ (\E f, g \in written : f # g /\ f.key = g.key)
          => heard \in {Unheard, Refused}
    /\ \A m \in {heard} \ {Unheard, Refused} :
          IsRequest(m) /\ m.query.is = "set" =>
             /\ \E f \in written : f.key = "seconds"
             /\ m.query.nanos < Second

(* decode: what is heard is what was meant, or nothing is.                 *)
MeantOrRefused == HeardAsMeant /\ OnceOrRefused

(* The inductive invariant.  Keys tell the fields that were taken apart,   *)
(* the draft says what each of them says (to take it again would change    *)
(* nothing), and what no field said is as it was.                          *)
Taken == written \ unread
Defaults ==
    /\ "seconds" \notin seen => draft.seconds = None
    /\ "manual" \notin seen => ~draft.status.manual
    /\ "zone" \notin seen => draft.status.zone = None
Reading ==
    /\ seen = {f.key : f \in Taken}
    /\ \A f, g \in Taken : f.key = g.key => f = g
    /\ \A f \in Taken : f.key \in DOMAIN Types =>
          /\ f.value.is \in Types[f.key]
          /\ Put(draft, f.key, f.value) = draft
    /\ Defaults
MessageIInv ==
    /\ MessageTypeOK
    /\ written \in Variants(Encoded(meant))
    /\ IF heard = Unheard THEN Reading
       ELSE unread = {} /\ seen = {} /\ draft = NoDraft
    /\ MeantOrRefused
=============================================================================
