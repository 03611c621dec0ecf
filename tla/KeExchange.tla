----------------------------- MODULE KeExchange -----------------------------
(***************************************************************************)
(* Key establishment for one source (handshake of timed/src/worker.rs;     *)
(* handshake and read_message of nts_ke.rs; Record::decode_message and     *)
(* interpret of ntp/src/nts.rs): at one address of the server after        *)
(* another, a TLS stream is read piece by piece until what has come holds  *)
(* a whole message, and the message is worth a session or is not.          *)
(*                                                                         *)
(* A record is its type and its body, of which only what interpret tells   *)
(* apart is kept: "ours" or "other" of a list of protocols or algorithms,  *)
(* "good" or "bad" of the rest, and for an unknown record whether it is    *)
(* critical.  A record's size is in units of which its head is one.  The   *)
(* whole of an answer is fixed when its address is connected to; the       *)
(* client sees a prefix, of which have is the length.  Servers, TLS, TCP   *)
(* and the resolver are outside: they may fail at any time, or give        *)
(* nothing for HANDSHAKE_TIMEOUT.                                          *)
(***************************************************************************)
EXTENDS Integers, Sequences, FiniteSets, SequencesExt

CONSTANTS
    MaxAddresses,     \* of the addresses of the name
    KeAnswers,        \* what servers answer: sequences of records
    MaxMessage,       \* MAX_KE_MESSAGE
    MaxRecords,       \* 1024
    MaxCookies,       \* COOKIE_TARGET
    ReadSize          \* of the chunk read at once

VARIABLES address, answer, have, step, result

keVars == <<address, answer, have, step, result>>

Bodies == [protocol |-> {"ours", "other", "bad"}, aead |-> {"ours", "other", "bad"},
           cookie |-> {"good", "bad"}, server |-> {"good", "bad"},
           port |-> {"good", "bad"}, error |-> {"good", "bad"},
           warning |-> {"good"}, unknown |-> {"critical", "skip"},
           end |-> {"good"}]
Record == UNION {[type : {t}, body : Bodies[t]] : t \in DOMAIN Bodies}

ASSUME KeConstants ==
    /\ MaxAddresses \in Nat \ {0}
    /\ KeAnswers \subseteq Seq(Record)
    /\ MaxMessage \in Nat /\ MaxRecords \in Nat
    /\ MaxCookies \in Nat \ {0} /\ ReadSize \in Nat \ {0}

-----------------------------------------------------------------------------
(* decode_message *)

Size(record) ==
    IF record.type = "end" THEN 1 ELSE IF record.type = "cookie" THEN 5 ELSE 2

(* Where the k-th record ends in the stream.                               *)
EndsAt[k \in Nat] == IF k = 0 THEN 0 ELSE EndsAt[k - 1] + Size(answer[k])
EndOf(k) == EndsAt[k]
Length == EndOf(Len(answer))

Complete(n) == {k \in DOMAIN answer : EndOf(k) <= n}

(* The first end of message among the records that have come, by number.   *)
LastEnd(n) ==
    {k \in Complete(n) :
        /\ answer[k].type = "end"
        /\ \A j \in Complete(n) : j > k => answer[j].type # "end"}
FirstEnd(n) ==
    {k \in Complete(n) :
        /\ answer[k].type = "end"
        /\ \A j \in 1..k - 1 : answer[j].type # "end"}

(* Records are counted after each that does not end the message.           *)
Whole(n) == {k \in FirstEnd(n) : k - 1 <= MaxRecords}
Endless(n) == Whole(n) = {} /\ \E k \in Complete(n) : k > MaxRecords

-----------------------------------------------------------------------------
(* interpret: what a message is worth.  The last word on a protocol, an    *)
(* algorithm, the server and the port holds, and the first cookies.        *)

Fatal(record) ==
    \/ record.type = "error"
    \/ record.body \in {"bad", "critical"}

OfType(records, type) == {k \in DOMAIN records : records[k].type = type}

Agreed(records, type) ==
    \E k \in OfType(records, type) :
        /\ \A j \in OfType(records, type) : j <= k
        /\ records[k].body = "ours"

CookiesIn(records) ==
    LET all == Cardinality(OfType(records, "cookie"))
    IN  IF all < MaxCookies THEN all ELSE MaxCookies

Failed == [is |-> "failed"]
Established(records) ==
    [is |-> "session", cookies |-> CookiesIn(records),
     redirected |-> OfType(records, "server") # {}]

Unworthy(records) ==
    \/ \E k \in DOMAIN records : Fatal(records[k])
    \/ ~Agreed(records, "protocol") \/ ~Agreed(records, "aead")
    \/ CookiesIn(records) = 0

Interpret(records) ==
    IF Unworthy(records) THEN Failed ELSE Established(records)

-----------------------------------------------------------------------------
KeInit ==
    /\ address = 1
    /\ answer = << >>
    /\ have = 0
    /\ step = "connect"
    /\ result = Failed

Ends(outcome) ==
    /\ step' = "done"
    /\ result' = outcome
    /\ UNCHANGED <<address, answer, have>>

(* The next address is tried, with a buffer of its own.                    *)
Fails ==
    \/ address = MaxAddresses /\ Ends(Failed)
    \/ /\ address < MaxAddresses
       /\ address' = address + 1
       /\ answer' = << >> /\ have' = 0
       /\ step' = "connect"
       /\ UNCHANGED result

(* Connected, the request written, and the protocol of the session agreed: *)
(* until then nothing is read.                                             *)
Connected ==
    /\ step = "connect"
    /\ step' = "look"
    /\ answer' \in KeAnswers
    /\ UNCHANGED <<address, have, result>>

NotConnected ==
    /\ step = "connect"
    /\ Fails

(* The turn of read_message.                                               *)
NoLimit == TRUE
WithinLimit == have <= MaxMessage

TooLong ==
    /\ step = "look"
    /\ ~WithinLimit \/ Endless(have)
    /\ Fails

(* The keys may fail to be exported, the server named to be resolved.      *)
Understood ==
    /\ step = "look"
    /\ WithinLimit
    /\ \E k \in Whole(have) :
          Interpret(SubSeq(answer, 1, k)) # Failed
             /\ Ends(Interpret(SubSeq(answer, 1, k)))

Misunderstood ==
    /\ step = "look"
    /\ WithinLimit /\ Whole(have) # {}
    /\ Fails

ReadsAgain ==
    /\ step = "look"
    /\ WithinLimit /\ Whole(have) = {} /\ ~Endless(have)
    /\ step' = "read"
    /\ UNCHANGED <<address, answer, have, result>>

MoreCame(n) ==
    /\ step = "read"
    /\ have + n <= Length
    /\ have' = have + n
    /\ step' = "look"
    /\ UNCHANGED <<address, answer, result>>

(* An error, the end of the stream, or nothing in time.                    *)
Broken ==
    /\ step = "read"
    /\ Fails

KeNext ==
    \/ Connected \/ NotConnected
    \/ TooLong \/ Understood \/ Misunderstood \/ ReadsAgain
    \/ \E n \in 1..ReadSize : MoreCame(n)
    \/ Broken

KeSpec == KeInit /\ [][KeNext]_keVars

-----------------------------------------------------------------------------
(* Properties *)

(* With the types: "a server that streams records forever must cost us a   *)
(* fixed amount of memory".                                                *)
KeTypeOK ==
    /\ address \in 1..MaxAddresses
    /\ answer \in Seq(Record)
    /\ have \in 0..MaxMessage + ReadSize
    /\ step \in {"connect", "look", "read", "done"}
    /\ result \in {Failed} \cup
          [is : {"session"}, cookies : 1..MaxCookies, redirected : BOOLEAN]

(* read_message and decode_message: how the stream is cut does not matter. *)
(* A session is what the whole answer up to its end is worth, whatever has *)
(* come of what follows and whatever an earlier address began to say, and  *)
(* there is none before that end has come.                                 *)
CutDoesNotMatter ==
    result # Failed =>
       \E k \in DOMAIN answer :
          /\ answer[k].type = "end" /\ EndOf(k) <= have
          /\ \A j \in 1..k - 1 : answer[j].type # "end"
          /\ result = Interpret(SubSeq(answer, 1, k))

(* nts.rs: "a record we do not recognise is skipped if it is clear and is  *)
(* a fatal error if it is set".  Leaving out of an answer a record one     *)
(* need not understand changes nothing, and nothing makes up for a record  *)
(* one must understand.                                                    *)
Skippable(record) ==
    record = [type |-> "unknown", body |-> "skip"] \/ record.type = "warning"

SkippedOrFatal ==
    /\ \A k \in DOMAIN answer :
          Skippable(answer[k])
             => Interpret(RemoveAt(answer, k)) = Interpret(answer)
    /\ (\E k \in DOMAIN answer :
           answer[k] = [type |-> "unknown", body |-> "critical"])
          => Interpret(answer) = Failed

(* A handshake is worth what the server's answer says, however it came and *)
(* whatever it says besides.                                               *)
WorthTheAnswer == CutDoesNotMatter /\ SkippedOrFatal

(* The inductive invariant: there is no result before the handshake is     *)
(* done, and no reading past the limit.                                    *)
KeIInv ==
    /\ KeTypeOK
    /\ step # "done" => result = Failed
    /\ step = "read" => have <= MaxMessage
    /\ CutDoesNotMatter
=============================================================================
