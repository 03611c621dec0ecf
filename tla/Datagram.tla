------------------------------ MODULE Datagram ------------------------------
(***************************************************************************)
(* The datagrams of an NTS poll by their lengths (ntp/src/extension.rs,    *)
(* packet.rs and the authenticator of nts.rs; prepare and verify of        *)
(* timed/src/source.rs): fields are padded when written, found again by    *)
(* their lengths when read, and what the tag covers is where the lengths   *)
(* say it is.                                                              *)
(*                                                                         *)
(* A field is its type, the length of its value, and the length it has on  *)
(* the wire, which is a multiple of four and may be more than is needed.   *)
(* What was read of a field is its wire length alone.  The fixed header    *)
(* is a length.  The server is outside: it answers with cookies of a size  *)
(* of its own and with fields of no concern here before or after the       *)
(* authenticator, pads as it likes, and may append a legacy MAC.           *)
(***************************************************************************)
EXTENDS Integers, Sequences, SequencesExt

CONSTANTS
    CookieSizes,      \* of the cookies servers make
    Target            \* COOKIE_TARGET

ASSUME DatagramConstants ==
    /\ CookieSizes \subseteq 1..1024 /\ CookieSizes # {}
    /\ Target \in 2..8

VARIABLES held, size, request, reply, took

datagramVars == <<held, size, request, reply, took>>

HeaderLen == 48
MinField == 16
MaxPacket == 9000
MaxCookie == 1024
UniqueIdLen == 32
NonceLen == 16
TagLen == 16      \* what sealing adds

-----------------------------------------------------------------------------
(* Fields *)

InFours(n) == ((n + 3) \div 4) * 4

(* padded_len and the legal minimum.                                       *)
EncodedLen(len) == IF InFours(4 + len) < MinField THEN MinField ELSE InFours(4 + len)

Written(type, len) == [type |-> type, len |-> len, wire |-> EncodedLen(len)]
Copies(field, n) == [i \in 1..n |-> field]

Sum(lens) ==
    LET upTo[k \in 0..Len(lens)] == IF k = 0 THEN 0 ELSE upTo[k - 1] + lens[k]
    IN  upTo[Len(lens)]
WireLen(fields) == Sum([k \in 1..Len(fields) |-> fields[k].wire])

(* decode_all_with_mac, over fields that a tail follows: it stops where    *)
(* what is left is a MAC's length, a field that long or not.               *)
MacSizes == {0, 4, 20, 24}
Stops(fields, tail) ==
    {k \in 0..Len(fields) :
        WireLen(SubSeq(fields, k + 1, Len(fields))) + tail \in MacSizes}
Decoded(fields, tail) ==
    SubSeq(fields, 1,
           CHOOSE k \in Stops(fields, tail) : \A j \in Stops(fields, tail) : k <= j)

(* The length of the value as it is read: the padding with it.             *)
Trimmed(field) == field.len
ValueLen(field) == field.wire - 4

(* seal_authenticator's value.                                             *)
SealedLen(plain) == 4 + InFours(NonceLen) + InFours(plain + TagLen)

-----------------------------------------------------------------------------
NoReply == [fields |-> << >>, tail |-> 0, inside |-> << >>, brings |-> 0]

DatagramInit ==
    /\ size \in CookieSizes
    /\ \E n \in 1..Target : held = Copies(size, n)
    /\ request = << >> /\ reply = NoReply
    /\ took = << >>

(* prepare: the last cookie, and a placeholder of its size for each that   *)
(* is missing.                                                             *)
EmptyPlaceholder(cookie) == Written("placeholder", 0)
Placeholder(cookie) == Written("placeholder", cookie)

RequestFor(cookie, missing) ==
    <<Written("unique", UniqueIdLen), Written("cookie", cookie)>>
        \o Copies(Placeholder(cookie), missing)
        \o <<Written("authenticator", SealedLen(0))>>
Prepared == RequestFor(Last(held), Target - Len(held))

Polls ==
    /\ held # << >> /\ request = << >>
    /\ request' = Prepared
    /\ held' = SubSeq(held, 1, Len(held) - 1)
    /\ took' = << >>
    /\ UNCHANGED <<size, reply>>

(* The server's answer: count cookies, sealed, among its other fields.     *)
Sealed(count) == Copies(Written("cookie", size), count)
Plain(pad) == [Written("other", 12) EXCEPT !.wire = @ + pad]

Paddings == {0, 8, MaxPacket}

AnswerOf(count, before, after) ==
    <<Written("unique", UniqueIdLen)>> \o before
        \o <<Written("authenticator", SealedLen(WireLen(Sealed(count))))>>
        \o after

AnsweredWith(count, before, after, tail) ==
    /\ request # << >> /\ reply = NoReply
    /\ reply' = [fields |-> AnswerOf(count, before, after), tail |-> tail,
                 inside |-> Sealed(count), brings |-> count]
    /\ UNCHANGED <<held, size, request, took>>

(* Where the authenticator starts, by what was read of the fields before   *)
(* it, and where it does.                                                  *)
Authenticator(fields) == {k \in DOMAIN fields : fields[k].type = "authenticator"}
First(fields) ==
    CHOOSE k \in Authenticator(fields) : \A j \in Authenticator(fields) : k <= j
Offset(fields) ==
    HeaderLen + Sum([k \in 1..First(fields) - 1 |-> EncodedLen(ValueLen(fields[k]))])
TrueOffset(fields) == HeaderLen + WireLen(SubSeq(fields, 1, First(fields) - 1))

Total(fields, tail) == HeaderLen + WireLen(fields) + tail

Verifies ==
    /\ Total(reply.fields, reply.tail) <= MaxPacket
    /\ Authenticator(Decoded(reply.fields, reply.tail)) # {}
    /\ Offset(Decoded(reply.fields, reply.tail)) = TrueOffset(reply.fields)

(* verify and the end of accept.                                           *)
Kept(fields) ==
    LET upTo[k \in 0..Len(fields)] ==
            IF k = 0 THEN << >>
            ELSE IF ValueLen(fields[k]) \in 1..MaxCookie
            THEN Append(upTo[k - 1], ValueLen(fields[k]))
            ELSE upTo[k - 1]
    IN  upTo[Len(fields)]

Accepts ==
    /\ reply # NoReply /\ Verifies
    /\ LET fresh == Kept(Decoded(reply.inside, 0))
           room == Target - Len(held)
       IN  /\ took' = fresh
           /\ held' = held \o SubSeq(fresh, 1, IF Len(fresh) < room
                                                     THEN Len(fresh) ELSE room)
    /\ request' = << >> /\ reply' = NoReply
    /\ UNCHANGED size

Rejects ==
    /\ reply # NoReply /\ ~Verifies
    /\ reply' = NoReply
    /\ UNCHANGED <<held, size, request, took>>

(* No answer.                                                              *)
GivesUp ==
    /\ request # << >>
    /\ request' = << >> /\ reply' = NoReply /\ took' = << >>
    /\ UNCHANGED <<held, size>>

(* A handshake's cookies, in place of those there were.                    *)
Rekeyed ==
    /\ request = << >>
    /\ \E n \in 1..Target : held' = Copies(size, n)
    /\ took' = << >>
    /\ UNCHANGED <<size, request, reply>>

DatagramNext ==
    \/ Polls \/ Rekeyed
    \/ \E count \in 0..Target - Len(held), pad \in Paddings, tail \in MacSizes :
          \/ AnsweredWith(count, << >>, << >>, tail)
          \/ AnsweredWith(count, <<Plain(pad)>>, << >>, tail)
          \/ AnsweredWith(count, << >>, <<Plain(pad)>>, tail)
    \/ Accepts \/ Rejects \/ GivesUp

DatagramSpec == DatagramInit /\ [][DatagramNext]_datagramVars

-----------------------------------------------------------------------------
(* Properties *)

(* With the types: what timed sends are legal fields, cookies of any size  *)
(* in them, padded once or more.                                           *)
DatagramTypeOK ==
    /\ size \in CookieSizes
    /\ held \in Seq(1..MaxCookie) /\ Len(held) <= Target
    /\ \A f \in ToSet(request) : f.wire % 4 = 0 /\ f.wire >= MinField
    /\ Total(request, 0) <= MaxPacket
    /\ reply.brings \in 0..Target - Len(held)
    /\ took \in Seq(1..MaxCookie)

(* prepare: placeholders "make the request as large as the reply, so that  *)
(* NTS cannot be used to amplify traffic": a reply that carries nothing    *)
(* but what was asked for is no longer than the request, whatever cookie   *)
(* was spent and whatever padding it has gathered.                         *)
NoAmplification ==
    reply # NoReply /\ Len(reply.fields) = 2 /\ reply.tail = 0
        => Total(reply.fields, 0) <= Total(request, 0)

(* verify: the start of the authenticator, added up from the fields as     *)
(* they were read, is where it starts in the datagram; no reply is lost to *)
(* its padding, to a MAC after it, or to the length of its cookies.        *)
AnswersVerify ==
    reply # NoReply =>
       \/ Verifies
       \/ Total(reply.fields, reply.tail) > MaxPacket /\ Len(reply.fields) > 2

(* extension.rs: taking 20 or 24 bytes at the end for a MAC is "safe for   *)
(* this client because no NTS field is ever that size".  A cookie may be,  *)
(* and the last of them is then lost, and no more than that: the store is  *)
(* kept one short of full.  Other cookies arrive all, and whole if their   *)
(* size needs no padding.                                                  *)
CookiesCome ==
    /\ reply.brings = Target - Len(held) => Len(held') >= Target - 1
    /\ EncodedLen(size) \notin {20, 24} => Len(took') = reply.brings
    /\ EncodedLen(size) \notin {20, 24} /\ EncodedLen(size) = 4 + size
          => took' = Copies(size, reply.brings)

(* verify and accept: a reply is read as it was written, its cookies too.  *)
RepliesComeThrough ==
    [][AnswersVerify' /\ (Accepts => CookiesCome)]_datagramVars

(* The inductive invariant: whatever padding it has gathered, a cookie is  *)
(* as long on the wire as the server makes them; the request asks for what *)
(* is missing with one of them; and the answer is to it.                   *)
Padded == {<< >>} \cup {<<Plain(pad)>> : pad \in Paddings}
Asked ==
    \E cookie \in 1..MaxCookie :
       /\ EncodedLen(cookie) = EncodedLen(size)
       /\ Len(held) < Target
       /\ request = RequestFor(cookie, Target - Len(held) - 1)
Answered ==
    /\ request # << >>
    /\ reply.brings \in 0..Target - Len(held)
    /\ reply.inside = Sealed(reply.brings) /\ reply.tail \in MacSizes
    /\ \E before, after \in Padded :
          /\ before = << >> \/ after = << >>
          /\ reply.fields = AnswerOf(reply.brings, before, after)
DatagramIInv ==
    /\ size \in CookieSizes
    /\ held \in Seq(1..MaxCookie) /\ Len(held) <= Target
    /\ took \in Seq(1..MaxCookie)
    /\ \A k \in DOMAIN held : EncodedLen(held[k]) = EncodedLen(size)
    /\ request # << >> => Asked
    /\ reply # NoReply => Answered
=============================================================================
