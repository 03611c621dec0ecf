------------------------------ MODULE Session ------------------------------
(***************************************************************************)
(* One NTS source's association with its server: the keys and cookies of a *)
(* handshake, the requests that spend them and the replies that bring more *)
(* (timed/src/source.rs: prepare, accept, verify; worker.rs: handshake;    *)
(* maintain_sources, collect_work, take_reply and expire_pending of        *)
(* main.rs).                                                               *)
(*                                                                         *)
(* A session is a number, 0 for none, and stands for its two keys and for  *)
(* the NTP server the handshake named; at is the server requests go to, 0  *)
(* being the host the name resolves to.  A request is told by its serial,  *)
(* the unique identifier.  Requests and replies stay on the network and    *)
(* come any number of times, in any order, or never.  The server answers a *)
(* request it can open, once, with as many cookies as were asked for or    *)
(* fewer; what it says of one it cannot open is not authentic and read by  *)
(* nobody.  Times are left out: keys may be renewed whenever nothing is in *)
(* flight.                                                                 *)
(*                                                                         *)
(* spent, read, crossed, reread and relocated are history.  MaxSessions,   *)
(* MaxRequests and MaxFailures are bounds.                                 *)
(***************************************************************************)
EXTENDS Integers, Sequences, SequencesExt

CONSTANTS
    CookieTarget,
    MaxSessions, MaxRequests,
    MaxFailures     \* bound on failures, losses and lookups

ASSUME SessionConstants ==
    /\ CookieTarget \in Nat \ {0}
    /\ MaxSessions \in Nat /\ MaxRequests \in Nat /\ MaxFailures \in Nat

VARIABLES
    session, cookies,     \* security
    at, resolved,         \* source.address, and whether addresses has any
    inFlight,
    pending,
    asked, replies,       \* the network
    sessions, requests, minted, failures,    \* counters
    spent, read, crossed, reread, relocated

security == <<session, cookies>>
where == <<at, resolved, inFlight>>
network == <<asked, replies>>
counters == <<sessions, requests, minted, failures>>
history == <<spent, read, crossed, reread, relocated>>
sessionVars == <<security, where, pending, network, counters, history>>

NoneOut == [serial |-> 0, keys |-> 0]
Cookie(of, id) == [session |-> of, id |-> id]

(* count cookies never issued before.                                      *)
Minted(of, count) == [i \in 1..count |-> Cookie(of, minted + i)]

SessionInit ==
    /\ session = 0 /\ cookies = << >>
    /\ at = 0 /\ resolved = FALSE /\ inFlight = "no"
    /\ pending = NoneOut
    /\ asked = {} /\ replies = {}
    /\ sessions = 0 /\ requests = 0 /\ minted = 0 /\ failures = 0
    /\ spent = {} /\ read = {}
    /\ crossed = FALSE /\ reread = FALSE /\ relocated = FALSE

Fault == failures < MaxFailures /\ failures' = failures + 1

-----------------------------------------------------------------------------
(* maintain_sources and collect_work *)

Submit(job) ==
    /\ inFlight = "no"
    /\ resolved = (job = "handshake")
    /\ inFlight' = job
    /\ UNCHANGED <<security, at, resolved, pending, network, counters, history>>

(* The address of the name, whatever server the session is with.           *)
Resolved ==
    /\ inFlight = "resolve"
    /\ inFlight' = "no" /\ resolved' = TRUE
    /\ at' = 0
    /\ relocated' = (relocated \/ session # 0)
    /\ UNCHANGED <<security, pending, network, counters, spent, read, crossed,
                   reread>>

(* One cookie at least replaces those there were; a request that is out    *)
(* stays out.  The server polled is the one named, or the first address of *)
(* the name, though a later one may have been the one that gave the keys.  *)
KeepsCookies(fresh) == IF cookies = << >> THEN fresh ELSE cookies
FirstCookies(fresh) == fresh

Handshook ==
    /\ inFlight = "handshake" /\ sessions < MaxSessions
    /\ inFlight' = "no" /\ resolved' = TRUE
    /\ sessions' = sessions + 1
    /\ session' = sessions'
    /\ \E count \in 1..CookieTarget :
          /\ cookies' = FirstCookies(Minted(session', count))
          /\ minted' = minted + count
    /\ at' \in {session', 0}
    /\ relocated' = (at' # session')
    /\ UNCHANGED <<pending, network, requests, failures, spent, read, crossed,
                   reread>>

JobFails ==
    /\ inFlight # "no"
    /\ Fault
    /\ inFlight' = "no"
    /\ UNCHANGED <<security, at, resolved, pending, network, sessions, requests,
                   minted, history>>

(* absorb_netd, reload, and a source gone silent.                          *)
Unresolve ==
    /\ resolved
    /\ Fault
    /\ resolved' = FALSE
    /\ UNCHANGED <<security, at, inFlight, pending, network, sessions, requests,
                   minted, history>>

-----------------------------------------------------------------------------
(* prepare and send_poll *)

CanPoll == session # 0 /\ cookies # << >> /\ resolved /\ pending = NoneOut

OneTooFew(held) ==
    IF held + 2 < CookieTarget THEN CookieTarget - (held + 2) ELSE 0
Placeholders(held) ==
    IF held + 1 < CookieTarget THEN CookieTarget - (held + 1) ELSE 0

KeepsIt == cookies
WithoutSpent == SubSeq(cookies, 1, Len(cookies) - 1)

Prepare ==
    /\ CanPoll /\ requests < MaxRequests
    /\ requests' = requests + 1
    /\ cookies' = WithoutSpent
    /\ spent' = spent \cup {Last(cookies)}
    /\ UNCHANGED <<session, resolved, inFlight, replies, sessions, minted, read,
                   crossed, reread>>

Outstanding == [serial |-> requests', keys |-> session]

SendPoll ==
    /\ Prepare
    /\ pending' = Outstanding
    /\ asked' = asked \cup
          {[serial |-> requests', keys |-> session, cookie |-> Last(cookies),
            to |-> at, wanted |-> Placeholders(Len(cookies) - 1) + 1]}
    /\ UNCHANGED <<at, failures, relocated>>

(* The cookie is spent all the same.  Without a socket of the address's    *)
(* family the request counts as out until it expires.                      *)
NoSocket ==
    /\ Prepare
    /\ Fault
    /\ pending' = Outstanding
    /\ UNCHANGED <<asked, at, relocated>>

(* rotate_address: the next of the addresses the name has.                 *)
CannotSend ==
    /\ Prepare
    /\ Fault
    /\ at' \in {at, 0}
    /\ relocated' = (relocated \/ at' # session)
    /\ UNCHANGED <<pending, asked>>

Expire ==
    /\ pending # NoneOut
    /\ Fault
    /\ pending' = NoneOut
    /\ UNCHANGED <<security, where, network, sessions, requests, minted, history>>

-----------------------------------------------------------------------------
(* The server: no state but its own keys, which are in the cookie. *)

Opens(request) ==
    request.cookie.session = request.keys /\ request.to = request.keys

ServerAnswers(request, count) ==
    /\ Opens(request)
    /\ count \in 0..request.wanted
    /\ asked' = asked \ {request}
    /\ minted' = minted + count
    /\ replies' = replies \cup
          {[serial |-> request.serial, keys |-> request.keys,
            fresh |-> Minted(request.keys, count),
            whole |-> count = request.wanted]}
    /\ UNCHANGED <<security, where, pending, sessions, requests, failures, history>>

-----------------------------------------------------------------------------
(* accept, verify and take_reply *)

Authentic(reply) == pending.serial = reply.serial /\ pending.keys = reply.keys

Stored(reply) ==
    LET room == CookieTarget - Len(cookies)
    IN  cookies \o SubSeq(reply.fresh, 1,
                          IF Len(reply.fresh) < room THEN Len(reply.fresh)
                          ELSE room)

Verified(reply) ==
    /\ Authentic(reply)
    /\ read' = read \cup {reply.serial}
    /\ reread' = (reread \/ reply.serial \in read)
    /\ crossed' = (crossed \/ (session # 0 /\ reply.keys # session))
    /\ UNCHANGED <<where, network, counters, spent, relocated>>

(* A sample, or an answer without one: a kiss, or a server without time.   *)
Accept(reply) ==
    /\ Verified(reply)
    /\ cookies' = IF session = 0 THEN cookies ELSE Stored(reply)
    /\ pending' = NoneOut
    /\ UNCHANGED session

(* A measurement that reduce refuses leaves the request outstanding.       *)
Unmeasured(reply) ==
    /\ Verified(reply)
    /\ cookies' = IF session = 0 THEN cookies ELSE Stored(reply)
    /\ UNCHANGED <<session, pending>>

(* NTSN, from a server that can vouch for it: keys are wanted anew.        *)
CookieRefused(reply) ==
    /\ Verified(reply)
    /\ session' = 0 /\ cookies' = << >>
    /\ pending' = NoneOut

SessionNext ==
    \/ \E job \in {"resolve", "handshake"} : Submit(job)
    \/ Resolved \/ Handshook \/ JobFails \/ Unresolve
    \/ SendPoll \/ NoSocket \/ CannotSend \/ Expire
    \/ \E request \in asked, count \in 0..CookieTarget : ServerAnswers(request, count)
    \/ \E reply \in replies : Accept(reply) \/ Unmeasured(reply) \/ CookieRefused(reply)

SessionSpec == SessionInit /\ [][SessionNext]_sessionVars

-----------------------------------------------------------------------------
(* Properties *)

Cookies == [session : 1..MaxSessions, id : 1..minted]

SessionTypeOK ==
    /\ session \in 0..sessions /\ sessions \in 0..MaxSessions
    /\ cookies \in Seq(Cookies) /\ Len(cookies) <= CookieTarget
    /\ at \in 0..sessions /\ resolved \in BOOLEAN
    /\ inFlight \in {"no", "resolve", "handshake"}
    /\ pending \in [serial : 1..requests, keys : 1..sessions] \cup {NoneOut}
    /\ requests \in 0..MaxRequests /\ failures \in 0..MaxFailures
    /\ minted \in Nat
    /\ \A request \in asked :
          request \in [serial : 1..requests, keys : 1..sessions,
                       cookie : Cookies, to : 0..sessions,
                       wanted : 1..CookieTarget]
    /\ \A reply \in replies :
          reply \in [serial : 1..requests, keys : 1..sessions,
                     fresh : Seq(Cookies), whole : BOOLEAN]
    /\ spent \subseteq Cookies /\ read \subseteq 1..requests
    /\ crossed \in BOOLEAN /\ reread \in BOOLEAN /\ relocated \in BOOLEAN

(* nts.rs: "An observer must not be able to link two requests from the     *)
(* same client, which is the reason cookies are not reused": no cookie is  *)
(* held twice or held after it was spent, whatever comes twice, late or    *)
(* out of order and however many handshakes there were.  The one way to    *)
(* break it is a reply whose measurement was refused: it is read as often  *)
(* as it comes, its cookies too.                                           *)
NoCookieTwice ==
    \/ reread
    \/ IsInjective(cookies) /\ ToSet(cookies) \cap spent = {}

(* A request can be opened where it arrives: it goes under the keys its    *)
(* cookie stands for, to the server that gave it.  What breaks it is a     *)
(* reply to a request from before the keys were renewed, which adds its    *)
(* cookies to the new ones, and polling an address of the name that is not *)
(* of the server with the keys.                                            *)
RequestsCanBeOpened ==
    [][\A question \in asked' \ asked :
          Opens(question) \/ crossed \/ relocated]_sessionVars

(* prepare: the placeholders bring the store back to COOKIE_TARGET, after  *)
(* however many requests that were lost, if the server gives what is asked *)
(* for: sources never run out while they are answered.                     *)
AnswersRefill ==
    [][\A answer \in replies :
          answer.whole /\ session # 0 /\ answer.keys = session /\ read' # read
              /\ answer.serial \in read' \ read /\ session' = session
          => Len(cookies') = CookieTarget]_sessionVars

(* The inductive invariant.  A serial is of one request, which is unread,  *)
(* or of one reply; no two of the places a cookie may be in have one in    *)
(* common, replies that were read aside; cookies go with the keys, and the *)
(* address with the server; and what is asked for makes up for what is     *)
(* missing, while the keys stay what they were.                            *)
SerialsTell ==
    /\ \A a, b \in asked : a.serial = b.serial => a = b
    /\ \A a, b \in replies : a.serial = b.serial => a = b
    /\ \A a \in asked, b \in replies : a.serial # b.serial
Unread == {reply \in replies : reply.serial \notin read}
CookiesApart ==
    ~reread =>
       /\ IsInjective(cookies) /\ ToSet(cookies) \cap spent = {}
       /\ \A a \in Unread :
             /\ IsInjective(a.fresh)
             /\ ToSet(a.fresh) \cap (ToSet(cookies) \cup spent) = {}
             /\ \A b \in Unread \ {a} : ToSet(a.fresh) \cap ToSet(b.fresh) = {}
KeysMatch ==
    /\ ~crossed => \A cookie \in ToSet(cookies) : cookie.session = session
    /\ \A reply \in replies :
          \A cookie \in ToSet(reply.fresh) : cookie.session = reply.keys
    /\ ~relocated /\ session # 0 => at = session
StoreMakesUp ==
    pending # NoneOut /\ pending.keys = session =>
       /\ \A request \in asked : request.serial = pending.serial =>
             Len(cookies) + request.wanted >= CookieTarget
       /\ \A reply \in Unread : reply.serial = pending.serial /\ reply.whole =>
             Len(cookies) + Len(reply.fresh) >= CookieTarget
SessionIInv ==
    SessionTypeOK /\ SerialsTell /\ CookiesApart /\ KeysMatch /\ StoreMakesUp
=============================================================================
