--------------------------- MODULE EstimateProofs ---------------------------
(***************************************************************************)
(* What is proved of a measured source and of all of them together: of the *)
(* session that protects one (Session, by the inductive invariant          *)
(* SessionIInv), of the choice among them (Select, by SelectIInv) and of   *)
(* the datagrams by their lengths (Datagram, by DatagramIInv).             *)
(***************************************************************************)
EXTENDS MCEstimate, MeasurementProofs, FiniteSetTheorems

(* Cookies of sessions, as many as were minted.                            *)
CookiesUpTo(m) == [session : 1..MaxSessions, id : 1..m]

LEMMA InSeq ==
  ASSUME NEW S, NEW s \in Seq(S)
  PROVE  /\ Len(s) \in Nat /\ DOMAIN s = 1..Len(s)
         /\ \A i \in DOMAIN s : s[i] \in S /\ s[i] \in ToSet(s)
         /\ ToSet(s) \subseteq S
         /\ s = << >> <=> Len(s) = 0
BY LenProperties, ElementOfSeq, EmptySeq DEF ToSet

(* verify stores of the fresh cookies those there is room for.             *)
LEMMA AddedTo ==
  ASSUME NEW S, NEW s \in Seq(S), NEW f \in Seq(S), NEW n \in 0..Len(f)
  PROVE  LET t == s \o SubSeq(f, 1, n)
         IN  /\ t \in Seq(S) /\ Len(t) = Len(s) + n
             /\ ToSet(t) \subseteq ToSet(s) \cup ToSet(f)
             /\ IsInjective(s) /\ IsInjective(f) /\ ToSet(s) \cap ToSet(f) = {}
                => IsInjective(t)
<1> DEFINE g == SubSeq(f, 1, n)
           t == s \o g
<1>1. /\ Len(s) \in Nat /\ DOMAIN s = 1..Len(s)
      /\ Len(f) \in Nat /\ DOMAIN f = 1..Len(f) /\ n \in Nat
  BY InSeq
<1>2. /\ g \in Seq(S) /\ Len(g) = n
      /\ \A i \in 1..n : g[i] = f[i]
  <2>1. \A i \in 1..n : f[i] \in S
    BY <1>1, ElementOfSeq
  <2>2. /\ g \in Seq(S) /\ Len(g) = IF 1 <= n THEN n - 1 + 1 ELSE 0
        /\ \A i \in 1..n - 1 + 1 : g[i] = f[1 + i - 1]
    <3> HIDE DEF g
    <3> QED  BY <1>1, <2>1, SubSeqProperties DEF g
  <2> HIDE DEF g
  <2> QED  BY <1>1, <2>2
<1> HIDE DEF g
<1>3. /\ t \in Seq(S) /\ Len(t) = Len(s) + n
      /\ \A i \in 1..Len(s) + n :
            t[i] = IF i <= Len(s) THEN s[i] ELSE g[i - Len(s)]
  <2>1. /\ t \in Seq(S) /\ Len(t) = Len(s) + Len(g)
        /\ \A i \in 1..Len(s) + Len(g) :
              t[i] = IF i <= Len(s) THEN s[i] ELSE g[i - Len(s)]
    BY <1>2, ConcatProperties, Zenon
  <2> HIDE DEF t
  <2> QED  BY <1>2, <2>1
<1> HIDE DEF t
<1>4. DOMAIN t = 1..Len(s) + n
  BY <1>3, InSeq
<1>5. ASSUME NEW i \in DOMAIN t
      PROVE  \/ i \in DOMAIN s /\ t[i] = s[i] /\ t[i] \in ToSet(s)
             \/ /\ i - Len(s) \in DOMAIN f /\ i > Len(s)
                /\ t[i] = f[i - Len(s)] /\ t[i] \in ToSet(f)
  <2>1. CASE i <= Len(s)
    BY <1>1, <1>3, <1>4, <2>1 DEF ToSet
  <2>2. CASE i > Len(s)
    <3>1. i - Len(s) \in 1..n /\ i - Len(s) \in DOMAIN f
      BY <1>1, <1>4, <2>2
    <3>2. t[i] = f[i - Len(s)]
      BY <1>1, <1>2, <1>3, <1>4, <2>2, <3>1
    <3> QED  BY <2>2, <3>1, <3>2 DEF ToSet
  <2> QED  BY <1>1, <1>4, <2>1, <2>2
<1>6. ToSet(t) \subseteq ToSet(s) \cup ToSet(f)
  BY <1>5 DEF ToSet
<1>7. ASSUME IsInjective(s), IsInjective(f), ToSet(s) \cap ToSet(f) = {},
             NEW a \in DOMAIN t, NEW b \in DOMAIN t, t[a] = t[b]
      PROVE  a = b
  <2>1. CASE a \in DOMAIN s /\ b \in DOMAIN s
    BY <1>1, <1>5, <1>7, <2>1 DEF IsInjective
  <2>2. CASE a > Len(s) /\ b > Len(s)
    <3>1. a - Len(s) = b - Len(s)
      BY <1>1, <1>5, <1>7, <2>2 DEF IsInjective
    <3> QED  BY <1>1, <1>4, <3>1
  <2>3. CASE \/ a \in DOMAIN s /\ b > Len(s)
             \/ b \in DOMAIN s /\ a > Len(s)
    BY <1>1, <1>5, <1>7, <2>3
  <2>4. (a \in DOMAIN s \/ a > Len(s)) /\ (b \in DOMAIN s \/ b > Len(s))
    BY <1>5, <1>7
  <2> QED  BY <2>1, <2>2, <2>3, <2>4
<1> QED  BY <1>3, <1>6, <1>7 DEF IsInjective, t, g

(* prepare takes the last one.                                             *)
LEMMA TakenFrom ==
  ASSUME NEW S, NEW s \in Seq(S), s # << >>
  PROVE  LET t == SubSeq(s, 1, Len(s) - 1)
         IN  /\ t \in Seq(S) /\ Len(s) \in Nat \ {0} /\ Len(t) = Len(s) - 1
             /\ ToSet(t) \subseteq ToSet(s)
             /\ Last(s) \in ToSet(s) /\ Last(s) \in S
             /\ IsInjective(s) => IsInjective(t) /\ Last(s) \notin ToSet(t)
<1> DEFINE t == SubSeq(s, 1, Len(s) - 1)
<1>1. Len(s) \in Nat \ {0} /\ DOMAIN s = 1..Len(s) /\ Last(s) = s[Len(s)]
  BY InSeq DEF Last
<1>2. /\ t \in Seq(S) /\ Len(t) = Len(s) - 1
      /\ \A i \in 1..Len(s) - 1 : t[i] = s[i]
  <2>1. \A i \in 1..Len(s) - 1 : s[i] \in S
    BY <1>1, ElementOfSeq
  <2> DEFINE m == Len(s) - 1
  <2>2. m \in Nat
    BY <1>1
  <2>3. /\ t \in Seq(S)
        /\ Len(t) = IF 1 <= m THEN m - 1 + 1 ELSE 0
        /\ \A i \in 1..m - 1 + 1 : t[i] = s[1 + i - 1]
    <3> HIDE DEF t, m
    <3> QED  BY <1>1, <2>1, <2>2, SubSeqProperties DEF t, m
  <2> HIDE DEF t, m
  <2>4. Len(t) = m /\ \A i \in 1..m : t[i] = s[i]
    BY <2>2, <2>3
  <2> QED  BY <2>3, <2>4 DEF m
<1> HIDE DEF t
<1>3. DOMAIN t = 1..Len(s) - 1
  BY <1>2, InSeq
<1>4. ToSet(t) \subseteq ToSet(s) /\ Last(s) \in ToSet(s) /\ Last(s) \in S
  BY <1>1, <1>2, <1>3, ElementOfSeq DEF ToSet
<1>5. IsInjective(s) => IsInjective(t) /\ Last(s) \notin ToSet(t)
  BY <1>1, <1>2, <1>3 DEF IsInjective, ToSet
<1> QED  BY <1>1, <1>2, <1>4, <1>5 DEF t

LEMMA MintedAre ==
  ASSUME NEW of \in 1..MaxSessions, NEW count \in Nat, minted \in Nat
  PROVE  /\ Minted(of, count) \in Seq(CookiesUpTo(minted + count))
         /\ Len(Minted(of, count)) = count
         /\ IsInjective(Minted(of, count))
         /\ \A cookie \in ToSet(Minted(of, count)) :
               cookie.session = of /\ cookie.id > minted
<1> DEFINE t == Minted(of, count)
<1>1. t = [i \in 1..count |-> Cookie(of, minted + i)]
  BY DEF Minted
<1> HIDE DEF t
<1>2. \A i \in 1..count :
         /\ t[i] = [session |-> of, id |-> minted + i]
         /\ minted + i \in 1..minted + count /\ minted + i > minted
  BY <1>1 DEF Cookie
<1>3. t \in [1..count -> CookiesUpTo(minted + count)]
  <2>1. ASSUME NEW i \in 1..count PROVE t[i] \in CookiesUpTo(minted + count)
    <3>1. /\ of \in 1..MaxSessions /\ minted + i \in 1..(minted + count)
          /\ t[i] = [session |-> of, id |-> minted + i]
      BY <1>2
    <3> QED  BY <3>1 DEF CookiesUpTo
  <2> QED  BY <1>1, <2>1
<1>4. t \in Seq(CookiesUpTo(minted + count)) /\ Len(t) = count
      /\ DOMAIN t = 1..count
  BY <1>3
<1>5. IsInjective(t)
  BY <1>2, <1>4 DEF IsInjective
<1>6. \A cookie \in ToSet(t) : cookie.session = of /\ cookie.id > minted
  BY <1>2, <1>4 DEF ToSet
<1> QED  BY <1>4, <1>5, <1>6 DEF t

-----------------------------------------------------------------------------
(* Types *)

RequestsUpTo(r, k, m) ==
    [serial : 1..r, keys : 1..k, cookie : CookiesUpTo(m), to : 0..k,
     wanted : 1..CookieTarget]
RepliesUpTo(r, k, m) ==
    [serial : 1..r, keys : 1..k, fresh : Seq(CookiesUpTo(m)), whole : BOOLEAN]
OutUpTo(r, k) == [serial : 1..r, keys : 1..k] \cup {NoneOut}

LEMMA TypesAre ==
  SessionTypeOK <=>
    /\ session \in 0..sessions /\ sessions \in 0..MaxSessions
    /\ cookies \in Seq(CookiesUpTo(minted)) /\ Len(cookies) <= CookieTarget
    /\ at \in 0..sessions /\ resolved \in BOOLEAN
    /\ inFlight \in {"no", "resolve", "handshake"}
    /\ pending \in OutUpTo(requests, sessions)
    /\ requests \in 0..MaxRequests /\ failures \in 0..MaxFailures
    /\ minted \in Nat
    /\ asked \subseteq RequestsUpTo(requests, sessions, minted)
    /\ replies \subseteq RepliesUpTo(requests, sessions, minted)
    /\ spent \subseteq CookiesUpTo(minted) /\ read \subseteq 1..requests
    /\ crossed \in BOOLEAN /\ reread \in BOOLEAN /\ relocated \in BOOLEAN
BY DEF SessionTypeOK, Cookies, CookiesUpTo, RequestsUpTo, RepliesUpTo, OutUpTo

(* What a step leaves as it was stays of its type while counters go up.    *)
LEMMA OldStaysTyped ==
  ASSUME SessionTypeOK,
         sessions' \in Nat, requests' \in Nat, minted' \in Nat,
         sessions <= sessions', requests <= requests', minted <= minted'
  PROVE  /\ session \in 0..sessions' /\ at \in 0..sessions'
         /\ cookies \in Seq(CookiesUpTo(minted'))
         /\ pending \in OutUpTo(requests', sessions')
         /\ asked \subseteq RequestsUpTo(requests', sessions', minted')
         /\ replies \subseteq RepliesUpTo(requests', sessions', minted')
         /\ spent \subseteq CookiesUpTo(minted') /\ read \subseteq 1..requests'
<1>1. /\ session \in 0..sessions /\ at \in 0..sessions
      /\ cookies \in Seq(CookiesUpTo(minted))
      /\ pending \in OutUpTo(requests, sessions)
      /\ asked \subseteq RequestsUpTo(requests, sessions, minted)
      /\ replies \subseteq RepliesUpTo(requests, sessions, minted)
      /\ spent \subseteq CookiesUpTo(minted) /\ read \subseteq 1..requests
      /\ requests \in Nat /\ sessions \in Nat /\ minted \in Nat
  BY TypesAre, SessionConstants
<1>2. /\ 0..sessions \subseteq 0..sessions' /\ 1..sessions \subseteq 1..sessions'
      /\ 1..requests \subseteq 1..requests' /\ 1..minted \subseteq 1..minted'
  BY <1>1
<1>3. CookiesUpTo(minted) \subseteq CookiesUpTo(minted')
  BY <1>2 DEF CookiesUpTo
<1>4. Seq(CookiesUpTo(minted)) \subseteq Seq(CookiesUpTo(minted'))
  BY <1>3, SeqMonotonic
<1>5. RequestsUpTo(requests, sessions, minted)
         \subseteq RequestsUpTo(requests', sessions', minted')
  BY <1>2, <1>3 DEF RequestsUpTo
<1>6. RepliesUpTo(requests, sessions, minted)
         \subseteq RepliesUpTo(requests', sessions', minted')
  BY <1>2, <1>4 DEF RepliesUpTo
<1>7. OutUpTo(requests, sessions) \subseteq OutUpTo(requests', sessions')
  BY <1>2 DEF OutUpTo
<1> QED  BY <1>1, <1>2, <1>3, <1>4, <1>5, <1>6, <1>7

(* prepare, however sending ends.                                          *)
LEMMA Spends ==
  ASSUME SessionTypeOK, Prepare
  PROVE  /\ session \in 1..sessions /\ pending = NoneOut
         /\ requests' = requests + 1 /\ requests' \in 0..MaxRequests
         /\ Len(cookies) \in 1..CookieTarget /\ Len(cookies') = Len(cookies) - 1
         /\ cookies' \in Seq(CookiesUpTo(minted))
         /\ ToSet(cookies') \subseteq ToSet(cookies)
         /\ Last(cookies) \in ToSet(cookies)
         /\ Last(cookies) \in CookiesUpTo(minted)
         /\ IsInjective(cookies) =>
               IsInjective(cookies') /\ Last(cookies) \notin ToSet(cookies')
         /\ spent' = spent \cup {Last(cookies)}
<1>1. /\ cookies \in Seq(CookiesUpTo(minted)) /\ cookies # << >>
      /\ cookies' = SubSeq(cookies, 1, Len(cookies) - 1)
      /\ Len(cookies) <= CookieTarget /\ spent' = spent \cup {Last(cookies)}
  BY TypesAre DEF Prepare, CanPoll, WithoutSpent
<1>2. /\ session \in 1..sessions /\ pending = NoneOut
      /\ requests' = requests + 1 /\ requests' \in 0..MaxRequests
  BY TypesAre, SessionConstants DEF Prepare, CanPoll
<1> QED  BY <1>1, <1>2, TakenFrom, SessionConstants

LEMMA Asks ==
  ASSUME SessionTypeOK, Prepare
  PROVE  LET wanted == Placeholders(Len(cookies) - 1) + 1
         IN  /\ wanted \in 1..CookieTarget
             /\ Len(cookies') + wanted >= CookieTarget
<1>1. /\ Len(cookies) \in 1..CookieTarget /\ Len(cookies') = Len(cookies) - 1
      /\ CookieTarget \in Nat \ {0}
  BY Spends, SessionConstants
<1> QED  BY <1>1 DEF Placeholders

(* What an authentic reply does to the store.                              *)
LEMMA Stores ==
  ASSUME SessionTypeOK, NEW answer \in replies
  PROVE  /\ Stored(answer) \in Seq(CookiesUpTo(minted))
         /\ Len(Stored(answer)) \in Nat /\ Len(Stored(answer)) <= CookieTarget
         /\ \/ Len(Stored(answer)) = CookieTarget
            \/ Len(Stored(answer)) = Len(cookies) + Len(answer.fresh)
         /\ Len(cookies) \in Nat /\ Len(answer.fresh) \in Nat
         /\ ToSet(Stored(answer)) \subseteq ToSet(cookies) \cup ToSet(answer.fresh)
         /\ IsInjective(cookies) /\ IsInjective(answer.fresh)
               /\ ToSet(cookies) \cap ToSet(answer.fresh) = {}
            => IsInjective(Stored(answer))
<1> DEFINE f == answer.fresh
           room == CookieTarget - Len(cookies)
           n == IF Len(f) < room THEN Len(f) ELSE room
<1>1. /\ cookies \in Seq(CookiesUpTo(minted)) /\ Len(cookies) <= CookieTarget
      /\ f \in Seq(CookiesUpTo(minted))
  BY TypesAre DEF RepliesUpTo
<1>2. Len(cookies) \in Nat /\ Len(f) \in Nat /\ CookieTarget \in Nat
  BY <1>1, InSeq, SessionConstants
<1>3. n \in 0..Len(f) /\ Len(cookies) + n <= CookieTarget
      /\ (Len(cookies) + n = CookieTarget \/ n = Len(f))
  BY <1>1, <1>2
<1>4. Stored(answer) = cookies \o SubSeq(f, 1, n)
  BY DEF Stored
<1> HIDE DEF f, n
<1>5. /\ Stored(answer) \in Seq(CookiesUpTo(minted))
      /\ Len(Stored(answer)) = Len(cookies) + n
      /\ ToSet(Stored(answer)) \subseteq ToSet(cookies) \cup ToSet(f)
      /\ IsInjective(cookies) /\ IsInjective(f) /\ ToSet(cookies) \cap ToSet(f) = {}
         => IsInjective(Stored(answer))
  BY <1>1, <1>3, <1>4, AddedTo
<1>6. /\ Len(Stored(answer)) \in Nat /\ Len(Stored(answer)) <= CookieTarget
      /\ \/ Len(Stored(answer)) = CookieTarget
         \/ Len(Stored(answer)) = Len(cookies) + Len(f)
  BY <1>2, <1>3, <1>5
<1> QED  BY <1>2, <1>5, <1>6 DEF f
-----------------------------------------------------------------------------
(* Every step keeps the types *)

LEMMA TypesNext ==
  ASSUME session' \in 0..sessions', sessions' \in 0..MaxSessions,
         cookies' \in Seq(CookiesUpTo(minted')), Len(cookies') <= CookieTarget,
         at' \in 0..sessions', resolved' \in BOOLEAN,
         inFlight' \in {"no", "resolve", "handshake"},
         pending' \in OutUpTo(requests', sessions'),
         requests' \in 0..MaxRequests, failures' \in 0..MaxFailures,
         minted' \in Nat,
         asked' \subseteq RequestsUpTo(requests', sessions', minted'),
         replies' \subseteq RepliesUpTo(requests', sessions', minted'),
         spent' \subseteq CookiesUpTo(minted'), read' \subseteq 1..requests',
         crossed' \in BOOLEAN, reread' \in BOOLEAN, relocated' \in BOOLEAN
  PROVE  SessionTypeOK'
BY DEF SessionTypeOK, Cookies, CookiesUpTo, RequestsUpTo, RepliesUpTo, OutUpTo

(* The steps that touch neither cookies nor the network.                   *)
Elsewhere ==
    \/ \E job \in {"resolve", "handshake"} : Submit(job)
    \/ Resolved \/ JobFails \/ Unresolve \/ Expire

LEMMA QuietLeaves ==
  ASSUME Elsewhere, SessionTypeOK
  PROVE  /\ UNCHANGED <<security, network, sessions, requests, minted>>
         /\ UNCHANGED <<spent, read, crossed, reread>>
         /\ pending' \in {pending, NoneOut}
         /\ failures' \in 0..MaxFailures
         /\ inFlight' \in {"no", "resolve", "handshake"} /\ resolved' \in BOOLEAN
         /\ \/ at' = at /\ relocated' = relocated
            \/ at' = 0 /\ relocated' = (relocated \/ session # 0)
<1> USE DEF security, where, network, counters, history
<1>1. /\ failures \in 0..MaxFailures /\ failures \in Nat
      /\ inFlight \in {"no", "resolve", "handshake"} /\ resolved \in BOOLEAN
  BY TypesAre, SessionConstants
<1>2. ASSUME NEW job \in {"resolve", "handshake"}, Submit(job)
      PROVE  inFlight' = job /\ UNCHANGED <<security, at, resolved, pending,
                                            network, counters, history>>
  BY <1>2 DEF Submit
<1>3. Fault => failures' \in 0..MaxFailures
  BY <1>1, SessionConstants DEF Fault
<1>4. CASE \E job \in {"resolve", "handshake"} : Submit(job)
  BY <1>1, <1>2, <1>4
<1>5. CASE Resolved
  BY <1>1, <1>5 DEF Resolved
<1>6. CASE JobFails \/ Unresolve \/ Expire
  BY <1>1, <1>3, <1>6 DEF JobFails, Unresolve, Expire
<1> QED  BY <1>4, <1>5, <1>6 DEF Elsewhere

(* What a handshake brings is new.                                         *)
LEMMA HandshakeBrings ==
  ASSUME SessionTypeOK, Handshook
  PROVE  /\ sessions' = sessions + 1 /\ session' = sessions'
         /\ sessions' \in 1..MaxSessions
         /\ at' \in {session', 0} /\ relocated' = (at' # session')
         /\ minted' \in Nat /\ minted <= minted'
         /\ cookies' \in Seq(CookiesUpTo(minted')) /\ Len(cookies') <= CookieTarget
         /\ IsInjective(cookies')
         /\ \A cookie \in ToSet(cookies') :
               cookie.session = session' /\ cookie.id > minted
<1>1. /\ sessions \in Nat /\ minted \in Nat
  BY TypesAre, SessionConstants
<1>2. /\ sessions' = sessions + 1 /\ session' = sessions'
      /\ sessions' \in 1..MaxSessions
      /\ at' \in {session', 0} /\ relocated' = (at' # session')
  BY <1>1, SessionConstants DEF Handshook
<1>3. PICK count \in 1..CookieTarget :
         cookies' = Minted(session', count) /\ minted' = minted + count
  BY DEF Handshook, FirstCookies
<1>4. count \in Nat /\ count <= CookieTarget
  BY <1>3, SessionConstants
<1>5. /\ Minted(session', count) \in Seq(CookiesUpTo(minted + count))
      /\ Len(Minted(session', count)) = count
      /\ IsInjective(Minted(session', count))
      /\ \A cookie \in ToSet(Minted(session', count)) :
            cookie.session = session' /\ cookie.id > minted
  BY <1>1, <1>2, <1>4, MintedAre
<1>6. minted' \in Nat /\ minted <= minted'
  BY <1>1, <1>3, <1>4
<1> QED  BY <1>2, <1>3, <1>4, <1>5, <1>6

(* An answer: the request goes, and a reply with new cookies comes.        *)
Answer(question, count) ==
    [serial |-> question.serial, keys |-> question.keys,
     fresh |-> Minted(question.keys, count), whole |-> count = question.wanted]

LEMMA AnswerBrings ==
  ASSUME SessionTypeOK, NEW question \in asked, NEW count \in 0..CookieTarget,
         ServerAnswers(question, count)
  PROVE  /\ asked' = asked \ {question}
         /\ replies' = replies \cup {Answer(question, count)}
         /\ question \in RequestsUpTo(requests, sessions, minted)
         /\ Answer(question, count)
               \in RepliesUpTo(requests, sessions, minted')
         /\ minted' \in Nat /\ minted <= minted' /\ count \in Nat
         /\ Len(Minted(question.keys, count)) = count
         /\ IsInjective(Minted(question.keys, count))
         /\ \A cookie \in ToSet(Minted(question.keys, count)) :
               cookie.session = question.keys /\ cookie.id > minted
         /\ UNCHANGED <<security, where, pending, sessions, requests, failures,
                        history>>
<1>1. /\ question \in RequestsUpTo(requests, sessions, minted)
      /\ minted \in Nat /\ sessions \in 0..MaxSessions /\ requests \in Nat
      /\ count \in Nat /\ minted' = minted + count
  BY TypesAre, SessionConstants DEF ServerAnswers
<1>2. /\ question.serial \in 1..requests /\ question.keys \in 1..sessions
      /\ question.keys \in 1..MaxSessions
  <2>1. /\ question.serial \in 1..requests /\ question.keys \in 1..sessions
    BY <1>1 DEF RequestsUpTo
  <2> QED  BY <1>1, <2>1, SessionConstants
<1>3. /\ Minted(question.keys, count) \in Seq(CookiesUpTo(minted + count))
      /\ Len(Minted(question.keys, count)) = count
      /\ IsInjective(Minted(question.keys, count))
      /\ \A cookie \in ToSet(Minted(question.keys, count)) :
            cookie.session = question.keys /\ cookie.id > minted
  BY <1>1, <1>2, MintedAre
<1>4. Answer(question, count) \in RepliesUpTo(requests, sessions, minted')
  BY <1>1, <1>2, <1>3 DEF Answer, RepliesUpTo
<1>5. minted' \in Nat /\ minted <= minted'
  BY <1>1
<1>6. /\ asked' = asked \ {question}
      /\ replies' = replies \cup {Answer(question, count)}
      /\ UNCHANGED <<security, where, pending, sessions, requests, failures,
                     history>>
  BY DEF ServerAnswers, Answer
<1> QED  BY <1>1, <1>3, <1>4, <1>5, <1>6

(* What reading a reply does.                                              *)
Reads(answer) == Accept(answer) \/ Unmeasured(answer) \/ CookieRefused(answer)

LEMMA ReadingDoes ==
  ASSUME SessionTypeOK, NEW answer \in replies, Reads(answer)
  PROVE  /\ answer \in RepliesUpTo(requests, sessions, minted)
         /\ pending.serial = answer.serial /\ pending.keys = answer.keys
         /\ pending # NoneOut
         /\ read' = read \cup {answer.serial}
         /\ reread' = (reread \/ answer.serial \in read)
         /\ crossed' = (crossed \/ (session # 0 /\ answer.keys # session))
         /\ UNCHANGED <<where, network, counters, spent, relocated>>
         /\ pending' \in {pending, NoneOut}
         /\ \/ session' = session /\ session = 0 /\ cookies' = cookies
            \/ session' = session /\ session # 0 /\ cookies' = Stored(answer)
            \/ session' = 0 /\ cookies' = << >> /\ pending' = NoneOut
<1>1. /\ answer \in RepliesUpTo(requests, sessions, minted)
      /\ pending \in OutUpTo(requests, sessions)
      /\ requests \in Nat /\ sessions \in Nat
  BY TypesAre, SessionConstants
<1>2. Verified(answer)
  BY DEF Reads, Accept, Unmeasured, CookieRefused
<1>3. answer.serial \in 1..requests
  BY <1>1 DEF RepliesUpTo
<1>4. pending.serial = answer.serial /\ pending.keys = answer.keys
      /\ pending # NoneOut
  <2>1. NoneOut.serial = 0
    BY DEF NoneOut
  <2>2. answer.serial # 0
    BY <1>1, <1>3
  <2> QED  BY <1>2, <2>1, <2>2 DEF Verified, Authentic
<1>5. /\ pending' \in {pending, NoneOut}
      /\ \/ session' = session /\ session = 0 /\ cookies' = cookies
         \/ session' = session /\ session # 0 /\ cookies' = Stored(answer)
         \/ session' = 0 /\ cookies' = << >> /\ pending' = NoneOut
  BY DEF Reads, Accept, Unmeasured, CookieRefused
<1> QED  BY <1>1, <1>2, <1>4, <1>5 DEF Verified
(* The steps, told apart as the proofs do.                                 *)
LEMMA StepsAre ==
  ASSUME SessionNext
  PROVE  \/ Elsewhere \/ Handshook
         \/ SendPoll \/ NoSocket \/ CannotSend
         \/ \E question \in asked, count \in 0..CookieTarget :
               ServerAnswers(question, count)
         \/ \E answer \in replies : Reads(answer)
BY DEF SessionNext, Elsewhere, Reads

LEMMA TypesStep ==
  ASSUME SessionTypeOK, SessionNext
  PROVE  SessionTypeOK'
<1> USE DEF security, where, network, counters, history
<1>1. /\ session \in 0..sessions /\ sessions \in 0..MaxSessions
      /\ cookies \in Seq(CookiesUpTo(minted)) /\ Len(cookies) <= CookieTarget
      /\ at \in 0..sessions /\ resolved \in BOOLEAN
      /\ inFlight \in {"no", "resolve", "handshake"}
      /\ pending \in OutUpTo(requests, sessions)
      /\ requests \in 0..MaxRequests /\ failures \in 0..MaxFailures
      /\ minted \in Nat
      /\ asked \subseteq RequestsUpTo(requests, sessions, minted)
      /\ replies \subseteq RepliesUpTo(requests, sessions, minted)
      /\ spent \subseteq CookiesUpTo(minted) /\ read \subseteq 1..requests
      /\ crossed \in BOOLEAN /\ reread \in BOOLEAN /\ relocated \in BOOLEAN
      /\ requests \in Nat /\ sessions \in Nat /\ failures \in Nat
  BY TypesAre, SessionConstants
<1>2. ASSUME NEW r \in Nat, NEW k \in Nat PROVE NoneOut \in OutUpTo(r, k)
  BY DEF OutUpTo
<1>3. Fault => failures' \in 0..MaxFailures
  BY <1>1, SessionConstants DEF Fault
<1>4. CASE Elsewhere
  <2>1. /\ UNCHANGED <<security, network, sessions, requests, minted>>
        /\ UNCHANGED <<spent, read, crossed, reread>>
        /\ pending' \in {pending, NoneOut}
        /\ failures' \in 0..MaxFailures
        /\ inFlight' \in {"no", "resolve", "handshake"} /\ resolved' \in BOOLEAN
        /\ \/ at' = at /\ relocated' = relocated
           \/ at' = 0 /\ relocated' = (relocated \/ session # 0)
    BY <1>4, QuietLeaves
  <2>2. at' \in 0..sessions'
    BY <1>1, <2>1
  <2>3. relocated' \in BOOLEAN
    <3>1. relocated' = relocated \/ relocated' = (relocated \/ session # 0)
      BY <2>1
    <3> QED  BY <1>1, <3>1, Zenon
  <2>4. pending' \in OutUpTo(requests', sessions')
    BY <1>1, <1>2, <2>1
  <2> QED  BY <1>1, <2>1, <2>2, <2>3, <2>4, TypesNext
<1>5. CASE Handshook
  <2>1. /\ sessions' = sessions + 1 /\ session' = sessions'
        /\ sessions' \in 1..MaxSessions
        /\ at' \in {session', 0} /\ relocated' = (at' # session')
        /\ minted' \in Nat /\ minted <= minted'
        /\ cookies' \in Seq(CookiesUpTo(minted')) /\ Len(cookies') <= CookieTarget
    BY <1>5, HandshakeBrings
  <2>2. /\ inFlight' = "no" /\ resolved' = TRUE
        /\ UNCHANGED <<pending, network, requests, failures, spent, read,
                       crossed, reread>>
    BY <1>5 DEF Handshook
  <2>3. /\ pending \in OutUpTo(requests', sessions')
        /\ asked \subseteq RequestsUpTo(requests', sessions', minted')
        /\ replies \subseteq RepliesUpTo(requests', sessions', minted')
        /\ spent \subseteq CookiesUpTo(minted') /\ read \subseteq 1..requests'
    BY <1>1, <2>1, <2>2, OldStaysTyped
  <2>4. /\ session' \in 0..sessions' /\ at' \in 0..sessions'
        /\ sessions' \in 0..MaxSessions /\ relocated' \in BOOLEAN
    BY <1>1, <2>1
  <2> QED  BY <1>1, <2>1, <2>2, <2>3, <2>4, TypesNext
<1>6. CASE SendPoll \/ NoSocket \/ CannotSend
  <2>1. Prepare
    BY <1>6 DEF SendPoll, NoSocket, CannotSend
  <2>2. /\ UNCHANGED <<session, resolved, inFlight, replies, sessions, minted,
                       read, crossed, reread>>
    BY <2>1 DEF Prepare
  <2>3. /\ session \in 1..sessions /\ pending = NoneOut
        /\ requests' = requests + 1 /\ requests' \in 0..MaxRequests
        /\ Len(cookies) \in 1..CookieTarget /\ Len(cookies') = Len(cookies) - 1
        /\ cookies' \in Seq(CookiesUpTo(minted))
        /\ Last(cookies) \in CookiesUpTo(minted)
        /\ spent' = spent \cup {Last(cookies)}
    BY <2>1, Spends
  <2>4. requests' \in Nat /\ requests <= requests' /\ requests' \in 1..requests'
        /\ Len(cookies') <= CookieTarget
    BY <1>1, <2>3, SessionConstants
  <2>5. /\ pending \in OutUpTo(requests', sessions')
        /\ asked \subseteq RequestsUpTo(requests', sessions', minted')
        /\ replies \subseteq RepliesUpTo(requests', sessions', minted')
        /\ spent \subseteq CookiesUpTo(minted') /\ read \subseteq 1..requests'
    BY <1>1, <2>2, <2>4, OldStaysTyped
  <2>6. spent' \subseteq CookiesUpTo(minted')
    BY <2>2, <2>3, <2>5
  <2>7. Outstanding \in OutUpTo(requests', sessions')
    BY <2>2, <2>3, <2>4 DEF Outstanding, OutUpTo
  <2>8. pending' \in OutUpTo(requests', sessions')
    BY <1>6, <2>5, <2>7 DEF SendPoll, NoSocket, CannotSend
  <2>9. asked' \subseteq RequestsUpTo(requests', sessions', minted')
    <3>1. CASE SendPoll
      <4> DEFINE wanted == Placeholders(Len(cookies) - 1) + 1
                 new == [serial |-> requests', keys |-> session,
                         cookie |-> Last(cookies), to |-> at,
                         wanted |-> wanted]
      <4>1. asked' = asked \cup {new}
        BY <3>1 DEF SendPoll
      <4>2. wanted \in 1..CookieTarget
        BY <2>1, Asks
      <4> HIDE DEF wanted
      <4>3. new \in RequestsUpTo(requests', sessions', minted')
        BY <1>1, <2>2, <2>3, <2>4, <4>2 DEF RequestsUpTo
      <4> QED  BY <2>5, <4>1, <4>3
    <3>2. CASE NoSocket \/ CannotSend
      BY <2>5, <3>2 DEF NoSocket, CannotSend
    <3> QED  BY <1>6, <3>1, <3>2
  <2>10. failures' \in 0..MaxFailures /\ at' \in 0..sessions'
    BY <1>1, <1>3, <1>6, <2>2 DEF SendPoll, NoSocket, CannotSend
  <2>11. relocated' \in BOOLEAN
    <3>1. relocated' = relocated \/ relocated' = (relocated \/ at' # session)
      BY <1>6 DEF SendPoll, NoSocket, CannotSend
    <3> QED  BY <1>1, <3>1, Zenon
  <2> QED
    BY <1>1, <2>2, <2>3, <2>4, <2>5, <2>6, <2>8, <2>9, <2>10, <2>11, TypesNext
<1>7. ASSUME NEW question \in asked, NEW count \in 0..CookieTarget,
             ServerAnswers(question, count)
      PROVE  SessionTypeOK'
  <2>1. /\ asked' = asked \ {question}
        /\ replies' = replies \cup {Answer(question, count)}
        /\ Answer(question, count) \in RepliesUpTo(requests, sessions, minted')
        /\ minted' \in Nat /\ minted <= minted'
        /\ UNCHANGED <<security, where, pending, sessions, requests, failures,
                       history>>
    BY <1>7, AnswerBrings
  <2>2. /\ cookies \in Seq(CookiesUpTo(minted'))
        /\ asked \subseteq RequestsUpTo(requests', sessions', minted')
        /\ replies \subseteq RepliesUpTo(requests', sessions', minted')
        /\ spent \subseteq CookiesUpTo(minted')
    BY <1>1, <2>1, OldStaysTyped
  <2>3. /\ asked' \subseteq RequestsUpTo(requests', sessions', minted')
        /\ replies' \subseteq RepliesUpTo(requests', sessions', minted')
    BY <2>1, <2>2
  <2> QED  BY <1>1, <2>1, <2>2, <2>3, TypesNext
<1>8. ASSUME NEW answer \in replies, Reads(answer)
      PROVE  SessionTypeOK'
  <2>1. /\ answer \in RepliesUpTo(requests, sessions, minted)
        /\ read' = read \cup {answer.serial}
        /\ reread' = (reread \/ answer.serial \in read)
        /\ crossed' = (crossed \/ (session # 0 /\ answer.keys # session))
        /\ UNCHANGED <<where, network, counters, spent, relocated>>
        /\ pending' \in {pending, NoneOut}
        /\ \/ session' = session /\ session = 0 /\ cookies' = cookies
           \/ session' = session /\ session # 0 /\ cookies' = Stored(answer)
           \/ session' = 0 /\ cookies' = << >> /\ pending' = NoneOut
    BY <1>8, ReadingDoes
  <2>2. /\ Stored(answer) \in Seq(CookiesUpTo(minted))
        /\ Len(Stored(answer)) <= CookieTarget
    BY <1>8, Stores
  <2>3. << >> \in Seq(CookiesUpTo(minted)) /\ Len(<< >>) = 0
        /\ 0 <= CookieTarget
    BY SessionConstants
  <2>4. /\ cookies' \in Seq(CookiesUpTo(minted')) /\ Len(cookies') <= CookieTarget
        /\ session' \in 0..sessions'
    <3>1. minted' = minted /\ sessions' = sessions /\ 0 \in 0..sessions
      BY <1>1, <2>1
    <3>2. CASE session' = 0 /\ cookies' = << >>
      BY <2>3, <3>1, <3>2
    <3>3. CASE session' = session /\ cookies' = Stored(answer)
      BY <1>1, <2>2, <3>1, <3>3
    <3>4. CASE session' = session /\ cookies' = cookies
      BY <1>1, <3>1, <3>4
    <3> QED  BY <2>1, <3>2, <3>3, <3>4
  <2>5. pending' \in OutUpTo(requests', sessions')
    BY <1>1, <1>2, <2>1
  <2>6. answer.serial \in 1..requests
    BY <2>1 DEF RepliesUpTo
  <2>7. read' \subseteq 1..requests' /\ reread' \in BOOLEAN /\ crossed' \in BOOLEAN
    BY <1>1, <2>1, <2>6
  <2> QED  BY <1>1, <2>1, <2>4, <2>5, <2>7, TypesNext
<1> QED  BY <1>4, <1>5, <1>6, <1>7, <1>8, StepsAre
-----------------------------------------------------------------------------
(* Serials tell requests and replies apart, read or unread *)

LEMMA SerialsStep ==
  ASSUME SessionTypeOK, SerialsTell, SessionNext
  PROVE  SerialsTell'
<1> USE DEF security, where, network, counters, history
<1>1. CASE Elsewhere \/ Handshook \/ NoSocket \/ CannotSend
  <2>1. asked' = asked /\ replies' = replies
    BY <1>1, QuietLeaves DEF Handshook, NoSocket, CannotSend, Prepare
  <2> QED  BY <2>1 DEF SerialsTell
<1>2. CASE SendPoll
  <2>1. replies' = replies /\ requests' = requests + 1 /\ requests \in Nat
    BY <1>2, TypesAre, SessionConstants DEF SendPoll, Prepare
  <2> DEFINE new == [serial |-> requests', keys |-> session,
                     cookie |-> Last(cookies), to |-> at,
                     wanted |-> Placeholders(Len(cookies) - 1) + 1]
  <2>2. asked' = asked \cup {new} /\ new.serial = requests + 1
    BY <1>2, <2>1 DEF SendPoll
  <2> HIDE DEF new
  <2>3. /\ \A a \in asked : a.serial \in 1..requests
        /\ \A a \in replies : a.serial \in 1..requests
    BY TypesAre DEF RequestsUpTo, RepliesUpTo
  <2>4. /\ \A a \in asked : a.serial # new.serial
        /\ \A a \in replies : a.serial # new.serial
    BY <2>1, <2>2, <2>3
  <2> QED  BY <2>1, <2>2, <2>4 DEF SerialsTell
<1>3. ASSUME NEW question \in asked, NEW count \in 0..CookieTarget,
             ServerAnswers(question, count)
      PROVE  SerialsTell'
  <2>1. /\ asked' = asked \ {question}
        /\ replies' = replies \cup {Answer(question, count)}
    BY <1>3, AnswerBrings
  <2>2. Answer(question, count).serial = question.serial
    BY DEF Answer
  <2> HIDE DEF Answer
  <2> QED  BY <2>1, <2>2 DEF SerialsTell
<1>4. ASSUME NEW answer \in replies, Reads(answer)
      PROVE  SerialsTell'
  <2>1. asked' = asked /\ replies' = replies
    BY <1>4, ReadingDoes
  <2> QED  BY <2>1 DEF SerialsTell
<1> QED  BY <1>1, <1>2, <1>3, <1>4, StepsAre

(* While no reply was read twice, the cookies held, spent and under way in *)
(* replies yet to be read are all different.                               *)
LEMMA CookiesStep ==
  ASSUME SessionTypeOK, SerialsTell, CookiesApart, SessionNext
  PROVE  CookiesApart'
<1> USE DEF security, where, network, counters, history
<1>1. /\ spent \subseteq CookiesUpTo(minted) /\ ToSet(cookies) \subseteq CookiesUpTo(minted)
      /\ \A a \in replies : ToSet(a.fresh) \subseteq CookiesUpTo(minted)
  <2>1. cookies \in Seq(CookiesUpTo(minted)) /\ spent \subseteq CookiesUpTo(minted)
    BY TypesAre
  <2>2. \A a \in replies : a.fresh \in Seq(CookiesUpTo(minted))
    BY TypesAre DEF RepliesUpTo
  <2> QED  BY <2>1, <2>2, InSeq
<1>2. \A cookie \in CookiesUpTo(minted) : cookie.id <= minted /\ cookie.id \in Nat
  BY TypesAre DEF CookiesUpTo
<1>3. SUFFICES ASSUME ~reread' PROVE CookiesApart'
  BY DEF CookiesApart
<1>4. CASE Elsewhere
  BY <1>3, <1>4, QuietLeaves DEF CookiesApart, Unread
<1>5. CASE Handshook
  <2>1. /\ IsInjective(cookies')
        /\ \A cookie \in ToSet(cookies') : cookie.id > minted
        /\ minted \in Nat
    BY <1>5, HandshakeBrings, TypesAre
  <2>2. /\ UNCHANGED <<replies, spent, read, reread>>
    BY <1>5 DEF Handshook
  <2>3. ToSet(cookies') \cap CookiesUpTo(minted) = {}
    BY <1>2, <2>1
  <2> QED  BY <1>1, <1>3, <2>1, <2>2, <2>3 DEF CookiesApart, Unread
<1>6. CASE SendPoll \/ NoSocket \/ CannotSend
  <2>1. Prepare
    BY <1>6 DEF SendPoll, NoSocket, CannotSend
  <2>2. UNCHANGED <<replies, read, reread>>
    BY <2>1 DEF Prepare
  <2>3. /\ ToSet(cookies') \subseteq ToSet(cookies)
        /\ Last(cookies) \in ToSet(cookies)
        /\ IsInjective(cookies) =>
              IsInjective(cookies') /\ Last(cookies) \notin ToSet(cookies')
        /\ spent' = spent \cup {Last(cookies)}
    BY <2>1, Spends
  <2> QED  BY <1>3, <2>2, <2>3 DEF CookiesApart, Unread
<1>7. ASSUME NEW question \in asked, NEW count \in 0..CookieTarget,
             ServerAnswers(question, count)
      PROVE  CookiesApart'
  <2> DEFINE new == Answer(question, count)
  <2>1. /\ replies' = replies \cup {new}
        /\ IsInjective(Minted(question.keys, count))
        /\ \A cookie \in ToSet(Minted(question.keys, count)) : cookie.id > minted
        /\ UNCHANGED <<security, history>>
        /\ minted \in Nat
    BY <1>7, AnswerBrings, TypesAre
  <2>2. new.fresh = Minted(question.keys, count)
    BY DEF Answer
  <2> HIDE DEF new
  <2>3. IsInjective(new.fresh) /\ ToSet(new.fresh) \cap CookiesUpTo(minted) = {}
    BY <1>2, <2>1, <2>2
  <2>4. Unread' \subseteq Unread \cup {new}
    BY <2>1 DEF Unread
  <2>5. \A a \in Unread : ToSet(a.fresh) \subseteq CookiesUpTo(minted)
    BY <1>1 DEF Unread
  <2>6. /\ cookies' = cookies /\ spent' = spent /\ ~reread
    BY <1>3, <2>1
  <2> QED  BY <1>1, <2>3, <2>4, <2>5, <2>6 DEF CookiesApart
<1>8. ASSUME NEW answer \in replies, Reads(answer)
      PROVE  CookiesApart'
  <2>1. /\ read' = read \cup {answer.serial}
        /\ ~reread /\ answer.serial \notin read
        /\ replies' = replies /\ spent' = spent
        /\ \/ cookies' = cookies \/ cookies' = Stored(answer) \/ cookies' = << >>
    BY <1>3, <1>8, ReadingDoes
  <2>2. answer \in Unread /\ Unread' = Unread \ {answer}
    BY <2>1 DEF Unread, SerialsTell
  <2>3. /\ ToSet(Stored(answer)) \subseteq ToSet(cookies) \cup ToSet(answer.fresh)
        /\ IsInjective(cookies) /\ IsInjective(answer.fresh)
              /\ ToSet(cookies) \cap ToSet(answer.fresh) = {}
           => IsInjective(Stored(answer))
    BY Stores
  <2>4. ToSet(<< >>) = {} /\ IsInjective(<< >>)
    BY DEF ToSet, IsInjective
  <2>5. IsInjective(cookies') /\ ToSet(cookies') \subseteq ToSet(cookies) \cup ToSet(answer.fresh)
    BY <2>1, <2>2, <2>3, <2>4 DEF CookiesApart
  <2> QED  BY <2>1, <2>2, <2>5 DEF CookiesApart
<1> QED  BY <1>4, <1>5, <1>6, <1>7, <1>8, StepsAre
(* Cookies go with the keys held, and the address with their server.       *)
LEMMA KeysStep ==
  ASSUME SessionTypeOK, KeysMatch, SessionNext
  PROVE  KeysMatch'
<1> USE DEF security, where, network, counters, history
<1> DEFINE Mine(c, s) == \A cookie \in ToSet(c) : cookie.session = s
           Theirs(r) == Mine(r.fresh, r.keys)
<1>1. /\ ~crossed => Mine(cookies, session)
      /\ \A answer \in replies : Theirs(answer)
      /\ ~relocated /\ session # 0 => at = session
  BY DEF KeysMatch
<1>2. ASSUME ~crossed' => Mine(cookies', session'),
             \A answer \in replies' : Theirs(answer),
             ~relocated' /\ session' # 0 => at' = session'
      PROVE  KeysMatch'
  BY <1>2 DEF KeysMatch
<1>3. CASE Elsewhere
  BY <1>1, <1>2, <1>3, QuietLeaves
<1>4. CASE Handshook
  <2>1. replies' = replies
    BY <1>4 DEF Handshook
  <2> QED  BY <1>1, <1>2, <1>4, <2>1, HandshakeBrings
<1>5. CASE SendPoll \/ NoSocket \/ CannotSend
  <2>1. Prepare
    BY <1>5 DEF SendPoll, NoSocket, CannotSend
  <2>2. UNCHANGED <<session, replies, crossed>>
    BY <2>1 DEF Prepare
  <2>3. ToSet(cookies') \subseteq ToSet(cookies)
    BY <2>1, Spends
  <2>4. ~relocated' /\ session' # 0 => at' = session'
    BY <1>1, <1>5, <2>2 DEF SendPoll, NoSocket, CannotSend
  <2> QED  BY <1>1, <1>2, <2>2, <2>3, <2>4
<1>6. ASSUME NEW question \in asked, NEW count \in 0..CookieTarget,
             ServerAnswers(question, count)
      PROVE  KeysMatch'
  <2> DEFINE new == Answer(question, count)
  <2>1. /\ replies' = replies \cup {new}
        /\ \A cookie \in ToSet(Minted(question.keys, count)) :
              cookie.session = question.keys
        /\ UNCHANGED <<security, where, history>>
    BY <1>6, AnswerBrings
  <2>2. new.fresh = Minted(question.keys, count) /\ new.keys = question.keys
    BY DEF Answer
  <2> HIDE DEF new
  <2>3. Theirs(new)
    BY <2>1, <2>2
  <2> QED  BY <1>1, <1>2, <2>1, <2>3
<1>7. ASSUME NEW answer \in replies, Reads(answer)
      PROVE  KeysMatch'
  <2>1. /\ crossed' = (crossed \/ (session # 0 /\ answer.keys # session))
        /\ UNCHANGED <<where, network, relocated>>
        /\ \/ session' = session /\ session = 0 /\ cookies' = cookies
           \/ session' = session /\ session # 0 /\ cookies' = Stored(answer)
           \/ session' = 0 /\ cookies' = << >>
    BY <1>7, ReadingDoes
  <2>2. ToSet(Stored(answer)) \subseteq ToSet(cookies) \cup ToSet(answer.fresh)
    BY Stores
  <2>3. ToSet(<< >>) = {}
    BY DEF ToSet
  <2>4. ~crossed' => Mine(cookies', session')
    <3>1. CASE session' = session /\ session = 0 /\ cookies' = cookies
      BY <1>1, <2>1, <3>1
    <3>2. CASE session' = session /\ session # 0 /\ cookies' = Stored(answer)
      BY <1>1, <2>1, <2>2, <3>2
    <3>3. CASE session' = 0 /\ cookies' = << >>
      BY <2>3, <3>3
    <3> QED  BY <2>1, <3>1, <3>2, <3>3
  <2> QED  BY <1>1, <1>2, <2>1, <2>4
<1> QED  BY <1>3, <1>4, <1>5, <1>6, <1>7, StepsAre

(* What the outstanding request asked for fills the store.                 *)
LEMMA StoreStep ==
  ASSUME SessionTypeOK, SerialsTell, StoreMakesUp, SessionNext
  PROVE  StoreMakesUp'
<1> USE DEF security, where, network, counters, history
<1>1. /\ pending \in OutUpTo(requests, sessions)
      /\ requests \in Nat /\ sessions \in Nat
      /\ \A a \in asked : a.serial \in 1..requests
      /\ \A a \in replies : a.serial \in 1..requests
  BY TypesAre, SessionConstants DEF RequestsUpTo, RepliesUpTo
<1>2. SUFFICES ASSUME pending' # NoneOut, pending'.keys = session'
               PROVE  StoreMakesUp'
  BY DEF StoreMakesUp
<1>3. CASE Elsewhere
  <2>1. /\ UNCHANGED <<security, network, read>>
        /\ pending' \in {pending, NoneOut}
    BY <1>3, QuietLeaves
  <2> QED  BY <1>2, <2>1 DEF StoreMakesUp, Unread
<1>4. CASE Handshook
  <2>1. pending' = pending /\ session' = sessions + 1
    BY <1>4, HandshakeBrings DEF Handshook
  <2>2. pending.keys \in 1..sessions
    BY <1>1, <1>2, <2>1 DEF OutUpTo
  <2> QED  BY <1>1, <1>2, <2>1, <2>2
<1>5. CASE SendPoll \/ NoSocket \/ CannotSend
  <2> DEFINE wanted == Placeholders(Len(cookies) - 1) + 1
             new == [serial |-> requests', keys |-> session,
                     cookie |-> Last(cookies), to |-> at, wanted |-> wanted]
  <2>1. Prepare
    BY <1>5 DEF SendPoll, NoSocket, CannotSend
  <2>2. /\ requests' = requests + 1 /\ pending = NoneOut
        /\ Len(cookies') + wanted >= CookieTarget
        /\ UNCHANGED <<replies, read>>
    BY <2>1, Spends, Asks DEF Prepare
  <2>3. pending' = Outstanding
    BY <1>2, <1>5, <2>2 DEF SendPoll, NoSocket, CannotSend
  <2>4. pending'.serial = requests + 1
    BY <2>2, <2>3 DEF Outstanding
  <2>5. asked' = asked \/ asked' = asked \cup {new}
    BY <1>5 DEF SendPoll, NoSocket, CannotSend
  <2>6. new.wanted = wanted
    OBVIOUS
  <2> HIDE DEF new, wanted
  <2>7. /\ \A a \in asked : a.serial # pending'.serial
        /\ \A a \in replies : a.serial # pending'.serial
    BY <1>1, <2>4
  <2>8. \A question \in asked' : question.serial = pending'.serial =>
           Len(cookies') + question.wanted >= CookieTarget
    BY <2>2, <2>5, <2>6, <2>7
  <2> QED  BY <2>2, <2>7, <2>8 DEF StoreMakesUp, Unread
<1>6. ASSUME NEW question \in asked, NEW count \in 0..CookieTarget,
             ServerAnswers(question, count)
      PROVE  StoreMakesUp'
  <2> DEFINE new == Answer(question, count)
  <2>1. /\ asked' = asked \ {question}
        /\ replies' = replies \cup {new}
        /\ Len(Minted(question.keys, count)) = count
        /\ UNCHANGED <<security, pending, history>>
    BY <1>6, AnswerBrings
  <2>2. /\ new.serial = question.serial
        /\ Len(new.fresh) = count /\ new.whole = (count = question.wanted)
    BY <2>1 DEF Answer
  <2> HIDE DEF new
  <2>3. Unread' \subseteq Unread \cup {new}
    BY <2>1 DEF Unread
  <2>4. pending # NoneOut /\ pending.keys = session
    BY <1>2, <2>1
  <2>5. new.serial = pending.serial /\ new.whole =>
           Len(cookies) + Len(new.fresh) >= CookieTarget
    BY <2>2, <2>4 DEF StoreMakesUp
  <2> QED  BY <2>1, <2>3, <2>4, <2>5 DEF StoreMakesUp
<1>7. ASSUME NEW answer \in replies, Reads(answer)
      PROVE  StoreMakesUp'
  <2>1. /\ pending.serial = answer.serial
        /\ read' = read \cup {answer.serial}
        /\ UNCHANGED network
        /\ pending' \in {pending, NoneOut}
    BY <1>7, ReadingDoes
  <2>2. pending' = pending
    BY <1>2, <2>1
  <2>3. /\ \A question \in asked' : question.serial # pending'.serial
        /\ \A other \in Unread' : other.serial # pending'.serial
    BY <2>1, <2>2 DEF SerialsTell, Unread
  <2> QED  BY <2>3 DEF StoreMakesUp
<1> QED  BY <1>3, <1>4, <1>5, <1>6, <1>7, StepsAre

-----------------------------------------------------------------------------
(* The theorems *)

LEMMA SessionStarts ==
  ASSUME SessionInit
  PROVE  SessionIInv
<1>1. /\ session = 0 /\ cookies = << >> /\ at = 0 /\ resolved = FALSE
      /\ inFlight = "no" /\ pending = NoneOut /\ asked = {} /\ replies = {}
      /\ sessions = 0 /\ requests = 0 /\ minted = 0 /\ failures = 0
      /\ spent = {} /\ read = {}
      /\ crossed = FALSE /\ reread = FALSE /\ relocated = FALSE
  BY DEF SessionInit
<1>2. /\ cookies \in Seq(CookiesUpTo(minted)) /\ Len(cookies) = 0
      /\ ToSet(cookies) = {} /\ IsInjective(cookies)
  BY <1>1 DEF ToSet, IsInjective
<1>3. SessionTypeOK
  <2>1. /\ CookieTarget \in Nat /\ 0 \in 0..0
        /\ 0 \in 0..MaxSessions /\ 0 \in 0..MaxRequests /\ 0 \in 0..MaxFailures
    BY SessionConstants
  <2>2. pending \in OutUpTo(requests, sessions)
    BY <1>1 DEF OutUpTo
  <2>3. /\ session \in 0..sessions /\ sessions \in 0..MaxSessions
        /\ at \in 0..sessions /\ resolved \in BOOLEAN
        /\ inFlight \in {"no", "resolve", "handshake"}
        /\ requests \in 0..MaxRequests /\ failures \in 0..MaxFailures
        /\ minted \in Nat
        /\ crossed \in BOOLEAN /\ reread \in BOOLEAN /\ relocated \in BOOLEAN
    BY <1>1, <2>1
  <2>4. /\ asked \subseteq RequestsUpTo(requests, sessions, minted)
        /\ replies \subseteq RepliesUpTo(requests, sessions, minted)
        /\ spent \subseteq CookiesUpTo(minted) /\ read \subseteq 1..requests
    BY <1>1
  <2>5. Len(cookies) <= CookieTarget
    BY <1>2, <2>1
  <2> QED  BY <1>2, <2>2, <2>3, <2>4, <2>5, TypesAre
<1>4. SerialsTell /\ CookiesApart /\ KeysMatch /\ StoreMakesUp
  BY <1>1, <1>2 DEF SerialsTell, CookiesApart, KeysMatch, StoreMakesUp, Unread
<1> QED  BY <1>3, <1>4 DEF SessionIInv

LEMMA SessionKeeps ==
  ASSUME SessionIInv, [SessionNext]_sessionVars
  PROVE  SessionIInv'
<1>1. CASE SessionNext
  BY <1>1, TypesStep, SerialsStep, CookiesStep, KeysStep, StoreStep
     DEF SessionIInv
<1>2. CASE UNCHANGED sessionVars
  <2>1. /\ SessionTypeOK' /\ SerialsTell'
    BY <1>2 DEF SessionIInv, sessionVars, security, where, network, counters,
                history, SessionTypeOK, Cookies, SerialsTell
  <2>2. /\ CookiesApart' /\ KeysMatch' /\ StoreMakesUp'
    BY <1>2 DEF SessionIInv, sessionVars, security, where, network, counters,
                history, CookiesApart, KeysMatch, StoreMakesUp, Unread
  <2> QED  BY <2>1, <2>2 DEF SessionIInv
<1> QED  BY <1>1, <1>2

(* The inductive invariant of a session, for every number of cookies,      *)
(* handshakes, requests and failures.                                      *)
THEOREM SessionInvariance == SessionSpec => []SessionIInv
BY SessionStarts, SessionKeeps, PTL DEF SessionSpec

(* The store holds at most CookieTarget cookies, of sessions there were;   *)
(* what is out, asked and answered has the keys of a session there was.    *)
THEOREM SessionTypeCorrect == SessionSpec => []SessionTypeOK
<1>1. SessionIInv => SessionTypeOK
  BY DEF SessionIInv
<1> QED  BY <1>1, SessionInvariance, PTL

(* No cookie is held twice, or held after it was spent, unless a reply     *)
(* whose measurement was refused was read a second time (prepare, verify). *)
THEOREM CookiesAreSpentOnce == SessionSpec => []NoCookieTwice
<1>1. SessionIInv => NoCookieTwice
  BY DEF SessionIInv, CookiesApart, NoCookieTwice
<1> QED  BY <1>1, SessionInvariance, PTL

(* Every request sent can be opened by the server it goes to, but for the  *)
(* two ways named (prepare, with at and security as maintain_sources,      *)
(* take_reply and rotate_address leave them).                              *)
THEOREM ServersCanOpen == SessionSpec => RequestsCanBeOpened
<1> DEFINE OpenedNow == \A question \in asked' \ asked :
                           Opens(question) \/ crossed \/ relocated
<1>1. ASSUME SessionIInv, [SessionNext]_sessionVars
      PROVE  [OpenedNow]_sessionVars
  <2>1. SUFFICES ASSUME SessionNext PROVE OpenedNow
    BY <1>1
  <2>2. CASE SendPoll
    <3> DEFINE wanted == Placeholders(Len(cookies) - 1) + 1
               new == [serial |-> requests', keys |-> session,
                       cookie |-> Last(cookies), to |-> at, wanted |-> wanted]
    <3>1. asked' = asked \cup {new} /\ Prepare
      BY <2>2 DEF SendPoll
    <3>2. Last(cookies) \in ToSet(cookies) /\ session # 0
      BY <1>1, <3>1, Spends DEF SessionIInv, Prepare, CanPoll
    <3>3. ~crossed => Last(cookies).session = session
      BY <1>1, <3>2 DEF SessionIInv, KeysMatch
    <3>4. ~relocated => at = session
      BY <1>1, <3>2 DEF SessionIInv, KeysMatch
    <3>5. new.keys = session /\ new.cookie = Last(cookies) /\ new.to = at
      OBVIOUS
    <3> HIDE DEF new
    <3> QED  BY <3>1, <3>3, <3>4, <3>5 DEF Opens
  <2>3. CASE Elsewhere \/ Handshook \/ NoSocket \/ CannotSend
    <3>1. asked' = asked
      BY <1>1, <2>3, QuietLeaves
         DEF SessionIInv, network, Handshook, NoSocket, CannotSend
    <3> QED  BY <3>1
  <2>4. CASE \E question \in asked, count \in 0..CookieTarget :
                ServerAnswers(question, count)
    BY <2>4 DEF ServerAnswers
  <2>5. CASE \E answer \in replies : Reads(answer)
    BY <1>1, <2>5, ReadingDoes DEF SessionIInv, network
  <2> QED  BY <2>1, <2>2, <2>3, <2>4, <2>5, StepsAre
<1> HIDE DEF OpenedNow
<1>2. SessionSpec => [][OpenedNow]_sessionVars
  BY <1>1, SessionInvariance, PTL DEF SessionSpec
<1> QED  BY <1>2 DEF RequestsCanBeOpened, OpenedNow

(* An answer with all that was asked for leaves the store full, however    *)
(* many requests before it were lost (Protection::prepare and verify).     *)
THEOREM StoresAreRefilled == SessionSpec => AnswersRefill
<1> DEFINE Refilled(answer) ==
              answer.whole /\ session # 0 /\ answer.keys = session /\ read' # read
                 /\ answer.serial \in read' \ read /\ session' = session
              => Len(cookies') = CookieTarget
           RefilledNow == \A answer \in replies : Refilled(answer)
<1>1. ASSUME SessionIInv, [SessionNext]_sessionVars
      PROVE  [RefilledNow]_sessionVars
  <2>1. SUFFICES ASSUME SessionNext, NEW answer \in replies PROVE Refilled(answer)
    BY <1>1
  <2>2. SessionTypeOK
    BY <1>1 DEF SessionIInv
  <2>3. ASSUME NEW other \in replies, Reads(other),
               answer.whole, session # 0, answer.keys = session,
               answer.serial \in read' \ read, session' = session
        PROVE  Len(cookies') = CookieTarget
    <3>1. /\ read' = read \cup {other.serial}
          /\ pending.serial = other.serial /\ pending.keys = other.keys
          /\ pending # NoneOut
          /\ cookies' = Stored(other)
      BY <2>2, <2>3, ReadingDoes
    <3>2. other = answer /\ answer \in Unread
      BY <1>1, <2>3, <3>1 DEF SessionIInv, SerialsTell, Unread
    <3>3. Len(cookies) + Len(answer.fresh) >= CookieTarget
      BY <1>1, <2>3, <3>1, <3>2 DEF SessionIInv, StoreMakesUp
    <3>4. /\ Len(cookies') <= CookieTarget /\ Len(cookies') \in Nat
          /\ \/ Len(cookies') = CookieTarget
             \/ Len(cookies') = Len(cookies) + Len(answer.fresh)
      BY <2>2, <3>1, <3>2, Stores
    <3> QED  BY <3>3, <3>4, SessionConstants
  <2>4. CASE ~(\E other \in replies : Reads(other))
    <3>1. read' = read
      BY <2>1, <2>2, <2>4, StepsAre, QuietLeaves
         DEF history, Handshook, SendPoll, NoSocket, CannotSend, Prepare,
             ServerAnswers
    <3> QED  BY <3>1
  <2> QED  BY <2>3, <2>4
<1> HIDE DEF RefilledNow
<1>2. SessionSpec => [][RefilledNow]_sessionVars
  BY <1>1, SessionInvariance, PTL DEF SessionSpec
<1> QED  BY <1>2 DEF AnswersRefill, RefilledNow
-----------------------------------------------------------------------------
(* Finite sets *)

(* A finite set that is not empty has an element nothing in it comes       *)
(* before, in whatever order.                                              *)
LEMMA FiniteFirst ==
  ASSUME NEW S, IsFiniteSet(S), S # {}, NEW R,
         \A x \in S : <<x, x>> \notin R,
         \A x, y, z \in S : <<x, y>> \in R /\ <<y, z>> \in R => <<x, z>> \in R
  PROVE  \E x \in S : \A y \in S : <<y, x>> \notin R
<1> DEFINE Before(x) == {y \in S : <<y, x>> \in R}
           T == {Before(x) : x \in S}
<1>1. \A x \in S : Before(x) \in SUBSET S
  OBVIOUS
<1>2. T \subseteq SUBSET S /\ T # {}
  <2> HIDE DEF Before
  <2>1. \A x \in S : Before(x) \in T
    OBVIOUS
  <2> QED  BY <1>1, <2>1
<1>3. IsWellFoundedOn(StrictSubsetOrdering(S), SUBSET S)
  BY FS_StrictSubsetOrderingWellFounded, FS_FiniteSubsetsOfFinite
<1>4. PICK m \in T : \A n \in T : ~ (<<n, m>> \in StrictSubsetOrdering(S))
  <2> HIDE DEF T
  <2> QED  BY <1>2, <1>3, WFMin
<1>5. PICK x \in S : m = Before(x)
  BY <1>4
<1>6. ASSUME NEW y \in S, <<y, x>> \in R
      PROVE  FALSE
  <2>1. Before(y) \subseteq Before(x) /\ y \in Before(x) /\ y \notin Before(y)
    BY <1>5, <1>6
  <2>2. <<Before(y), Before(x)>> \in StrictSubsetOrdering(S)
    BY <1>1, <1>5, <2>1 DEF StrictSubsetOrdering
  <2> QED  BY <1>4, <1>5, <2>2
<1> QED  BY <1>6

LEMMA FiniteMin ==
  ASSUME NEW S, IsFiniteSet(S), S # {}, NEW f \in [S -> Int]
  PROVE  /\ \E x \in S : \A y \in S : f[x] <= f[y]
         /\ \E x \in S : \A y \in S : f[y] <= f[x]
<1> DEFINE Less == {p \in S \X S : f[p[1]] < f[p[2]]}
           More == {p \in S \X S : f[p[1]] > f[p[2]]}
<1>1. \A x, y \in S : <<x, y>> \in Less <=> f[x] < f[y]
  OBVIOUS
<1>2. \A x, y \in S : <<x, y>> \in More <=> f[x] > f[y]
  OBVIOUS
<1> HIDE DEF Less, More
<1>3. PICK u \in S : \A y \in S : <<y, u>> \notin Less
  <2>1. /\ \A x \in S : <<x, x>> \notin Less
        /\ \A x, y, z \in S :
              <<x, y>> \in Less /\ <<y, z>> \in Less => <<x, z>> \in Less
    BY <1>1
  <2> QED  BY <2>1, FiniteFirst
<1>4. PICK v \in S : \A y \in S : <<y, v>> \notin More
  <2>1. /\ \A x \in S : <<x, x>> \notin More
        /\ \A x, y, z \in S :
              <<x, y>> \in More /\ <<y, z>> \in More => <<x, z>> \in More
    BY <1>2
  <2> QED  BY <2>1, FiniteFirst
<1>5. ASSUME NEW y \in S PROVE f[u] <= f[y] /\ f[y] <= f[v]
  <2>1. ~(f[y] < f[u]) /\ ~(f[y] > f[v])
    BY <1>1, <1>2, <1>3, <1>4
  <2>2. f[u] \in Int /\ f[y] \in Int /\ f[v] \in Int
    BY <1>3, <1>4
  <2> QED  BY <2>1, <2>2
<1> QED  BY <1>5

-----------------------------------------------------------------------------
(* Selection: intersection *)

(* What a list of candidates is made of.                                   *)
Candidates == UNION {[1..n -> Candidate] : n \in 1..MaxCandidates}

LEMMA CandidatesAre ==
  ASSUME candidates \in Candidates
  PROVE  /\ IsFiniteSet(Fit) /\ Fit \subseteq Nat
         /\ Cardinality(Fit) \in Nat
         /\ \A i \in Fit :
               /\ candidates[i].distance \in Nat \ {0}
               /\ candidates[i].stratum \in Nat /\ candidates[i].prefer \in BOOLEAN
               /\ Low(i) \in Int /\ Mid(i) \in Int /\ High(i) \in Int
               /\ Low(i) < Mid(i) /\ Mid(i) < High(i)
               /\ Metric(i) \in Nat
<1>1. PICK n \in 1..MaxCandidates : candidates \in [1..n -> Candidate]
  BY DEF Candidates
<1>2. n \in Nat /\ Fit \subseteq 1..n
  BY <1>1, SelectConstants DEF Fit
<1>3. IsFiniteSet(Fit) /\ Cardinality(Fit) \in Nat
  <2>1. IsFiniteSet(1..n)
    BY <1>2, FS_Interval
  <2>2. IsFiniteSet(Fit)
    BY <1>2, <2>1, FS_Subset
  <2> QED  BY <2>2, FS_CardinalityType
<1>4. ASSUME NEW i \in Fit
      PROVE  /\ candidates[i].distance \in Nat \ {0}
             /\ candidates[i].stratum \in Nat /\ candidates[i].prefer \in BOOLEAN
             /\ Mid(i) \in Int
  <2>1. candidates[i] \in [offset : Int, distance : Nat \ {0}, stratum : Nat,
                           usable : BOOLEAN, prefer : BOOLEAN, jitter : Nat]
    BY <1>1, <1>2, SelectConstants
  <2> QED  BY <2>1 DEF Mid
<1>5. ASSUME NEW i \in Fit
      PROVE  /\ Low(i) \in Int /\ High(i) \in Int
             /\ Low(i) < Mid(i) /\ Mid(i) < High(i) /\ Metric(i) \in Nat
  BY <1>4, SelectConstants DEF Low, High, Mid, Metric
<1> QED  BY <1>2, <1>3, <1>4, <1>5

(* One of the survivors leads, whoever they are.                           *)
LEMMA LeaderIs ==
  ASSUME candidates \in Candidates, NEW S, S \subseteq Fit, S # {}
  PROVE  Leader(S) \in S /\ \A j \in S : Leads(Leader(S), j)
<1>1. IsFiniteSet(S)
  BY CandidatesAre, FS_Subset
<1>2. \A i \in S : /\ candidates[i].prefer \in BOOLEAN /\ Metric(i) \in Nat
                   /\ i \in Nat
  BY CandidatesAre
<1> DEFINE R == {p \in S \X S : ~Leads(p[2], p[1])}
<1>3. \A x, y \in S : <<x, y>> \in R <=> ~Leads(y, x)
  OBVIOUS
<1> HIDE DEF R
<1>4. \A x \in S : <<x, x>> \notin R
  BY <1>2, <1>3 DEF Leads
<1>5. \A x, y, z \in S : <<x, y>> \in R /\ <<y, z>> \in R => <<x, z>> \in R
  BY <1>2, <1>3 DEF Leads
<1>6. \E x \in S : \A y \in S : <<y, x>> \notin R
  BY <1>1, <1>4, <1>5, FiniteFirst
<1>7. \E x \in S : \A j \in S : Leads(x, j)
  BY <1>3, <1>6
<1> QED  BY <1>7 DEF Leader

(* Counting what all of the fit, but a few, say.                           *)
LEMMA AgreementIsBacked ==
  ASSUME candidates \in Candidates, NEW a \in Allowances, NEW e \in Agreed(a)
  PROVE  e \in Int \X Int /\ Backed(e) /\ Inside(e) # {}
<1> DEFINE n == Cardinality(Fit)
           wanted == n - a
           Outer == {i \in Fit : Mid(i) < e[1] \/ Mid(i) > e[2]}
           Standing(x) == {i \in Fit : Low(i) <= x /\ x <= High(i)}
<1>1. /\ IsFiniteSet(Fit) /\ n \in Nat
      /\ \A i \in Fit : Low(i) \in Int /\ Mid(i) \in Int /\ High(i) \in Int
  BY CandidatesAre
<1>2. a \in Nat /\ 2 * a < n
  BY <1>1 DEF Allowances
<1>3. /\ e \in Lows(wanted) \X Highs(wanted)
      /\ Cardinality(Outer) <= a
  BY DEF Agreed, Outside
<1>4. PICK l \in Fit : e[1] = Low(l) /\ Claims(Low(l)) >= wanted
  BY <1>3 DEF Lows
<1>5. PICK h \in Fit : e[2] = High(h) /\ Claims(High(h)) >= wanted
  BY <1>3 DEF Highs
<1>6. e \in Int \X Int /\ e[1] \in Int /\ e[2] \in Int
  BY <1>1, <1>3, <1>4, <1>5
<1>7. /\ Cardinality(Standing(e[1])) >= wanted /\ Cardinality(Standing(e[2])) >= wanted
  BY <1>4, <1>5 DEF Claims
<1>8. Outer = Fit \ Inside(e)
  BY <1>1, <1>6 DEF Inside
<1> HIDE DEF Outer, n
<1>9. Outer \subseteq Fit /\ IsFiniteSet(Outer) /\ Cardinality(Outer) \in Nat
  BY <1>1, <1>8, FS_Subset, FS_CardinalityType
<1>10. 2 * Cardinality(Outer) < n
  BY <1>1, <1>2, <1>3, <1>9
<1>11. Inside(e) # {}
  <2>1. SUFFICES ASSUME Inside(e) = {} PROVE FALSE
    OBVIOUS
  <2>2. Outer = Fit
    BY <1>8, <2>1
  <2> QED  BY <1>1, <1>10, <2>2 DEF n
<1>12. ASSUME NEW x \in {e[1], e[2]}, NEW t, MostTruthful(t)
       PROVE  Standing(x) \cap Truthful(t) # {}
  <2>1. Standing(x) \subseteq Fit /\ Truthful(t) \subseteq Fit
    BY DEF Truthful
  <2>2. Cardinality(Standing(x)) \in Nat /\ Cardinality(Truthful(t)) \in Nat
    BY <1>1, <2>1, FS_Subset, FS_CardinalityType
  <2>3. Cardinality(Standing(x)) >= wanted
    BY <1>7, <1>12
  <2>4. 2 * Cardinality(Truthful(t)) > n
    BY <1>12 DEF MostTruthful, n
  <2> HIDE DEF At
  <2>5. Cardinality(Standing(x)) + Cardinality(Truthful(t)) > n
    BY <1>1, <1>2, <2>2, <2>3, <2>4
  <2> QED  BY <1>1, <2>1, <2>5, FS_MajoritiesIntersect DEF n
<1>13. ASSUME NEW t, MostTruthful(t)
       PROVE  \E i, j \in Truthful(t) : Low(i) <= e[1] /\ e[2] <= High(j)
  <2>1. PICK i \in Truthful(t) : i \in Standing(e[1])
    BY <1>12, <1>13
  <2>2. PICK j \in Truthful(t) : j \in Standing(e[2])
    BY <1>12, <1>13
  <2> QED  BY <2>1, <2>2
<1> QED  BY <1>6, <1>8, <1>10, <1>11, <1>13 DEF Backed, n

(* So the test for an interval without survivors never succeeds.           *)
LEMMA IntervalIsBacked ==
  ASSUME candidates \in Candidates, Agreements # {}
  PROVE  Interval \in Int \X Int /\ Backed(Interval) /\ Inside(Interval) # {}
<1>1. IsFiniteSet(0..Cardinality(Fit)) /\ Agreements \subseteq 0..Cardinality(Fit)
      /\ Agreements \subseteq Int
  BY CandidatesAre, FS_Interval DEF Agreements, Allowances
<1>2. IsFiniteSet(Agreements)
  BY <1>1, FS_Subset
<1>3. \E x \in Agreements : \A y \in Agreements : x <= y
  <2> DEFINE f == [x \in Agreements |-> x]
  <2>1. f \in [Agreements -> Int]
    BY <1>1
  <2> HIDE DEF f
  <2>2. \E x \in Agreements : \A y \in Agreements : f[x] <= f[y]
    BY <1>2, <2>1, FiniteMin
  <2> QED  BY <2>2 DEF f
<1>4. Min(Agreements) \in Agreements
  BY <1>3 DEF Min
<1>5. Min(Agreements) \in Allowances /\ Agreed(Min(Agreements)) # {}
  BY <1>4 DEF Agreements
<1>6. Interval \in Agreed(Min(Agreements))
  BY <1>5 DEF Interval
<1> QED  BY <1>5, <1>6, AgreementIsBacked

(* A majority whose offsets all lie inside all their intervals is found at *)
(* the latest when the rest are taken to be liars.                         *)
LEMMA MajorityIsHeard ==
  ASSUME candidates \in Candidates, NEW S \in SUBSET Fit,
         2 * Cardinality(S) > Cardinality(Fit),
         \A i, j \in S : Low(i) < Mid(j) /\ Mid(j) < High(i)
  PROVE  Agreements # {}
<1> DEFINE n == Cardinality(Fit)
           k == Cardinality(S)
           a == n - k
<1>1. /\ IsFiniteSet(Fit) /\ n \in Nat
      /\ \A i \in Fit : Low(i) \in Int /\ Mid(i) \in Int /\ High(i) \in Int
  BY CandidatesAre
<1>2. IsFiniteSet(S) /\ k \in Nat /\ k <= n
  BY <1>1, FS_Subset, FS_CardinalityType
<1>3. a \in Allowances /\ n - a = k /\ a \in Nat /\ k > 0
  BY <1>1, <1>2 DEF Allowances
<1>4. S # {}
  <2>1. S = {} => k = 0
    BY FS_EmptySet
  <2> QED  BY <1>3, <2>1
<1>5. PICK l \in S : \A j \in S : Low(j) <= Low(l)
  <2> DEFINE f == [i \in S |-> Low(i)]
  <2>1. f \in [S -> Int]
    BY <1>1
  <2> HIDE DEF f
  <2>2. \E x \in S : \A y \in S : f[y] <= f[x]
    BY <1>2, <1>4, <2>1, FiniteMin
  <2> QED  BY <2>2 DEF f
<1>6. PICK h \in S : \A j \in S : High(h) <= High(j)
  <2> DEFINE f == [i \in S |-> High(i)]
  <2>1. f \in [S -> Int]
    BY <1>1
  <2> HIDE DEF f
  <2>2. \E x \in S : \A y \in S : f[x] <= f[y]
    BY <1>2, <1>4, <2>1, FiniteMin
  <2> QED  BY <2>2 DEF f
<1>7. ASSUME NEW x, \A j \in S : Low(j) <= x /\ x <= High(j)
      PROVE  Claims(x) >= k
  <2> DEFINE C == {i \in Fit : Low(i) <= x /\ x <= High(i)}
  <2>1. S \in SUBSET C /\ C \in SUBSET Fit
    BY <1>7
  <2> HIDE DEF C
  <2>2. IsFiniteSet(C) /\ Cardinality(C) \in Nat
    BY <1>1, <2>1, FS_Subset, FS_CardinalityType
  <2>3. k <= Cardinality(C)
    BY <2>1, <2>2, FS_Subset
  <2> QED  BY <1>2, <2>2, <2>3 DEF Claims, C
<1>8. /\ Low(l) < Mid(l) /\ Mid(l) < High(h) /\ l \in Fit /\ h \in Fit
      /\ Low(l) \in Int /\ Mid(l) \in Int /\ High(h) \in Int
      /\ \A j \in S : /\ Low(l) < Mid(j) /\ Mid(j) < High(h)
                      /\ Mid(j) < High(j) /\ Low(j) < Mid(j)
                      /\ Low(j) \in Int /\ Mid(j) \in Int /\ High(j) \in Int
  BY <1>1, <1>5, <1>6
<1>9. Low(l) \in Lows(k) /\ High(h) \in Highs(k)
  <2>1. Claims(Low(l)) >= k
    BY <1>5, <1>7, <1>8
  <2>2. Claims(High(h)) >= k
    BY <1>6, <1>7, <1>8
  <2> HIDE DEF k
  <2> QED  BY <1>8, <2>1, <2>2 DEF Lows, Highs
<1>10. /\ Lows(k) \subseteq Int /\ Highs(k) \subseteq Int
  BY <1>1 DEF Lows, Highs
<1>11. PICK low \in Lows(k) : \A x \in Lows(k) : low <= x
  <2> DEFINE A == {j \in Fit : Claims(Low(j)) >= k}
             f == [i \in A |-> Low(i)]
  <2>1. Lows(k) = {Low(i) : i \in A}
    BY DEF Lows
  <2>2. IsFiniteSet(A) /\ A # {} /\ f \in [A -> Int]
    BY <1>1, <1>9, <2>1, FS_Subset
  <2> HIDE DEF A, f
  <2>3. \E x \in A : \A y \in A : f[x] <= f[y]
    BY <2>2, FiniteMin
  <2> QED  BY <2>1, <2>3 DEF f
<1>12. PICK high \in Highs(k) : \A x \in Highs(k) : x <= high
  <2> DEFINE A == {j \in Fit : Claims(High(j)) >= k}
             f == [i \in A |-> High(i)]
  <2>1. Highs(k) = {High(i) : i \in A}
    BY DEF Highs
  <2>2. IsFiniteSet(A) /\ A # {} /\ f \in [A -> Int]
    BY <1>1, <1>9, <2>1, FS_Subset
  <2> HIDE DEF A, f
  <2>3. \E x \in A : \A y \in A : f[y] <= f[x]
    BY <2>2, FiniteMin
  <2> QED  BY <2>1, <2>3 DEF f
<1>13. low \in Int /\ high \in Int /\ low <= Low(l) /\ High(h) <= high
  BY <1>9, <1>10, <1>11, <1>12
<1>14. high > low
  BY <1>8, <1>13
<1>15. Outside(low, high) <= a
  <2> DEFINE Outer == {i \in Fit : Mid(i) < low \/ Mid(i) > high}
  <2>1. Outer \in SUBSET (Fit \ S)
    BY <1>8, <1>13
  <2> HIDE DEF Outer
  <2>2. Fit \cap S = S
    OBVIOUS
  <2>3. IsFiniteSet(Fit \ S) /\ Cardinality(Fit \ S) = n - Cardinality(Fit \cap S)
    BY <1>1, FS_Difference
  <2>4. Cardinality(Outer) <= Cardinality(Fit \ S)
    BY <2>1, <2>3, FS_Subset
  <2> QED  BY <2>2, <2>3, <2>4 DEF Outside, Outer
<1> DEFINE e == <<low, high>>
<1>16. e \in Agreed(a)
  <2>1. e \in Lows(n - a) \X Highs(n - a) /\ e[1] = low /\ e[2] = high
    BY <1>3, <1>11, <1>12
  <2> HIDE DEF e
  <2> QED  BY <1>3, <1>11, <1>12, <1>14, <1>15, <2>1 DEF Agreed
<1> QED  BY <1>3, <1>16 DEF Agreements

-----------------------------------------------------------------------------
(* Selection: the steps *)

(* What depends on the list alone stays as it is.                          *)
LEMMA ListStays ==
  ASSUME candidates' = candidates
  PROVE  /\ Fit' = Fit
         /\ \A e : Inside(e)' = Inside(e)
         /\ \A e : Backed(e) => Backed(e)'
<1>1. Fit' = Fit
  BY DEF Fit, IsFit
<1>2. \A i : Low(i)' = Low(i) /\ Mid(i)' = Mid(i) /\ High(i)' = High(i)
  BY DEF Low, Mid, High
<1>3. \A e : Inside(e)' = Inside(e)
  BY <1>1, <1>2 DEF Inside
<1>4. \A t : Truthful(t)' = Truthful(t)
  BY <1>1, <1>2 DEF Truthful
<1>5. \A t : MostTruthful(t)' <=> MostTruthful(t)
  BY <1>1, <1>4 DEF MostTruthful
<1>6. Times' = Times
  BY <1>1, <1>2 DEF Times
<1>7. ASSUME NEW e, Backed(e) PROVE Backed(e)'
  BY <1>1, <1>2, <1>3, <1>4, <1>5, <1>6, <1>7 DEF Backed
<1> QED  BY <1>1, <1>3, <1>7

LEMMA TimesKeepsOrder ==
  ASSUME NEW a \in Int, NEW b \in Int, NEW d \in Nat, a <= b
  PROVE  a * d <= b * d
<1>1. (b - a) * d >= 0
  <2>1. b - a \in Nat
    OBVIOUS
  <2>2. ASSUME NEW c \in Nat PROVE c * d \in Nat
    OBVIOUS
  <2>3. (b - a) * d \in Nat
    BY <2>1, <2>2
  <2> QED  BY <2>3
<1>2. (b - a) * d = b * d - a * d
  OBVIOUS
<1>3. a * d \in Int /\ b * d \in Int
  OBVIOUS
<1> QED  BY <1>1, <1>2, <1>3

(* One more source at m, of distance d, keeps the average within [l, h].   *)
LEMMA OneMore ==
  ASSUME NEW w \in Nat, NEW o \in Int, NEW s \in Nat \ {0},
         NEW d \in Nat \ {0}, NEW m \in Int, NEW l \in Int, NEW h \in Int,
         l <= m, m <= h, w * l <= o, o <= w * h
  PROVE  /\ w * d + s \in Nat \ {0} /\ s * d \in Nat \ {0}
         /\ o * d + s * m \in Int
         /\ (w * d + s) * l <= o * d + s * m
         /\ o * d + s * m <= (w * d + s) * h
<1>1. /\ w * d \in Nat /\ s * d \in Nat \ {0} /\ o * d \in Int /\ s * m \in Int
      /\ s * l \in Int /\ s * h \in Int /\ w * l \in Int /\ w * h \in Int
  OBVIOUS
<1>2. (w * l) * d <= o * d /\ o * d <= (w * h) * d
  BY <1>1, TimesKeepsOrder
<1>3. l * s <= m * s /\ m * s <= h * s
  BY TimesKeepsOrder
<1>4. /\ (w * d + s) * l = (w * l) * d + l * s
      /\ (w * d + s) * h = (w * h) * d + h * s
      /\ m * s = s * m
  OBVIOUS
<1>5. /\ (w * l) * d \in Int /\ (w * h) * d \in Int
      /\ l * s \in Int /\ m * s \in Int /\ h * s \in Int
  BY <1>1
<1> QED  BY <1>1, <1>2, <1>3, <1>4, <1>5

LEMMA SelectStarts ==
  ASSUME SelectInit
  PROVE  SelectIInv
<1>1. /\ candidates \in Candidates
      /\ outcome = "pending" /\ interval = <<0, 0>>
      /\ survivors = {} /\ falsetickers = {} /\ left = {} /\ sums = NoSums
  BY DEF SelectInit, Candidates
<1>2. sums.weight = 0 /\ sums.offset = 0 /\ sums.scale = 1
  BY <1>1 DEF NoSums
<1>3. interval \in Int \X Int /\ interval[1] = 0 /\ interval[2] = 0
  BY <1>1
<1>4. sums \in [weight : Nat, offset : Int, scale : Nat \ {0}]
  BY <1>1 DEF NoSums
<1>5. SelectTypeOK
  BY <1>1, <1>3, <1>4 DEF SelectTypeOK, Candidates, Chosen, Ok
<1> QED  BY <1>1, <1>2, <1>3, <1>5 DEF SelectIInv, LiarsCannotStop, Chosen, Refused

LEMMA SelectKeeps ==
  ASSUME SelectIInv, [SelectNext]_selectVars
  PROVE  SelectIInv'
<1> USE DEF results
<1>1. /\ candidates \in Candidates
      /\ interval \in Int \X Int /\ interval[1] \in Int /\ interval[2] \in Int
      /\ survivors \subseteq Fit \ falsetickers /\ falsetickers \subseteq Fit
      /\ left \subseteq survivors
      /\ sums \in [weight : Nat, offset : Int, scale : Nat \ {0}]
      /\ sums.weight * interval[1] <= sums.offset
      /\ sums.offset <= sums.weight * interval[2]
  BY DEF SelectIInv, SelectTypeOK, Candidates
<1>2. /\ outcome = "combining" <=> left # {}
      /\ outcome \in {"pending", "clustering"} => sums = NoSums
      /\ outcome \in {"pending", "no candidates", "no majority", "clustering",
                      "combining", "ok"}
      /\ Ok => sums.weight > 0
      /\ Chosen => \/ survivors = Fit \ falsetickers
                   \/ Cardinality(survivors) >= MinSurvivors
  BY DEF SelectIInv, SelectTypeOK
<1>3. Chosen => /\ Backed(interval)
                /\ survivors # {} /\ survivors \subseteq Inside(interval)
                /\ falsetickers = Fit \ Inside(interval)
                /\ \A i \in Inside(interval) \ survivors : ~candidates[i].prefer
  BY DEF SelectIInv
<1>4. candidates' = candidates
  BY DEF SelectNext, Agree, Disagree, Trim, Sort, Combine, selectVars
<1>5. /\ Fit' = Fit /\ \A e : Inside(e)' = Inside(e)
      /\ \A e : Backed(e) => Backed(e)'
  BY <1>4, ListStays
<1>6. CASE Agree
  <2>1. /\ left' = left /\ sums' = sums
        /\ outcome = "pending" /\ outcome' = "clustering"
        /\ interval' = Interval /\ survivors' = Inside(Interval)
        /\ falsetickers' = Fit \ Inside(Interval)
        /\ Agreements # {} /\ Inside(Interval) # {}
    BY <1>6 DEF Agree
  <2>2. Interval \in Int \X Int /\ Backed(Interval)
    BY <1>1, <2>1, IntervalIsBacked
  <2>3. left = {} /\ sums = NoSums
    BY <1>2, <2>1
  <2>4. Inside(Interval) \subseteq Fit
    BY DEF Inside
  <2>5. 0 * Interval[1] = 0 /\ 0 * Interval[2] = 0
    BY <2>2
  <2>6. SelectTypeOK'
    BY <1>1, <1>4, <1>5, <2>1, <2>2, <2>3, <2>4
       DEF SelectTypeOK, Candidates, Chosen, Ok
  <2>7. Backed(interval)' /\ Inside(interval)' = Inside(Interval)
    BY <1>5, <2>1, <2>2
  <2>8. sums'.weight = 0 /\ sums'.offset = 0
    BY <2>1, <2>3 DEF NoSums
  <2> QED
    BY <1>5, <2>1, <2>3, <2>5, <2>6, <2>7, <2>8
       DEF SelectIInv, LiarsCannotStop, Refused
<1>7. CASE Disagree
  <2>1. /\ outcome = "pending" /\ UNCHANGED results
        /\ Agreements # {} => Inside(Interval) = {}
        /\ outcome' \in {"no candidates", "no majority"}
    BY <1>7 DEF Disagree
  <2>2. Agreements = {}
    BY <1>1, <2>1, IntervalIsBacked
  <2>3. LiarsCannotStop
    BY <2>1 DEF LiarsCannotStop, Refused
  <2>4. LiarsCannotStop'
    <3>1. \A i : Low(i)' = Low(i) /\ Mid(i)' = Mid(i) /\ High(i)' = High(i)
      BY <1>4 DEF Low, Mid, High
    <3>2. SUFFICES ASSUME NEW S \in SUBSET Fit,
                          2 * Cardinality(S) > Cardinality(Fit),
                          \A i, j \in S : Low(i) < Mid(j) /\ Mid(j) < High(i)
                   PROVE  FALSE
      BY <1>5, <3>1 DEF LiarsCannotStop
    <3> QED  BY <1>1, <2>2, <3>2, MajorityIsHeard
  <2>5. SelectTypeOK'
    BY <1>1, <1>4, <1>5, <2>1 DEF SelectTypeOK, Candidates, Chosen, Ok
  <2> QED
    BY <1>1, <1>2, <2>1, <2>4, <2>5 DEF SelectIInv, Chosen
<1>8. CASE Trim
  <2> DEFINE w == Worst(survivors)
  <2>1. /\ outcome = "clustering" /\ survivors' = survivors \ {w}
        /\ UNCHANGED <<outcome, interval, falsetickers, left, sums>>
        /\ Cardinality(survivors) > MinSurvivors /\ ~candidates[w].prefer
    BY <1>8 DEF Trim, Trimmable
  <2> HIDE DEF w
  <2>2. IsFiniteSet(survivors) /\ Cardinality(survivors) \in Nat
    BY <1>1, CandidatesAre, FS_Subset, FS_CardinalityType
  <2>3. Cardinality(survivors \ {w}) \in {Cardinality(survivors) - 1,
                                          Cardinality(survivors)}
    BY <2>2, FS_RemoveElement
  <2>4. Cardinality(survivors \ {w}) >= MinSurvivors
        /\ Cardinality(survivors \ {w}) > 0
    BY <2>1, <2>2, <2>3, SelectConstants
  <2>5. survivors \ {w} # {}
    BY <2>4, FS_EmptySet
  <2>6. left = {}
    BY <1>2, <2>1
  <2>7. SelectTypeOK'
    BY <1>1, <1>2, <1>4, <1>5, <2>1, <2>4, <2>6
       DEF SelectTypeOK, Candidates, Chosen, Ok
  <2>8. Backed(interval)' /\ Inside(interval)' = Inside(interval)
    BY <1>3, <1>5, <2>1 DEF Chosen
  <2>9. /\ survivors' # {} /\ survivors' \subseteq Inside(interval)
        /\ falsetickers' = Fit \ Inside(interval)
        /\ \A i \in Inside(interval) \ survivors' : ~candidates[i].prefer
    BY <1>3, <2>1, <2>5 DEF Chosen
  <2> QED
    BY <1>1, <1>2, <1>4, <1>5, <2>1, <2>6, <2>7, <2>8, <2>9
       DEF SelectIInv, LiarsCannotStop, Refused
<1>9. CASE Sort
  <2>1. /\ outcome = "clustering" /\ outcome' = "combining" /\ left' = survivors
        /\ UNCHANGED <<interval, survivors, falsetickers, sums>>
    BY <1>9 DEF Sort
  <2>2. Chosen /\ Chosen'
    BY <2>1 DEF Chosen
  <2>3. SelectTypeOK'
    BY <1>1, <1>2, <1>4, <1>5, <2>1, <2>2 DEF SelectTypeOK, Candidates, Ok
  <2>4. Backed(interval)' /\ Inside(interval)' = Inside(interval)
    BY <1>3, <1>5, <2>1, <2>2
  <2> QED
    BY <1>1, <1>3, <1>4, <1>5, <2>1, <2>2, <2>3, <2>4
       DEF SelectIInv, LiarsCannotStop, Refused
<1>10. CASE Combine
  <2> DEFINE i == Leader(left)
             d == candidates[i].distance
  <2>1. /\ outcome = "combining" /\ outcome' \in {"ok", "combining"}
        /\ outcome' = "combining" <=> left' # {}
        /\ left' = left \ {i} /\ sums' = Added(i)
        /\ UNCHANGED <<interval, survivors, falsetickers>>
    BY <1>10 DEF Combine
  <2>2. Chosen /\ Chosen'
    BY <2>1 DEF Chosen
  <2>3. i \in left
    BY <1>1, <1>2, <2>1, LeaderIs
  <2> HIDE DEF i
  <2>4. i \in Inside(interval) /\ i \in Fit
    BY <1>1, <1>3, <2>2, <2>3
  <2>5. d \in Nat \ {0} /\ Mid(i) \in Int
        /\ interval[1] <= Mid(i) /\ Mid(i) <= interval[2]
    BY <1>1, <2>4, CandidatesAre DEF Inside
  <2>6. /\ sums'.weight = sums.weight * d + sums.scale
        /\ sums'.offset = sums.offset * d + sums.scale * Mid(i)
        /\ sums'.scale = sums.scale * d
        /\ sums' = [weight |-> sums.weight * d + sums.scale,
                    offset |-> sums.offset * d + sums.scale * Mid(i),
                    scale  |-> sums.scale * d]
    BY <2>1 DEF Added
  <2> HIDE DEF d
  <2>7. /\ sums.weight \in Nat /\ sums.offset \in Int /\ sums.scale \in Nat \ {0}
    BY <1>1
  <2> DEFINE w2 == sums.weight * d + sums.scale
             o2 == sums.offset * d + sums.scale * Mid(i)
             s2 == sums.scale * d
  <2>8. /\ w2 \in Nat \ {0} /\ s2 \in Nat \ {0} /\ o2 \in Int
        /\ w2 * interval[1] <= o2 /\ o2 <= w2 * interval[2]
    <3> HIDE DEF w2, o2, s2
    <3> QED  BY <1>1, <2>5, <2>7, OneMore DEF w2, o2, s2
  <2> HIDE DEF w2, o2, s2
  <2>9. /\ sums' = [weight |-> w2, offset |-> o2, scale |-> s2]
        /\ sums'.weight = w2 /\ sums'.offset = o2
    BY <2>6 DEF w2, o2, s2
  <2>10. SelectTypeOK'
    <3>1. sums' \in [weight : Nat, offset : Int, scale : Nat \ {0}]
          /\ sums'.weight > 0
      BY <2>8, <2>9
    <3>2. left' \subseteq survivors'
      BY <1>1, <2>1
    <3> QED
      BY <1>1, <1>2, <1>4, <1>5, <2>1, <2>2, <3>1, <3>2
         DEF SelectTypeOK, Candidates, Ok
  <2>11. Backed(interval)' /\ Inside(interval)' = Inside(interval)
    BY <1>3, <1>5, <2>1, <2>2
  <2>12. sums'.weight * interval'[1] <= sums'.offset
         /\ sums'.offset <= sums'.weight * interval'[2]
    BY <2>1, <2>8, <2>9
  <2> QED
    BY <1>3, <1>4, <1>5, <2>1, <2>2, <2>10, <2>11, <2>12
       DEF SelectIInv, LiarsCannotStop, Refused
<1>11. CASE UNCHANGED selectVars
  <2>1. UNCHANGED <<candidates, outcome, interval, survivors, falsetickers, left,
                    sums>>
    BY <1>11 DEF selectVars
  <2>2. SelectTypeOK'
    BY <1>1, <1>2, <1>5, <2>1 DEF SelectTypeOK, Candidates, Chosen, Ok
  <2>3. LiarsCannotStop'
    <3>1. \A i : Low(i)' = Low(i) /\ Mid(i)' = Mid(i) /\ High(i)' = High(i)
      BY <1>4 DEF Low, Mid, High
    <3>2. LiarsCannotStop
      BY DEF SelectIInv
    <3> QED  BY <1>5, <2>1, <3>1, <3>2 DEF LiarsCannotStop, Refused
  <2>4. Chosen' => Backed(interval)' /\ Inside(interval)' = Inside(interval)
    BY <1>3, <1>5, <2>1 DEF Chosen
  <2> QED
    BY <1>1, <1>2, <1>3, <1>4, <1>5, <2>1, <2>2, <2>3, <2>4
       DEF SelectIInv, Chosen
<1> QED
  BY <1>6, <1>7, <1>8, <1>9, <1>10, <1>11 DEF SelectNext

(* The inductive invariant of a selection, for every list of candidates,   *)
(* however long, with whatever offsets and distances.                      *)
THEOREM SelectInvariance == SelectSpec => []SelectIInv
BY SelectStarts, SelectKeeps, PTL DEF SelectSpec

(* Survivors are fit and no falsetickers, clustering leaves MinSurvivors   *)
(* of what it is given if it trims any, and the average divides by         *)
(* something (select, cluster, combine).                                   *)
THEOREM SelectTypeCorrect == SelectSpec => []SelectTypeOK
<1>1. SelectIInv => SelectTypeOK
  BY DEF SelectIInv
<1> QED  BY <1>1, SelectInvariance, PTL

(* Marzullo's agreement as intersection, cluster and combine make it: more *)
(* than half of the fit stand behind what is chosen; if more than half     *)
(* tell the truth the average is within what the truthful claim; and a     *)
(* majority that agrees is always heard.                                   *)
THEOREM TheMajorityRules == SelectSpec => []MajorityRules
<1>1. ASSUME SelectIInv PROVE MajorityRules
  <2>1. /\ candidates \in Candidates
        /\ interval[1] \in Int /\ interval[2] \in Int
        /\ sums.weight \in Nat /\ sums.offset \in Int
        /\ sums.weight * interval[1] <= sums.offset
        /\ sums.offset <= sums.weight * interval[2]
    BY <1>1 DEF SelectIInv, SelectTypeOK, Candidates
  <2>2. Ok => Backed(interval) /\ falsetickers = Fit \ Inside(interval)
    BY <1>1 DEF SelectIInv, Ok, Chosen
  <2>3. MajorityAgrees
    BY <2>2 DEF MajorityAgrees, Backed
  <2>4. ASSUME Ok, NEW t \in Times, MostTruthful(t)
        PROVE  \E i, j \in Truthful(t) :
                  /\ sums.offset >= sums.weight * Low(i)
                  /\ sums.offset <= sums.weight * High(j)
    <3>1. PICK i \in Truthful(t), j \in Truthful(t) :
             Low(i) <= interval[1] /\ interval[2] <= High(j)
      BY <2>2, <2>4 DEF Backed
    <3>2. Low(i) \in Int /\ High(j) \in Int
      BY <2>1, CandidatesAre DEF Truthful
    <3>3. /\ Low(i) * sums.weight <= interval[1] * sums.weight
          /\ interval[2] * sums.weight <= High(j) * sums.weight
      BY <2>1, <3>1, <3>2, TimesKeepsOrder
    <3>4. /\ sums.weight * Low(i) \in Int /\ sums.weight * High(j) \in Int
          /\ sums.weight * interval[1] \in Int
          /\ sums.weight * interval[2] \in Int
          /\ Low(i) * sums.weight = sums.weight * Low(i)
          /\ interval[1] * sums.weight = sums.weight * interval[1]
          /\ interval[2] * sums.weight = sums.weight * interval[2]
          /\ High(j) * sums.weight = sums.weight * High(j)
      BY <2>1, <3>2
    <3> QED  BY <2>1, <3>3, <3>4
  <2>5. HonestMajorityRules
    BY <2>4 DEF HonestMajorityRules
  <2>6. LiarsCannotStop
    BY <1>1 DEF SelectIInv
  <2> QED  BY <2>3, <2>5, <2>6 DEF MajorityRules
<1> QED  BY <1>1, SelectInvariance, PTL

(* The source followed is a survivor, and a preferred one if any that was  *)
(* not outvoted is: cluster never trims it, and the sort puts it first.    *)
THEOREM ThePreferredLeads == SelectSpec => []PreferredLeads
<1>1. ASSUME SelectIInv, Ok PROVE
         /\ SystemPeer \in survivors
         /\ (\E i \in Fit \ falsetickers : candidates[i].prefer)
            => candidates[SystemPeer].prefer
  <2>1. /\ candidates \in Candidates /\ survivors \subseteq Fit
        /\ survivors # {} /\ survivors \subseteq Inside(interval)
        /\ falsetickers = Fit \ Inside(interval)
        /\ \A i \in Inside(interval) \ survivors : ~candidates[i].prefer
    BY <1>1 DEF SelectIInv, SelectTypeOK, Candidates, Chosen, Ok
  <2>2. SystemPeer \in survivors /\ \A j \in survivors : Leads(SystemPeer, j)
    BY <2>1, LeaderIs DEF SystemPeer
  <2>3. ASSUME NEW i \in Fit \ falsetickers, candidates[i].prefer
        PROVE  candidates[SystemPeer].prefer
    <3>1. i \in survivors
      BY <2>1, <2>3
    <3>2. Leads(SystemPeer, i)
      BY <2>2, <3>1
    <3>3. /\ candidates[SystemPeer].prefer \in BOOLEAN
          /\ candidates[i].prefer \in BOOLEAN
      BY <2>1, <2>2, <3>1, CandidatesAre
    <3> QED  BY <2>3, <3>2, <3>3 DEF Leads
  <2> QED  BY <2>2, <2>3
<1>2. SelectIInv => PreferredLeads
  BY <1>1 DEF PreferredLeads
<1> QED  BY <1>2, SelectInvariance, PTL

-----------------------------------------------------------------------------
(* Datagram *)

(* Induction, over a set.                                                  *)
LEMMA UpTo ==
  ASSUME NEW n \in Nat, NEW G, 0 \in G, \A k \in 0..n - 1 : k \in G => k + 1 \in G
  PROVE  0..n \subseteq G
<1> DEFINE R == {ss \in Nat \X Nat : ss[1] < ss[2]}
           T == {k \in 0..n : k \notin G}
<1>1. IsWellFoundedOn(R, Nat)
  BY NatLessThanWellFounded DEF OpToRel
<1>2. T \subseteq Nat
  OBVIOUS
<1>3. CASE T # {}
  <2> HIDE DEF R, T
  <2>1. PICK x \in T : \A y \in T : ~(<<y, x>> \in R)
    BY <1>1, <1>2, <1>3, WFMin
  <2>2. x \in 0..n /\ x \notin G /\ x # 0
    BY <2>1 DEF T
  <2>3. x - 1 \in 0..n - 1 /\ x - 1 + 1 = x
    BY <2>2
  <2>4. x - 1 \notin G
    BY <2>2, <2>3
  <2>5. x - 1 \in T
    BY <2>3, <2>4 DEF T
  <2>6. <<x - 1, x>> \in R
    BY <2>2 DEF R
  <2> QED  BY <2>1, <2>5, <2>6
<1>4. CASE T = {}
  BY <1>4
<1> QED  BY <1>3, <1>4

-----------------------------------------------------------------------------
(* Sums *)

Grows(t, lens) ==
  /\ t \in [0..Len(lens) -> Int] /\ t[0] = 0
  /\ \A k \in 1..Len(lens) : t[k] = t[k - 1] + lens[k]

(* The recursion has a solution, whatever it is that is summed.            *)
LEMMA SumsExist ==
  ASSUME NEW lens \in Seq(Int)
  PROVE  \E t : Grows(t, lens)
<1> DEFINE n == Len(lens)
           G == {m \in 0..n : \E t \in [0..m -> Int] :
                   t[0] = 0 /\ \A k \in 1..m : t[k] = t[k - 1] + lens[k]}
<1>1. n \in Nat /\ \A k \in 1..n : lens[k] \in Int
  OBVIOUS
<1>2. 0 \in G
  <2>1. PICK t : t = [k \in 0..0 |-> 0]
    OBVIOUS
  <2>2. t \in [0..0 -> Int] /\ t[0] = 0 /\ 1..0 = {}
    BY <2>1
  <2>3. 0 \in 0..n
    BY <1>1
  <2> HIDE DEF n
  <2> QED  BY <2>2, <2>3
<1>3. ASSUME NEW m \in 0..n - 1, m \in G
      PROVE  m + 1 \in G
  <2>1. PICK t \in [0..m -> Int] :
            t[0] = 0 /\ \A k \in 1..m : t[k] = t[k - 1] + lens[k]
    BY <1>3
  <2>2. m \in Nat /\ m + 1 \in 1..n
    BY <1>1
  <2> DEFINE u == [k \in 0..m + 1 |-> IF k = m + 1 THEN t[m] + lens[m + 1]
                                      ELSE t[k]]
  <2>3. u \in [0..m + 1 -> Int]
    BY <1>1, <2>1, <2>2
  <2>4. u[0] = 0
    BY <2>1, <2>2
  <2>5. ASSUME NEW k \in 1..m + 1
        PROVE  u[k] = u[k - 1] + lens[k]
    <3>1. CASE k = m + 1
      BY <2>2, <3>1
    <3>2. CASE k # m + 1
      BY <2>1, <2>2, <3>2
    <3> QED  BY <3>1, <3>2
  <2> HIDE DEF u, n
  <2>6. m + 1 \in 0..n
    BY <1>1, <2>2
  <2> QED  BY <2>3, <2>4, <2>5, <2>6
<1>4. n \in G
  <2> HIDE DEF G
  <2>1. 0..n \subseteq G
    BY <1>1, <1>2, <1>3, UpTo
  <2> QED  BY <1>1, <2>1
<1> QED  BY <1>4 DEF Grows

(* So it is what the sum is read from, and there is but one.               *)
LEMMA SumIs ==
  ASSUME NEW lens \in Seq(Int)
  PROVE  \E t : Grows(t, lens) /\ Sum(lens) = t[Len(lens)]
<1> DEFINE F(t) == [k \in 0..Len(lens) |-> IF k = 0 THEN 0 ELSE t[k - 1] + lens[k]]
<1>1. Len(lens) \in Nat /\ \A k \in 1..Len(lens) : lens[k] \in Int
  OBVIOUS
<1>2. PICK s : Grows(s, lens)
  BY SumsExist
<1>3. s = F(s)
  BY <1>1, <1>2 DEF Grows
<1>4. PICK t : t = F(t) /\ Sum(lens) = t[Len(lens)]
  BY <1>3 DEF Sum
<1>5. Grows(t, lens)
  <2>1. t[0] = 0 /\ DOMAIN t = 0..Len(lens)
    BY <1>1, <1>4
  <2>2. ASSUME NEW k \in 1..Len(lens)
        PROVE  t[k] = t[k - 1] + lens[k]
    <3>1. k \in 0..Len(lens) /\ k # 0
      BY <1>1
    <3>2. F(t)[k] = t[k - 1] + lens[k]
      BY <3>1
    <3> HIDE DEF F
    <3> QED  BY <1>4, <3>2
  <2> DEFINE G == {k \in 0..Len(lens) : t[k] \in Int}
  <2>3. 0 \in G
    BY <1>1, <2>1
  <2>4. ASSUME NEW k \in 0..Len(lens) - 1, k \in G
        PROVE  k + 1 \in G
    <3>1. k + 1 \in 1..Len(lens) /\ k + 1 - 1 = k
      BY <1>1
    <3>2. t[k + 1] = t[k] + lens[k + 1]
      BY <2>2, <3>1
    <3> QED  BY <1>1, <2>4, <3>1, <3>2
  <2>5. 0..Len(lens) \subseteq G
    <3> HIDE DEF G
    <3> QED  BY <1>1, <2>3, <2>4, UpTo
  <2>6. t = [k \in 0..Len(lens) |-> t[k]]
    BY <1>4
  <2> QED  BY <2>1, <2>2, <2>5, <2>6 DEF Grows
<1> QED  BY <1>4, <1>5

LEMMA SumIsNo ==
  ASSUME NEW lens \in Seq(Int), NEW t, Grows(t, lens)
  PROVE  Sum(lens) = t[Len(lens)] /\ Sum(lens) \in Int
<1>1. PICK s : Grows(s, lens) /\ Sum(lens) = s[Len(lens)]
  BY SumIs
<1>2. Len(lens) \in Nat /\ \A k \in 1..Len(lens) : lens[k] \in Int
  OBVIOUS
<1> DEFINE G == {k \in 0..Len(lens) : s[k] = t[k]}
<1>3. 0 \in G
  BY <1>1, <1>2 DEF Grows
<1>4. ASSUME NEW k \in 0..Len(lens) - 1, k \in G
      PROVE  k + 1 \in G
  <2>1. k + 1 \in 1..Len(lens) /\ k + 1 - 1 = k
    BY <1>2
  <2> QED  BY <1>1, <1>4, <2>1 DEF Grows
<1>5. 0..Len(lens) \subseteq G
  <2> HIDE DEF G
  <2> QED  BY <1>2, <1>3, <1>4, UpTo
<1>6. Len(lens) \in G
  <2> HIDE DEF G
  <2> QED  BY <1>2, <1>5
<1> QED  BY <1>1, <1>2, <1>6 DEF Grows

(* Two ways to count on from one another.                                  *)
Then(m, n, s, t) == [k \in 0..m + n |-> IF k <= m THEN s[k] ELSE s[m] + t[k - m]]

Follows(m, n, s, t, u) ==
  /\ u \in [0..m + n -> Int] /\ u[0] = s[0] /\ u[m + n] = s[m] + t[n]
  /\ \A k \in 1..m : u[k] = s[k] /\ u[k - 1] = s[k - 1]
  /\ \A j \in 1..n : u[m + j] = s[m] + t[j] /\ u[m + j - 1] = s[m] + t[j - 1]

LEMMA GrowsOn ==
  ASSUME NEW m \in Nat, NEW n \in Nat,
         NEW s \in [0..m -> Int], NEW t \in [0..n -> Int], t[0] = 0
  PROVE  Follows(m, n, s, t, Then(m, n, s, t))
<1> DEFINE u == Then(m, n, s, t)
<1>1. (\A k \in 0..m : s[k] \in Int) /\ (\A k \in 0..n : t[k] \in Int)
  OBVIOUS
<1>2. \A k \in 0..m : u[k] = s[k]
  BY DEF Then
<1>3. ASSUME NEW j \in 1..n
      PROVE  u[m + j] = s[m] + t[j]
  <2>1. m + j \in 0..m + n /\ ~(m + j <= m) /\ m + j - m = j
    OBVIOUS
  <2> QED  BY <2>1 DEF Then
<1>4. u[m] = s[m] + t[0]
  <2>1. m \in 0..m
    OBVIOUS
  <2>2. s[m] \in Int /\ u[m] = s[m]
    BY <1>1, <1>2, <2>1
  <2> QED  BY <2>2
<1>5. \A j \in 0..n : u[m + j] = s[m] + t[j]
  <2> SUFFICES ASSUME NEW j \in 0..n
               PROVE  u[m + j] = s[m] + t[j]
    OBVIOUS
  <2>1. CASE j = 0
    BY <1>4, <2>1
  <2>2. CASE j # 0
    BY <1>3, <2>2
  <2> QED  BY <2>1, <2>2
<1>6. ASSUME NEW k \in 0..m + n
      PROVE  u[k] \in Int
  <2>1. CASE k <= m
    <3>1. k \in 0..m
      BY <2>1
    <3> QED  BY <1>1, <1>2, <3>1
  <2>2. CASE ~(k <= m)
    <3>1. k - m \in 1..n /\ m + (k - m) = k /\ m \in 0..m /\ k - m \in 0..n
      BY <2>2
    <3>2. u[m + (k - m)] = s[m] + t[k - m]
      BY <1>3, <3>1
    <3>3. s[m] \in Int /\ t[k - m] \in Int
      BY <1>1, <3>1
    <3> QED  BY <3>1, <3>2, <3>3
  <2> QED  BY <2>1, <2>2
<1>7. u \in [0..m + n -> Int]
  <2>1. u = [k \in 0..m + n |-> u[k]]
    BY DEF Then
  <2> QED  BY <1>6, <2>1
<1>8. \A j \in 1..n : u[m + j - 1] = s[m] + t[j - 1]
  <2> SUFFICES ASSUME NEW j \in 1..n
               PROVE  u[m + j - 1] = s[m] + t[j - 1]
    OBVIOUS
  <2>1. j - 1 \in 0..n /\ m + (j - 1) = m + j - 1
    OBVIOUS
  <2>2. u[m + (j - 1)] = s[m] + t[j - 1]
    BY <1>5, <2>1
  <2> QED  BY <2>1, <2>2
<1>9. u[m + n] = s[m] + t[n]
  BY <1>5
<1>10. u[0] = s[0]
  BY <1>2
<1>11. \A k \in 1..m : u[k] = s[k] /\ u[k - 1] = s[k - 1]
  BY <1>2
<1> HIDE DEF u
<1> QED  BY <1>3, <1>7, <1>8, <1>9, <1>10, <1>11 DEF Follows, u

LEMMA SumOfBoth ==
  ASSUME NEW a \in Seq(Int), NEW b \in Seq(Int)
  PROVE  Sum(a \o b) = Sum(a) + Sum(b)
<1>1. PICK m \in Nat : m = Len(a)
  OBVIOUS
<1>2. PICK n \in Nat : n = Len(b)
  OBVIOUS
<1>3. PICK ab \in Seq(Int) : ab = a \o b
  BY ConcatProperties
<1>4. /\ Len(ab) = m + n
      /\ \A k \in 1..m + n : ab[k] = IF k <= m THEN a[k] ELSE b[k - m]
  BY <1>1, <1>2, <1>3, ConcatProperties
<1>5. /\ \A k \in 1..m : ab[k] = a[k]
      /\ \A j \in 1..n : ab[m + j] = b[j]
  <2>1. \A k \in 1..m : ab[k] = a[k]
    BY <1>4
  <2>2. ASSUME NEW j \in 1..n
        PROVE  ab[m + j] = b[j]
    <3>1. m + j \in 1..m + n /\ ~(m + j <= m) /\ m + j - m = j
      OBVIOUS
    <3> QED  BY <1>4, <3>1
  <2> QED  BY <2>1, <2>2
<1>6. \A j \in 1..n : b[j] \in Int
  BY <1>2
<1>7. PICK s : Grows(s, a) /\ Sum(a) = s[m]
  BY <1>1, SumIs
<1>8. PICK t : Grows(t, b) /\ Sum(b) = t[n]
  BY <1>2, SumIs
<1>9. PICK u : u = Then(m, n, s, t)
  OBVIOUS
<1>10. /\ s \in [0..m -> Int] /\ s[0] = 0
       /\ \A k \in 1..m : s[k] = s[k - 1] + a[k]
  BY <1>1, <1>7 DEF Grows
<1>11. /\ t \in [0..n -> Int] /\ t[0] = 0
       /\ \A k \in 1..n : t[k] = t[k - 1] + b[k]
  BY <1>2, <1>8 DEF Grows
<1>12. /\ u \in [0..m + n -> Int] /\ u[0] = s[0] /\ u[m + n] = s[m] + t[n]
       /\ \A k \in 1..m : u[k] = s[k] /\ u[k - 1] = s[k - 1]
       /\ \A j \in 1..n : /\ u[m + j] = s[m] + t[j]
                          /\ u[m + j - 1] = s[m] + t[j - 1]
  <2>1. s \in [0..m -> Int] /\ t \in [0..n -> Int] /\ t[0] = 0
    BY <1>10, <1>11
  <2>2. Follows(m, n, s, t, Then(m, n, s, t))
    BY <2>1, GrowsOn
  <2>3. Follows(m, n, s, t, u)
    BY <1>9, <2>2
  <2> QED  BY <2>3 DEF Follows
<1>13. ASSUME NEW k \in 1..m + n
       PROVE  u[k] = u[k - 1] + ab[k]
  <2>1. CASE k <= m
    <3>1. k \in 1..m
      BY <2>1
    <3> QED  BY <1>5, <1>10, <1>12, <3>1
  <2>2. CASE ~(k <= m)
    <3>1. PICK j \in 1..n : k = m + j
      <4>1. k - m \in 1..n /\ k = m + (k - m)
        BY <2>2
      <4> QED  BY <4>1
    <3>2. u[k] = s[m] + t[j] /\ u[k - 1] = s[m] + t[j - 1] /\ ab[k] = b[j]
      BY <1>5, <1>12, <3>1
    <3>3. t[j] = t[j - 1] + b[j]
      BY <1>11
    <3>4. j - 1 \in 0..n /\ m \in 0..m
      OBVIOUS
    <3>5. t[j - 1] \in Int /\ s[m] \in Int /\ b[j] \in Int
      BY <1>6, <1>10, <1>11, <3>4
    <3> QED  BY <3>2, <3>3, <3>5
  <2> QED  BY <2>1, <2>2
<1>14. Grows(u, ab)
  BY <1>4, <1>10, <1>12, <1>13 DEF Grows
<1>15. Sum(ab) = u[m + n]
  BY <1>4, <1>14, SumIsNo
<1> QED  BY <1>3, <1>7, <1>8, <1>12, <1>15

LEMMA OneMoreTimes ==
  ASSUME NEW k \in Int, NEW w \in Int
  PROVE  k * w = (k - 1) * w + w
OBVIOUS

LEMMA SumOfSame ==
  ASSUME NEW n \in Nat, NEW w \in Int
  PROVE  /\ [k \in 1..n |-> w] \in Seq(Int)
         /\ Sum([k \in 1..n |-> w]) = n * w
<1>1. PICK lens : lens = [k \in 1..n |-> w]
  OBVIOUS
<1>2. lens \in Seq(Int) /\ Len(lens) = n /\ \A k \in 1..n : lens[k] = w
  BY <1>1
<1>3. PICK t : t = [k \in 0..n |-> k * w]
  OBVIOUS
<1>4. t \in [0..n -> Int] /\ t[0] = 0 /\ t[n] = n * w
  BY <1>3
<1>5. ASSUME NEW k \in 1..n
      PROVE  t[k] = t[k - 1] + lens[k]
  <2>1. k \in 0..n /\ k - 1 \in 0..n /\ k \in Int
    OBVIOUS
  <2>2. t[k] = k * w /\ t[k - 1] = (k - 1) * w
    BY <1>3, <2>1
  <2> QED  BY <1>2, <2>1, <2>2, OneMoreTimes
<1>6. Grows(t, lens)
  BY <1>2, <1>4, <1>5 DEF Grows
<1> QED  BY <1>1, <1>2, <1>4, <1>6, SumIsNo

LEMMA SumOfOne ==
  ASSUME NEW x \in Int
  PROVE  <<x>> \in Seq(Int) /\ Sum(<<x>>) = x
<1>1. <<x>> = [k \in 1..1 |-> x]
  OBVIOUS
<1>2. 1 * x = x
  OBVIOUS
<1> QED  BY <1>1, <1>2, SumOfSame

LEMMA SumOfNone == Sum(<< >>) = 0
<1>1. << >> = [k \in 1..0 |-> 0]
  OBVIOUS
<1>2. Sum([k \in 1..0 |-> 0]) = 0 * 0
  <2>1. 0 \in Nat /\ 0 \in Int
    OBVIOUS
  <2> QED  BY <2>1, SumOfSame
<1> QED  BY <1>1, <1>2

(* Not less than any of what is added up.                                  *)
LEMMA SumHas ==
  ASSUME NEW lens \in Seq(Nat), NEW i \in 1..Len(lens)
  PROVE  Sum(lens) >= lens[i]
<1>1. PICK n \in Nat : n = Len(lens)
  OBVIOUS
<1>2. lens \in Seq(Int) /\ \A k \in 1..n : lens[k] \in Nat
  BY <1>1
<1>3. PICK t : Grows(t, lens) /\ Sum(lens) = t[n]
  BY <1>1, <1>2, SumIs
<1>4. t[0] = 0 /\ \A k \in 1..n : t[k] = t[k - 1] + lens[k]
  BY <1>1, <1>3 DEF Grows
<1> DEFINE G == {m \in 0..n : t[m] \in Nat /\ \A k \in 1..m : lens[k] <= t[m]}
<1>5. 0 \in G
  BY <1>1, <1>4
<1>6. ASSUME NEW m \in 0..n - 1, m \in G
      PROVE  m + 1 \in G
  <2>1. m + 1 \in 1..n /\ m + 1 - 1 = m
    BY <1>1
  <2>2. t[m + 1] = t[m] + lens[m + 1] /\ lens[m + 1] \in Nat
    BY <1>2, <1>4, <2>1
  <2>3. t[m] \in Nat /\ \A k \in 1..m : lens[k] <= t[m]
    BY <1>6
  <2>4. ASSUME NEW k \in 1..m + 1
        PROVE  lens[k] <= t[m + 1]
    <3>1. CASE k = m + 1
      BY <2>2, <2>3, <3>1
    <3>2. CASE k # m + 1
      <4>1. k \in 1..m /\ k \in 1..n
        BY <2>1, <3>2
      <4> QED  BY <1>2, <2>2, <2>3, <4>1
    <3> QED  BY <3>1, <3>2
  <2> QED  BY <2>1, <2>2, <2>3, <2>4
<1>7. n \in G
  <2>1. 0..n \subseteq G
    <3> HIDE DEF G
    <3> QED  BY <1>5, <1>6, UpTo
  <2> HIDE DEF G
  <2> QED  BY <2>1
<1> QED  BY <1>1, <1>3, <1>7

-----------------------------------------------------------------------------
(* Lengths *)

LEMMA Fours ==
  ASSUME NEW n \in Nat
  PROVE  \E q \in Nat : InFours(n) = 4 * q /\ n <= 4 * q /\ 4 * q <= n + 3
<1>1. (n + 3) \div 4 \in Nat
  OBVIOUS
<1> QED  BY <1>1 DEF InFours

LEMMA IsInFours ==
  ASSUME NEW n \in Nat, NEW q \in Nat, n <= 4 * q, 4 * q <= n + 3
  PROVE  InFours(n) = 4 * q
BY DEF InFours

LEMMA EncodedIs ==
  ASSUME NEW len \in Nat
  PROVE  \E q \in Nat : /\ EncodedLen(len) = 4 * q /\ 4 <= q
                        /\ 4 + len <= 4 * q /\ (q = 4 \/ 4 * q < len + 8)
<1>1. PICK q \in Nat : InFours(4 + len) = 4 * q /\ 4 + len <= 4 * q
                       /\ 4 * q <= 4 + len + 3
  BY Fours
<1>2. CASE 4 * q < 16
  BY <1>1, <1>2 DEF EncodedLen, MinField
<1>3. CASE ~(4 * q < 16)
  BY <1>1, <1>3 DEF EncodedLen, MinField
<1> QED  BY <1>2, <1>3

LEMMA IsEncoded ==
  ASSUME NEW len \in Nat, NEW q \in Nat,
         4 <= q, 4 + len <= 4 * q, q = 4 \/ 4 * q < len + 8
  PROVE  EncodedLen(len) = 4 * q
<1>1. PICK r \in Nat : /\ EncodedLen(len) = 4 * r /\ 4 <= r
                       /\ 4 + len <= 4 * r /\ (r = 4 \/ 4 * r < len + 8)
  BY EncodedIs
<1> QED  BY <1>1

(* What a field is on the wire, and the same again when its padding has    *)
(* become its value.                                                       *)
Legal == {4 * q : q \in {p \in Nat : p >= 4}}

LEMMA EncodedAgain ==
  ASSUME NEW w \in Legal
  PROVE  /\ w \in Nat /\ w >= 16 /\ w % 4 = 0
         /\ w - 4 \in Nat /\ EncodedLen(w - 4) = w
<1>1. PICK q \in Nat : w = 4 * q /\ q >= 4
  BY DEF Legal
<1>2. w - 4 \in Nat /\ 4 + (w - 4) <= 4 * q /\ 4 * q < w - 4 + 8
  BY <1>1
<1>3. EncodedLen(w - 4) = 4 * q
  BY <1>1, <1>2, IsEncoded
<1> QED  BY <1>1, <1>2, <1>3

LEMMA EncodedIsLegal ==
  ASSUME NEW len \in Nat
  PROVE  /\ EncodedLen(len) \in Legal
         /\ len <= MaxCookie => EncodedLen(len) <= 1028
<1>1. PICK q \in Nat : /\ EncodedLen(len) = 4 * q /\ 4 <= q
                       /\ 4 + len <= 4 * q /\ (q = 4 \/ 4 * q < len + 8)
  BY EncodedIs
<1> QED  BY <1>1 DEF Legal, MaxCookie

LEMMA Lengths ==
  /\ EncodedLen(UniqueIdLen) = 36 /\ EncodedLen(12) = 16
  /\ SealedLen(0) = 36 /\ EncodedLen(SealedLen(0)) = 40
  /\ \A j \in Nat : SealedLen(4 * j) = 4 * j + 36
                    /\ EncodedLen(SealedLen(4 * j)) = 4 * j + 40
<1>1. EncodedLen(32) = 4 * 9 /\ EncodedLen(12) = 4 * 4
  BY IsEncoded
<1>2. InFours(16) = 4 * 4
  BY IsInFours
<1>3. ASSUME NEW j \in Nat
      PROVE  SealedLen(4 * j) = 4 * j + 36
             /\ EncodedLen(SealedLen(4 * j)) = 4 * j + 40
  <2>1. j + 4 \in Nat /\ j + 10 \in Nat /\ 4 * j + 16 \in Nat
        /\ 4 * j + 36 \in Nat
    OBVIOUS
  <2>2. InFours(4 * j + 16) = 4 * (j + 4)
    BY <2>1, IsInFours
  <2>3. SealedLen(4 * j) = 4 * j + 36
    BY <1>2, <2>2 DEF SealedLen, NonceLen, TagLen
  <2>4. EncodedLen(4 * j + 36) = 4 * (j + 10)
    BY <2>1, IsEncoded
  <2> QED  BY <2>3, <2>4
<1>4. 0 \in Nat /\ 4 * 0 = 0
  OBVIOUS
<1> QED  BY <1>1, <1>3, <1>4 DEF UniqueIdLen

-----------------------------------------------------------------------------
(* Fields *)

Types == {"unique", "cookie", "placeholder", "authenticator", "other"}
Field == [type : Types, len : Nat, wire : Legal]

LEMMA WireOfBoth ==
  ASSUME NEW a \in Seq(Field), NEW b \in Seq(Field)
  PROVE  WireLen(a \o b) = WireLen(a) + WireLen(b) /\ WireLen(a) \in Int
<1> DEFINE Wires(f) == [k \in 1..Len(f) |-> f[k].wire]
<1>1. /\ a \o b \in Seq(Field) /\ Len(a) \in Nat /\ Len(b) \in Nat
      /\ Len(a \o b) = Len(a) + Len(b)
      /\ \A k \in 1..Len(a) + Len(b) :
            (a \o b)[k] = IF k <= Len(a) THEN a[k] ELSE b[k - Len(a)]
      /\ \A k \in 1..Len(a) : a[k] \in Field
      /\ \A k \in 1..Len(b) : b[k] \in Field
  BY ConcatProperties
<1>2. \A f \in Field : f.wire \in Int
  BY DEF Field, Legal
<1>3. Wires(a) \in Seq(Int) /\ Wires(b) \in Seq(Int)
  BY <1>1, <1>2
<1>4. Wires(a \o b) = Wires(a) \o Wires(b)
  <2>1. PICK ab : ab = a \o b
    OBVIOUS
  <2>2. Len(ab) = Len(a) + Len(b)
    BY <1>1, <2>1
  <2>3. /\ Len(Wires(a)) = Len(a) /\ Len(Wires(b)) = Len(b)
        /\ \A k \in 1..Len(a) : Wires(a)[k] = a[k].wire
        /\ \A k \in 1..Len(b) : Wires(b)[k] = b[k].wire
    BY <1>1
  <2>4. Wires(ab) \in Seq(Int) /\ Len(Wires(ab)) = Len(a) + Len(b)
        /\ \A k \in 1..Len(a) + Len(b) : Wires(ab)[k] = ab[k].wire
    BY <1>1, <1>2, <2>1, <2>2
  <2> HIDE DEF Wires
  <2>5. /\ Wires(a) \o Wires(b) \in Seq(Int)
        /\ Len(Wires(a) \o Wires(b)) = Len(a) + Len(b)
        /\ \A k \in 1..Len(a) + Len(b) :
              (Wires(a) \o Wires(b))[k] =
                 IF k <= Len(a) THEN Wires(a)[k] ELSE Wires(b)[k - Len(a)]
    <3>1. PICK wa \in Seq(Int) : wa = Wires(a)
      BY <1>3
    <3>2. PICK wb \in Seq(Int) : wb = Wires(b)
      BY <1>3
    <3>3. /\ wa \o wb \in Seq(Int) /\ Len(wa \o wb) = Len(wa) + Len(wb)
          /\ \A k \in 1..Len(wa) + Len(wb) :
                (wa \o wb)[k] = IF k <= Len(wa) THEN wa[k] ELSE wb[k - Len(wa)]
      BY ConcatProperties
    <3> QED  BY <2>3, <3>1, <3>2, <3>3
  <2>6. ASSUME NEW k \in 1..Len(a) + Len(b)
        PROVE  Wires(ab)[k] = (Wires(a) \o Wires(b))[k]
    <3>1. CASE k <= Len(a)
      <4>1. k \in 1..Len(a)
        BY <1>1, <3>1
      <4> QED  BY <1>1, <2>1, <2>3, <2>4, <2>5, <3>1, <4>1
    <3>2. CASE ~(k <= Len(a))
      <4>1. k - Len(a) \in 1..Len(b)
        BY <1>1, <3>2
      <4> QED  BY <1>1, <2>1, <2>3, <2>4, <2>5, <3>2, <4>1
    <3> QED  BY <3>1, <3>2
  <2> QED  BY <2>1, <2>4, <2>5, <2>6, SeqEqual
<1>5. WireLen(a) = Sum(Wires(a)) /\ WireLen(b) = Sum(Wires(b))
      /\ WireLen(a \o b) = Sum(Wires(a \o b))
  BY DEF WireLen
<1>6. PICK t : Grows(t, Wires(a))
  <2> HIDE DEF Wires
  <2> QED  BY <1>3, SumIs
<1>7. WireLen(a) \in Int
  <2> HIDE DEF Wires
  <2> QED  BY <1>3, <1>5, <1>6, SumIsNo
<1> HIDE DEF Wires
<1> QED  BY <1>3, <1>4, <1>5, <1>7, SumOfBoth

LEMMA WireOfOne ==
  ASSUME NEW f \in Field
  PROVE  <<f>> \in Seq(Field) /\ WireLen(<<f>>) = f.wire
<1>1. [k \in 1..Len(<<f>>) |-> <<f>>[k].wire] = <<f.wire>>
  OBVIOUS
<1>2. f.wire \in Int
  BY DEF Field, Legal
<1> QED  BY <1>1, <1>2, SumOfOne DEF WireLen

LEMMA WireOfNone == WireLen(<< >>) = 0
<1>1. [k \in 1..Len(<< >>) |-> << >>[k].wire] = << >>
  OBVIOUS
<1> QED  BY <1>1, SumOfNone DEF WireLen

LEMMA WireOfCopies ==
  ASSUME NEW f \in Field, NEW n \in Nat
  PROVE  /\ Copies(f, n) \in Seq(Field) /\ Len(Copies(f, n)) = n
         /\ WireLen(Copies(f, n)) = n * f.wire
<1>1. Copies(f, n) \in Seq(Field) /\ Len(Copies(f, n)) = n
  BY DEF Copies
<1>2. [k \in 1..Len(Copies(f, n)) |-> Copies(f, n)[k].wire]
         = [k \in 1..n |-> f.wire]
  BY <1>1 DEF Copies
<1>3. f.wire \in Int
  BY DEF Field, Legal
<1> QED  BY <1>1, <1>2, <1>3, SumOfSame DEF WireLen

LEMMA WrittenIs ==
  ASSUME NEW type \in Types, NEW len \in Nat
  PROVE  /\ Written(type, len) \in Field
         /\ Written(type, len).type = type /\ Written(type, len).len = len
         /\ Written(type, len).wire = EncodedLen(len)
BY EncodedIsLegal DEF Written, Field

LEMMA PlainIs ==
  ASSUME NEW pad \in Paddings
  PROVE  Plain(pad) \in Field /\ Plain(pad).type = "other"
<1>1. /\ Written("other", 12) \in Field /\ Written("other", 12).type = "other"
      /\ Written("other", 12).wire = 16
  BY WrittenIs, Lengths DEF Types
<1>2. 16 + pad \in Legal
  <2>1. 16 = 4 * 4 /\ 24 = 4 * 6 /\ 9016 = 4 * 2254
    OBVIOUS
  <2> QED  BY <2>1 DEF Legal, Paddings, MaxPacket
<1> QED  BY <1>1, <1>2 DEF Plain, Field

LEMMA RequestIs ==
  ASSUME NEW cookie \in Nat, NEW n \in Nat
  PROVE  /\ RequestFor(cookie, n) \in Seq(Field)
         /\ WireLen(RequestFor(cookie, n)) = 76 + (n + 1) * EncodedLen(cookie)
<1>1. PICK W \in Nat : W = EncodedLen(cookie)
  BY EncodedIsLegal DEF Legal
<1>2. PICK u \in Field : u = Written("unique", UniqueIdLen) /\ u.wire = 36
  BY WrittenIs, Lengths DEF Types, UniqueIdLen
<1>3. PICK c \in Field : c = Written("cookie", cookie) /\ c.wire = W
  BY <1>1, WrittenIs DEF Types
<1>4. PICK p \in Field : p = Placeholder(cookie) /\ p.wire = W
  BY <1>1, WrittenIs DEF Types, Placeholder
<1>5. PICK a \in Field : a = Written("authenticator", SealedLen(0)) /\ a.wire = 40
  <2>1. SealedLen(0) \in Nat
    BY Lengths
  <2> QED  BY <2>1, WrittenIs, Lengths DEF Types
<1>6. PICK ps \in Seq(Field) : ps = Copies(p, n) /\ WireLen(ps) = n * W
  BY <1>4, WireOfCopies
<1>7. <<u>> \in Seq(Field) /\ <<c>> \in Seq(Field) /\ <<a>> \in Seq(Field)
      /\ WireLen(<<u>>) = 36 /\ WireLen(<<c>>) = W /\ WireLen(<<a>>) = 40
  BY <1>2, <1>3, <1>5, WireOfOne
<1>8. <<u, c>> = <<u>> \o <<c>>
  OBVIOUS
<1>9. PICK uc \in Seq(Field) : uc = <<u, c>> /\ WireLen(uc) = 36 + W
  <2>1. <<u, c>> \in Seq(Field)
    OBVIOUS
  <2>2. WireLen(<<u>> \o <<c>>) = WireLen(<<u>>) + WireLen(<<c>>)
    BY <1>7, WireOfBoth
  <2> QED  BY <1>7, <1>8, <2>1, <2>2
<1>10. PICK ucps \in Seq(Field) : ucps = uc \o ps /\ WireLen(ucps) = 36 + W + n * W
  <2>1. uc \o ps \in Seq(Field)
    BY ConcatProperties
  <2>2. WireLen(uc \o ps) = WireLen(uc) + WireLen(ps)
    BY WireOfBoth
  <2> QED  BY <1>6, <1>9, <2>1, <2>2
<1>11. PICK one \in Seq(Field) : one = <<a>> /\ WireLen(one) = 40
  BY <1>7
<1>12. ucps \o one \in Seq(Field) /\ WireLen(ucps \o one) = WireLen(ucps) + 40
  BY <1>11, WireOfBoth, ConcatProperties
<1>13. RequestFor(cookie, n) = ucps \o one
  <2>1. RequestFor(cookie, n) = <<u, c>> \o Copies(p, n) \o <<a>>
    BY <1>2, <1>3, <1>4, <1>5 DEF RequestFor
  <2> QED  BY <1>6, <1>9, <1>10, <1>11, <2>1
<1>14. PICK nw \in Int : nw = n * W /\ (n + 1) * W = nw + W
  OBVIOUS
<1>15. WireLen(ucps \o one) = 76 + (n + 1) * W
  <2>1. WireLen(ucps \o one) = 36 + W + nw + 40
    BY <1>10, <1>12, <1>14
  <2> QED  BY <1>14, <2>1
<1> QED  BY <1>1, <1>12, <1>13, <1>15

LEMMA PairIs ==
  ASSUME NEW S, NEW x \in S, NEW y \in S
  PROVE  <<x, y>> \in Seq(S) /\ Len(<<x, y>>) = 2 /\ <<x>> \o <<y>> = <<x, y>>
<1>1. PICK a : a = <<x>>
  OBVIOUS
<1>2. PICK b : b = <<y>>
  OBVIOUS
<1>3. PICK t : t = <<x, y>>
  OBVIOUS
<1>4. a \in Seq(S) /\ Len(a) = 1 /\ a[1] = x
  BY <1>1
<1>5. b \in Seq(S) /\ Len(b) = 1 /\ b[1] = y
  BY <1>2
<1>6. t \in Seq(S) /\ Len(t) = 2 /\ t[1] = x /\ t[2] = y
  BY <1>3
<1>7. a \o b \in Seq(S) /\ Len(a \o b) = 2 /\ (a \o b)[1] = x /\ (a \o b)[2] = y
  <2>1. /\ a \o b \in Seq(S) /\ Len(a \o b) = Len(a) + Len(b)
        /\ \A i \in 1..Len(a) + Len(b) :
              (a \o b)[i] = IF i <= Len(a) THEN a[i] ELSE b[i - Len(a)]
    BY <1>4, <1>5, ConcatProperties
  <2>2. /\ Len(a) + Len(b) = 2 /\ 1 \in 1..2 /\ 2 \in 1..2
        /\ 1 <= Len(a) /\ ~(2 <= Len(a)) /\ 2 - Len(a) = 1
    BY <1>4, <1>5
  <2>3. (a \o b)[1] = a[1] /\ (a \o b)[2] = b[1]
    BY <2>1, <2>2
  <2> QED  BY <1>4, <1>5, <2>1, <2>2, <2>3
<1>8. a \o b = t
  <2>1. \A k \in 1..2 : (a \o b)[k] = t[k]
    BY <1>6, <1>7
  <2> QED  BY <1>6, <1>7, <2>1, SeqEqual
<1> QED  BY <1>1, <1>2, <1>3, <1>6, <1>8

LEMMA TripleIs ==
  ASSUME NEW S, NEW x \in S, NEW y \in S, NEW z \in S
  PROVE  /\ <<x, y, z>> \in Seq(S) /\ Len(<<x, y, z>>) = 3
         /\ <<x, y>> \o <<z>> = <<x, y, z>>
<1>1. PICK a : a = <<x, y>>
  OBVIOUS
<1>2. PICK b : b = <<z>>
  OBVIOUS
<1>3. PICK t : t = <<x, y, z>>
  OBVIOUS
<1>4. a \in Seq(S) /\ Len(a) = 2 /\ a[1] = x /\ a[2] = y
  BY <1>1
<1>5. b \in Seq(S) /\ Len(b) = 1 /\ b[1] = z
  BY <1>2
<1>6. t \in Seq(S) /\ Len(t) = 3 /\ t[1] = x /\ t[2] = y /\ t[3] = z
  BY <1>3
<1>7. /\ a \o b \in Seq(S) /\ Len(a \o b) = 3
      /\ (a \o b)[1] = x /\ (a \o b)[2] = y /\ (a \o b)[3] = z
  <2>1. /\ a \o b \in Seq(S) /\ Len(a \o b) = Len(a) + Len(b)
        /\ \A k \in 1..Len(a) + Len(b) :
              (a \o b)[k] = IF k <= Len(a) THEN a[k] ELSE b[k - Len(a)]
    BY <1>4, <1>5, ConcatProperties
  <2>2. /\ (a \o b)[1] = a[1] /\ (a \o b)[2] = a[2] /\ (a \o b)[3] = b[1]
    BY <1>4, <1>5, <2>1
  <2> QED  BY <1>4, <1>5, <2>1, <2>2
<1>8. a \o b = t
  <2>1. \A k \in 1..3 : (a \o b)[k] = t[k]
    BY <1>6, <1>7
  <2> QED  BY <1>6, <1>7, <2>1, SeqEqual
<1> QED  BY <1>1, <1>2, <1>3, <1>6, <1>8

(* One of the fields alone is the authenticator, and longer than a MAC.    *)
WellMade(fields, count) ==
  /\ fields \in Seq(Field)
  /\ Len(fields) = 2 => WireLen(fields) = 76 + count * EncodedLen(size)
  /\ Len(fields) \in {2, 3}
  /\ \E p \in 1..Len(fields) :
        /\ fields[p].wire >= 40 /\ fields[p].type = "authenticator"
        /\ \A k \in 1..Len(fields) : k # p => fields[k].type # "authenticator"

LEMMA AnswerIs ==
  ASSUME NEW count \in Nat, size \in CookieSizes,
         NEW before \in Padded, NEW after \in Padded,
         before = << >> \/ after = << >>
  PROVE  WellMade(AnswerOf(count, before, after), count)
<1> DEFINE fields == AnswerOf(count, before, after)
<1>1. PICK W \in Legal : W = EncodedLen(size)
  BY EncodedIsLegal, DatagramConstants
<1>2. PICK q \in Nat : W = 4 * q
  BY DEF Legal
<1>3. PICK j \in Nat : j = count * q /\ 4 * j = count * W
  BY <1>2
<1>4. WireLen(Sealed(count)) = 4 * j
  <2>1. size \in Nat
    BY DatagramConstants
  <2>2. PICK c \in Field : c = Written("cookie", size) /\ c.wire = W
    BY <1>1, <2>1, WrittenIs DEF Types
  <2>3. WireLen(Copies(c, count)) = count * c.wire
    BY WireOfCopies
  <2> QED  BY <1>3, <2>2, <2>3 DEF Sealed
<1>5. PICK u \in Field : /\ u = Written("unique", UniqueIdLen)
                         /\ u.wire = 36 /\ u.type = "unique"
  BY WrittenIs, Lengths DEF Types, UniqueIdLen
<1>6. PICK a \in Field : /\ a = Written("authenticator", SealedLen(WireLen(Sealed(count))))
                         /\ a.wire = 40 + 4 * j /\ a.type = "authenticator"
  <2>1. SealedLen(4 * j) \in Nat /\ EncodedLen(SealedLen(4 * j)) = 40 + 4 * j
    BY Lengths
  <2>2. PICK l \in Nat : l = SealedLen(WireLen(Sealed(count)))
                         /\ EncodedLen(l) = 40 + 4 * j
    BY <1>4, <2>1
  <2> QED  BY <2>2, WrittenIs DEF Types
<1>7. fields = <<u>> \o before \o <<a>> \o after
  BY <1>5, <1>6 DEF AnswerOf
<1>8. a.wire >= 40
  BY <1>6
<1> HIDE DEF fields, WellMade
<1>9. ASSUME NEW x \in Field, x.type = "other"
      PROVE  /\ <<u, x, a>> \in Seq(Field) /\ <<u, a, x>> \in Seq(Field)
             /\ Len(<<u, x, a>>) = 3 /\ Len(<<u, a, x>>) = 3
             /\ <<u>> \o <<x>> \o <<a>> \o << >> = <<u, x, a>>
             /\ <<u>> \o << >> \o <<a>> \o <<x>> = <<u, a, x>>
  <2>1. <<u>> \o <<x>> = <<u, x>> /\ <<u, x>> \o <<a>> = <<u, x, a>>
        /\ <<u>> \o <<a>> = <<u, a>> /\ <<u, a>> \o <<x>> = <<u, a, x>>
    BY <1>9, PairIs, TripleIs
  <2>2. /\ <<u, x, a>> \in Seq(Field) /\ <<u, a, x>> \in Seq(Field)
        /\ <<u>> \in Seq(Field)
    OBVIOUS
  <2>3. <<u>> \o << >> = <<u>> /\ <<u, x, a>> \o << >> = <<u, x, a>>
    BY <2>2, ConcatEmptySeq
  <2>4. Len(<<u, x, a>>) = 3 /\ Len(<<u, a, x>>) = 3
    OBVIOUS
  <2> QED  BY <2>1, <2>2, <2>3, <2>4
<1>10. CASE before = << >> /\ after = << >>
  <2>1. fields = <<u, a>> /\ fields \in Seq(Field) /\ Len(fields) = 2
    <3>1. <<u>> \in Seq(Field) /\ <<u, a>> \in Seq(Field) /\ Len(<<u, a>>) = 2
          /\ <<u>> \o <<a>> = <<u, a>>
      BY PairIs
    <3>2. <<u>> \o << >> = <<u>> /\ <<u, a>> \o << >> = <<u, a>>
      BY <3>1, ConcatEmptySeq
    <3> QED  BY <1>7, <1>10, <3>1, <3>2
  <2>2. WireLen(fields) = 36 + (40 + 4 * j)
    <3>1. <<u, a>> = <<u>> \o <<a>>
      BY PairIs
    <3>2. <<u>> \in Seq(Field) /\ <<a>> \in Seq(Field)
          /\ WireLen(<<u>>) = 36 /\ WireLen(<<a>>) = 40 + 4 * j
      BY <1>5, <1>6, WireOfOne
    <3>3. WireLen(<<u>> \o <<a>>) = WireLen(<<u>>) + WireLen(<<a>>)
      BY <3>2, WireOfBoth
    <3> QED  BY <2>1, <3>1, <3>2, <3>3
  <2>3. fields[1] = u /\ fields[2] = a /\ 1..2 = {1, 2}
    BY <2>1
  <2>4. \E p \in 1..2 : /\ fields[p].wire >= 40 /\ fields[p].type = "authenticator"
                        /\ \A k \in 1..2 : k # p => fields[k].type # "authenticator"
    <3> WITNESS 2 \in 1..2
    <3> QED  BY <1>5, <1>6, <1>8, <2>3
  <2>5. 36 + (40 + 4 * j) = 76 + count * EncodedLen(size)
    BY <1>1, <1>3
  <2> QED  BY <2>1, <2>2, <2>4, <2>5 DEF fields, WellMade
<1>11. CASE before # << >>
  <2>1. PICK pad \in Paddings : before = <<Plain(pad)>>
    BY <1>11 DEF Padded
  <2>2. PICK x \in Field : x = Plain(pad) /\ x.type = "other"
    BY PlainIs
  <2>3. fields = <<u, x, a>>
    BY <1>7, <1>9, <1>11, <2>1, <2>2
  <2>4. fields \in Seq(Field) /\ Len(fields) = 3
    BY <1>9, <2>2, <2>3
  <2>5. fields[1] = u /\ fields[2] = x /\ fields[3] = a
    BY <2>3
  <2>6. \E p \in 1..3 : /\ fields[p].wire >= 40 /\ fields[p].type = "authenticator"
                        /\ \A k \in 1..3 : k # p => fields[k].type # "authenticator"
    <3> WITNESS 3 \in 1..3
    <3> QED  BY <1>5, <1>6, <1>8, <2>2, <2>5
  <2> QED  BY <2>4, <2>6 DEF fields, WellMade
<1>12. CASE after # << >>
  <2>1. PICK pad \in Paddings : after = <<Plain(pad)>>
    BY <1>12 DEF Padded
  <2>2. PICK x \in Field : x = Plain(pad) /\ x.type = "other"
    BY PlainIs
  <2>3. fields = <<u, a, x>>
    BY <1>7, <1>9, <1>12, <2>1, <2>2
  <2>4. fields \in Seq(Field) /\ Len(fields) = 3
    BY <1>9, <2>2, <2>3
  <2>5. fields[1] = u /\ fields[2] = a /\ fields[3] = x
    BY <2>3
  <2>6. \E p \in 1..3 : /\ fields[p].wire >= 40 /\ fields[p].type = "authenticator"
                        /\ \A k \in 1..3 : k # p => fields[k].type # "authenticator"
    <3> WITNESS 2 \in 1..3
    <3> QED  BY <1>5, <1>6, <1>8, <2>2, <2>5
  <2> QED  BY <2>4, <2>6 DEF fields, WellMade
<1> QED  BY <1>10, <1>11, <1>12

(* Where decoding stops.                                                   *)
LEMMA DecodedIs ==
  ASSUME NEW fields \in Seq(Field), NEW tail \in MacSizes
  PROVE  \E m \in Stops(fields, tail) :
            /\ \A k \in Stops(fields, tail) : m <= k
            /\ m \in 0..Len(fields)
            /\ Decoded(fields, tail) = SubSeq(fields, 1, m)
<1> DEFINE S == Stops(fields, tail)
           R == {ss \in Nat \X Nat : ss[1] < ss[2]}
<1>1. Len(fields) \in Nat /\ S \subseteq 0..Len(fields)
  BY DEF Stops
<1>2. S # {}
  <2>1. PICK n \in Nat : n = Len(fields)
    BY <1>1
  <2>2. SubSeq(fields, n + 1, n) = << >>
    BY <2>1
  <2>3. WireLen(SubSeq(fields, n + 1, n)) + tail \in MacSizes
    <3>1. tail \in Int /\ tail = 0 + tail
      BY DEF MacSizes
    <3> QED  BY <2>2, <3>1, WireOfNone
  <2> QED  BY <2>1, <2>3 DEF Stops
<1> HIDE DEF S
<1>3. \E m \in S : \A k \in S : m <= k
  <2>1. IsWellFoundedOn(R, Nat)
    BY NatLessThanWellFounded DEF OpToRel
  <2>2. S \subseteq Nat
    BY <1>1
  <2>3. PICK x \in S : \A y \in S : ~(<<y, x>> \in R)
    <3> HIDE DEF R
    <3> QED  BY <1>2, <2>1, <2>2, WFMin
  <2>4. ASSUME NEW y \in S
        PROVE  x <= y
    <3>1. x \in Nat /\ y \in Nat
      BY <2>2
    <3>2. ~(y < x)
      BY <2>3, <2>4, <3>1
    <3> QED  BY <3>1, <3>2
  <2> HIDE DEF R
  <2> QED  BY <2>4
<1>4. PICK m : m = CHOOSE k \in S : \A j \in S : k <= j
  OBVIOUS
<1>5. m \in S /\ \A k \in S : m <= k
  BY <1>3, <1>4
<1>6. Decoded(fields, tail) = SubSeq(fields, 1, m)
  BY <1>4 DEF Decoded, S
<1> QED  BY <1>1, <1>5, <1>6 DEF S

LEMMA PartOf ==
  ASSUME NEW S, NEW s \in Seq(S), NEW m \in 1..Len(s) + 1, NEW n \in 0..Len(s)
  PROVE  /\ SubSeq(s, m, n) \in Seq(S)
         /\ Len(SubSeq(s, m, n)) = IF m <= n THEN n - m + 1 ELSE 0
         /\ \A k \in 1..n - m + 1 : SubSeq(s, m, n)[k] = s[m + k - 1]
<1>1. Len(s) \in Nat /\ \A i \in m..n : s[i] \in S
  BY ElementOfSeq
<1>2. m \in Int /\ n \in Int
  BY <1>1
<1> QED  BY <1>1, <1>2, SubSeqProperties

(* A reply of whatever fields, one of them alone an authenticator and      *)
(* longer than a MAC, is read up to it, and it starts where the lengths of *)
(* what was read before it say.                                            *)
LEMMA ReadsBack ==
  ASSUME NEW fields \in Seq(Field), NEW tail \in MacSizes,
         NEW p \in 1..Len(fields),
         fields[p].wire >= 40, fields[p].type = "authenticator",
         \A k \in 1..Len(fields) : k # p => fields[k].type # "authenticator"
  PROVE  /\ Authenticator(Decoded(fields, tail)) # {}
         /\ Offset(Decoded(fields, tail)) = TrueOffset(fields)
<1>1. PICK n \in Nat : n = Len(fields)
  OBVIOUS
<1>2. PICK m \in Stops(fields, tail) :
         m \in 0..n /\ Decoded(fields, tail) = SubSeq(fields, 1, m)
  BY <1>1, DecodedIs
<1>3. p <= m
  <2> SUFFICES ASSUME m < p
               PROVE  FALSE
    BY <1>1, <1>2
  <2>1. PICK rest : rest = SubSeq(fields, m + 1, n)
    OBVIOUS
  <2>2. m + 1 \in 1..Len(fields) + 1 /\ n \in 0..Len(fields) /\ m + 1 <= n
        /\ p - m \in 1..n - m /\ m + 1 + (p - m) - 1 = p
    BY <1>1, <1>2
  <2>3. /\ rest \in Seq(Field) /\ Len(rest) = n - m
        /\ rest[p - m] = fields[p]
    <3>1. n - (m + 1) + 1 = n - m
      BY <1>1, <1>2
    <3> QED  BY <2>1, <2>2, <3>1, PartOf
  <2>4. PICK wires : wires = [k \in 1..Len(rest) |-> rest[k].wire]
    OBVIOUS
  <2>5. wires \in Seq(Nat) /\ Len(wires) = n - m /\ wires[p - m] = fields[p].wire
    <3>1. PICK l \in Nat : l = n - m
      BY <1>1, <1>2
    <3>2. \A k \in 1..l : rest[k] \in Field
      BY <2>3, <3>1, ElementOfSeq
    <3>3. \A f \in Field : f.wire \in Nat
      BY DEF Field, Legal
    <3>4. wires = [k \in 1..l |-> rest[k].wire]
      BY <2>3, <2>4, <3>1
    <3>5. wires \in Seq(Nat) /\ Len(wires) = l
      BY <3>2, <3>3, <3>4
    <3>6. p - m \in 1..l
      BY <2>2, <3>1
    <3>7. wires[p - m] = rest[p - m].wire
      BY <3>4, <3>6
    <3> QED  BY <2>3, <3>1, <3>5, <3>7
  <2>6. Sum(wires) >= fields[p].wire
    BY <2>2, <2>5, SumHas
  <2>7. WireLen(rest) = Sum(wires) /\ WireLen(rest) \in Int
    BY <2>3, <2>4, WireOfBoth DEF WireLen
  <2>8. WireLen(rest) + tail \in MacSizes
    BY <1>1, <1>2, <2>1 DEF Stops
  <2>9. fields[p].wire \in Nat
    <3>1. fields[p] \in Field
      BY ElementOfSeq
    <3> QED  BY <3>1 DEF Field, Legal
  <2> QED  BY <2>6, <2>7, <2>8, <2>9 DEF MacSizes
<1>4. PICK d : d = Decoded(fields, tail)
  OBVIOUS
<1>5. /\ d \in Seq(Field) /\ Len(d) = m /\ DOMAIN d = 1..m
      /\ \A k \in 1..m : d[k] = fields[k]
  <2>1. /\ d \in Seq(Field) /\ Len(d) = IF 1 <= m THEN m - 1 + 1 ELSE 0
        /\ \A k \in 1..m - 1 + 1 : d[k] = fields[1 + k - 1]
    BY <1>1, <1>2, <1>4, PartOf
  <2> QED  BY <1>2, <2>1
<1>6. Authenticator(d) = {p} /\ Authenticator(fields) = {p}
  BY <1>1, <1>2, <1>3, <1>5 DEF Authenticator
<1>7. First(d) = p /\ First(fields) = p
  BY <1>6 DEF First
<1>8. Sum([k \in 1..First(d) - 1 |-> EncodedLen(ValueLen(d[k]))])
         = WireLen(SubSeq(fields, 1, First(fields) - 1))
  <2>1. PICK b : b = SubSeq(fields, 1, p - 1)
    OBVIOUS
  <2>2. Len(b) = p - 1 /\ \A k \in 1..p - 1 : b[k] = fields[k]
    <3>1. p - 1 \in 0..Len(fields)
      OBVIOUS
    <3>2. /\ Len(b) = IF 1 <= p - 1 THEN p - 1 - 1 + 1 ELSE 0
          /\ \A k \in 1..p - 1 - 1 + 1 : b[k] = fields[1 + k - 1]
      BY <2>1, <3>1, PartOf
    <3> QED  BY <3>1, <3>2
  <2>3. ASSUME NEW k \in 1..p - 1
        PROVE  EncodedLen(ValueLen(d[k])) = b[k].wire
    <3>1. k \in 1..m /\ k \in 1..n
      BY <1>1, <1>2, <1>3
    <3>2. d[k] \in Field /\ d[k] = b[k]
      BY <1>5, <2>2, <3>1
    <3>3. d[k].wire \in Legal
      BY <3>2 DEF Field
    <3> QED  BY <3>2, <3>3, EncodedAgain DEF ValueLen
  <2>4. [k \in 1..p - 1 |-> EncodedLen(ValueLen(d[k]))]
           = [k \in 1..Len(b) |-> b[k].wire]
    BY <2>2, <2>3
  <2> QED  BY <1>7, <2>1, <2>4 DEF WireLen
<1>9. Authenticator(d) # {} /\ Offset(d) = TrueOffset(fields)
  BY <1>6, <1>8 DEF Offset, TrueOffset
<1> QED  BY <1>4, <1>9

(* What is read of as many fields alike: all, or all but the last.         *)
LEMMA CopiesAreRead ==
  ASSUME NEW f \in Field, NEW n \in Nat
  PROVE  \E m \in 0..n :
            /\ Decoded(Copies(f, n), 0) = Copies(f, m)
            /\ n - 1 <= m
            /\ f.wire \notin {20, 24} => m = n
<1>1. PICK c \in Seq(Field) : /\ c = Copies(f, n) /\ Len(c) = n
                              /\ \A k \in 1..n : c[k] = f
  <2>1. \A k \in 1..n : Copies(f, n)[k] = f
    BY DEF Copies
  <2> QED  BY <2>1, WireOfCopies
<1>2. PICK m \in Stops(c, 0) : m \in 0..n /\ Decoded(c, 0) = SubSeq(c, 1, m)
  <2>1. 0 \in MacSizes
    BY DEF MacSizes
  <2> QED  BY <1>1, <2>1, DecodedIs
<1>3. SubSeq(c, 1, m) = Copies(f, m)
  <2>1. PICK d : d = SubSeq(c, 1, m)
    OBVIOUS
  <2>2. /\ d \in Seq(Field) /\ Len(d) = IF 1 <= m THEN m - 1 + 1 ELSE 0
        /\ \A k \in 1..m - 1 + 1 : d[k] = c[1 + k - 1]
    BY <1>1, <1>2, <2>1, PartOf
  <2>3. Len(d) = m /\ \A k \in 1..m : d[k] = f
    BY <1>1, <1>2, <2>2
  <2>4. d = [k \in 1..m |-> d[k]]
    BY <2>2, <2>3
  <2> QED  BY <2>1, <2>3, <2>4 DEF Copies
<1>4. SubSeq(c, m + 1, n) = Copies(f, n - m)
  <2>1. PICK d : d = SubSeq(c, m + 1, n)
    OBVIOUS
  <2>2. /\ d \in Seq(Field)
        /\ Len(d) = IF m + 1 <= n THEN n - (m + 1) + 1 ELSE 0
        /\ \A k \in 1..n - (m + 1) + 1 : d[k] = c[m + 1 + k - 1]
    BY <1>1, <1>2, <2>1, PartOf
  <2>3. Len(d) = n - m /\ \A k \in 1..n - m : d[k] = c[m + k]
    <3>1. n - (m + 1) + 1 = n - m
      BY <1>2
    <3>2. Len(d) = n - m
      BY <1>2, <2>2
    <3>3. ASSUME NEW k \in 1..n - m
          PROVE  d[k] = c[m + k]
      <4>1. m + 1 + k - 1 = m + k
        BY <1>2
      <4> QED  BY <2>2, <3>1, <4>1
    <3> QED  BY <3>2, <3>3
  <2>4. \A k \in 1..n - m : d[k] = f
    BY <1>1, <1>2, <2>3
  <2>5. d = [k \in 1..n - m |-> d[k]]
    BY <2>2, <2>3
  <2> QED  BY <2>1, <2>4, <2>5 DEF Copies
<1>5. PICK w \in Nat : w = f.wire /\ w >= 16
  BY EncodedAgain DEF Field
<1>6. PICK j \in Nat : j = n - m
  BY <1>2
<1>7. j * w + 0 \in {0, 4, 20, 24}
  BY <1>1, <1>2, <1>4, <1>5, <1>6, WireOfCopies DEF Stops, MacSizes
<1>8. j = 0 \/ (j = 1 /\ w \in {20, 24})
  <2>1. CASE j >= 2
    <3>1. j * w >= 2 * w
      BY <2>1
    <3>2. j * w \in Int
      OBVIOUS
    <3> QED  BY <1>5, <1>7, <3>1, <3>2
  <2>2. CASE j = 1
    BY <1>5, <1>7, <2>2
  <2> QED  BY <2>1, <2>2
<1>9. Decoded(Copies(f, n), 0) = Copies(f, m)
  BY <1>1, <1>2, <1>3
<1>10. n - 1 <= m /\ (w \notin {20, 24} => m = n)
  BY <1>2, <1>6, <1>8
<1> QED  BY <1>2, <1>5, <1>9, <1>10

LEMMA CopiesAreKept ==
  ASSUME NEW f \in Field, NEW m \in Nat, ValueLen(f) \in 1..MaxCookie
  PROVE  Kept(Copies(f, m)) = Copies(ValueLen(f), m)
<1>1. PICK x \in 1..MaxCookie : x = ValueLen(f)
  OBVIOUS
<1>2. PICK c : c = Copies(f, m)
  OBVIOUS
<1>3. Len(c) = m /\ \A k \in 1..m : c[k] = f
  BY <1>2, WireOfCopies DEF Copies
<1> DEFINE F(t) ==
      [k \in 0..Len(c) |->
         IF k = 0 THEN << >>
         ELSE IF ValueLen(c[k]) \in 1..MaxCookie
         THEN Append(t[k - 1], ValueLen(c[k])) ELSE t[k - 1]]
<1>4. ASSUME NEW k \in 1..m
      PROVE  Append(Copies(x, k - 1), x) = Copies(x, k)
  <2>1. Copies(x, k - 1) \in Seq(Int) /\ Len(Copies(x, k - 1)) = k - 1
        /\ \A i \in 1..k - 1 : Copies(x, k - 1)[i] = x
    BY DEF Copies, MaxCookie
  <2>2. PICK a : a = Append(Copies(x, k - 1), x)
    OBVIOUS
  <2>3. a \in Seq(Int) /\ Len(a) = k /\ \A i \in 1..k : a[i] = x
    <3>1. PICK b \in Seq(Int) : b = Copies(x, k - 1)
      BY <2>1
    <3>2. x \in Int
      BY DEF MaxCookie
    <3>3. /\ Append(b, x) \in Seq(Int) /\ Len(Append(b, x)) = Len(b) + 1
          /\ \A i \in 1..Len(b) : Append(b, x)[i] = b[i]
          /\ Append(b, x)[Len(b) + 1] = x
      BY <3>2, AppendProperties
    <3>4. Len(b) = k - 1 /\ \A i \in 1..k - 1 : b[i] = x
      BY <2>1, <3>1
    <3>5. a = Append(b, x)
      BY <2>2, <3>1
    <3>6. ASSUME NEW i \in 1..k
          PROVE  a[i] = x
      <4>1. i \in 1..k - 1 \/ i = k
        OBVIOUS
      <4> QED  BY <3>3, <3>4, <3>5, <4>1
    <3> QED  BY <3>3, <3>4, <3>5, <3>6
  <2>4. a = [i \in 1..k |-> a[i]]
    BY <2>3
  <2> QED  BY <2>2, <2>3, <2>4 DEF Copies
<1>5. Copies(x, 0) = << >>
  BY DEF Copies
<1>6. \E t : t = F(t)
  <2>1. PICK s : s = [k \in 0..m |-> Copies(x, k)]
    OBVIOUS
  <2>2. s = F(s)
    BY <1>1, <1>3, <1>4, <1>5, <2>1
  <2> QED  BY <2>2
<1>7. PICK t : t = F(t) /\ Kept(c) = t[m]
  BY <1>3, <1>6 DEF Kept
<1> DEFINE G == {k \in 0..m : t[k] = Copies(x, k)}
<1>8. 0 \in G
  BY <1>3, <1>5, <1>7
<1>9. ASSUME NEW k \in 0..m - 1, k \in G
      PROVE  k + 1 \in G
  <2>1. PICK j \in 1..m : j = k + 1 /\ j - 1 = k
    OBVIOUS
  <2>2. j \in 0..Len(c) /\ j # 0 /\ ValueLen(c[j]) = x
    BY <1>1, <1>3
  <2>3. t[j] = Append(t[j - 1], x)
    <3>1. t[j] = IF ValueLen(c[j]) \in 1..MaxCookie
                 THEN Append(t[j - 1], ValueLen(c[j])) ELSE t[j - 1]
      BY <1>7, <2>2
    <3> QED  BY <2>2, <3>1
  <2>4. Append(Copies(x, k), x) = Copies(x, j)
    BY <1>4, <2>1
  <2>5. j \in 0..m
    OBVIOUS
  <2> QED  BY <1>9, <2>1, <2>3, <2>4, <2>5
<1>10. m \in G
  <2>1. 0..m \subseteq G
    <3> HIDE DEF G
    <3> QED  BY <1>8, <1>9, UpTo
  <2> HIDE DEF G
  <2> QED  BY <2>1
<1> QED  BY <1>1, <1>2, <1>7, <1>10

-----------------------------------------------------------------------------
(* Theorems *)

LEMMA PaysFor ==
  ASSUME NEW w \in Nat, NEW k \in Nat, NEW n \in Nat, k <= n
  PROVE  k * w <= n * w
<1>1. PICK d \in Nat : n = k + d
  <2>1. n - k \in Nat /\ n = k + (n - k)
    OBVIOUS
  <2> QED  BY <2>1
<1>2. n * w = k * w + d * w /\ d * w \in Nat /\ k * w \in Nat
  BY <1>1
<1> QED  BY <1>2

(* What the requests and the answers are, all there is to prove follows    *)
(* from.                                                                   *)
LEMMA DatagramSizes ==
  DatagramIInv => DatagramTypeOK /\ NoAmplification /\ AnswersVerify
<1> SUFFICES ASSUME DatagramIInv
             PROVE  DatagramTypeOK /\ NoAmplification /\ AnswersVerify
  OBVIOUS
<1>0. /\ size \in CookieSizes
      /\ held \in Seq(1..MaxCookie) /\ Len(held) <= Target
      /\ took \in Seq(1..MaxCookie)
      /\ request # << >> => Asked
      /\ reply # NoReply => Answered
  BY DEF DatagramIInv
<1>1. PICK W \in Nat : W = EncodedLen(size) /\ W <= 1028
  <2>1. size \in Nat /\ size <= MaxCookie
    BY <1>0, DatagramConstants DEF MaxCookie
  <2> QED  BY <2>1, EncodedIsLegal DEF Legal
<1>2. PICK room \in 0..8 : room = Target - Len(held)
  BY <1>0, DatagramConstants
<1>3. room * W <= 8 * 1028
  <2>1. room * W <= 8 * W
    BY PaysFor
  <2> QED  BY <1>1, <2>1
<1>4. CASE request = << >>
  <2>1. Total(request, 0) <= MaxPacket
    BY <1>4, WireOfNone DEF Total, HeaderLen, MaxPacket
  <2>2. ToSet(request) = {}
    BY <1>4 DEF ToSet
  <2>3. reply = NoReply /\ reply.brings = 0
    BY <1>0, <1>4 DEF Answered, NoReply
  <2> QED  BY <1>0, <1>2, <2>1, <2>2, <2>3
           DEF DatagramTypeOK, NoAmplification, AnswersVerify
<1>5. CASE request # << >>
  <2>1. /\ request \in Seq(Field) /\ Total(request, 0) = 124 + room * W
    <3>1. PICK cookie \in 1..MaxCookie :
             /\ EncodedLen(cookie) = W /\ Len(held) < Target
             /\ request = RequestFor(cookie, Target - Len(held) - 1)
      BY <1>0, <1>1, <1>5 DEF Asked
    <3>2. PICK missing \in Nat : missing = Target - Len(held) - 1 /\ missing + 1 = room
      <4>1. Target - Len(held) - 1 \in Nat /\ Target - Len(held) - 1 + 1 = room
        <5>1. Len(held) \in Nat /\ Target \in Nat
          BY <1>0, DatagramConstants
        <5> QED  BY <1>2, <3>1, <5>1
      <4> QED  BY <4>1
    <3>3. cookie \in Nat
      OBVIOUS
    <3>4. request \in Seq(Field) /\ WireLen(request) = 76 + (missing + 1) * W
      BY <3>1, <3>2, <3>3, RequestIs
    <3>5. room * W \in Int
      OBVIOUS
    <3> QED  BY <3>2, <3>4, <3>5 DEF Total, HeaderLen
  <2>2. \A f \in ToSet(request) : f.wire % 4 = 0 /\ f.wire >= MinField
    <3>1. \A f \in ToSet(request) : f \in Field
      BY <2>1 DEF ToSet
    <3>2. \A f \in Field : f.wire \in Legal
      BY DEF Field
    <3> QED  BY <3>1, <3>2, EncodedAgain DEF MinField
  <2>3. Total(request, 0) <= MaxPacket
    BY <1>3, <2>1 DEF MaxPacket
  <2>4. CASE reply = NoReply
    <3>1. reply.brings = 0
      BY <2>4 DEF NoReply
    <3> QED  BY <1>0, <1>2, <2>2, <2>3, <2>4, <3>1
             DEF DatagramTypeOK, NoAmplification, AnswersVerify
  <2>5. CASE reply # NoReply
    <3>1. Answered
      BY <1>0, <2>5
    <3>2. PICK before \in Padded, after \in Padded :
             /\ before = << >> \/ after = << >>
             /\ reply.fields = AnswerOf(reply.brings, before, after)
      BY <3>1 DEF Answered
    <3>3. PICK count \in 0..room : count = reply.brings
      BY <1>2, <3>1 DEF Answered
    <3>4. PICK fields : fields = reply.fields
      OBVIOUS
    <3>5. PICK tail \in MacSizes : tail = reply.tail
      BY <3>1 DEF Answered
    <3>6. WellMade(fields, count)
      <4>1. count \in Nat
        BY <1>2
      <4>2. WellMade(AnswerOf(count, before, after), count)
        BY <1>0, <3>2, <4>1, AnswerIs
      <4> QED  BY <3>2, <3>3, <3>4, <4>2
    <3>7. count * W <= room * W /\ count * W \in Int /\ room * W \in Int
      BY PaysFor
    <3>8. NoAmplification
      <4>1. CASE Len(fields) = 2
        <5>1. Total(fields, 0) = 124 + count * W
          <6>1. WireLen(fields) = 76 + count * W
            BY <1>1, <3>6, <4>1 DEF WellMade
          <6> QED  BY <3>7, <6>1 DEF Total, HeaderLen
        <5> QED  BY <2>1, <3>4, <3>7, <5>1 DEF NoAmplification
      <4>2. CASE Len(fields) # 2
        BY <3>4, <4>2 DEF NoAmplification
      <4> QED  BY <4>1, <4>2
    <3>9. Authenticator(Decoded(fields, tail)) # {}
          /\ Offset(Decoded(fields, tail)) = TrueOffset(fields)
      BY <3>6, ReadsBack DEF WellMade
    <3>10. AnswersVerify
      <4>1. CASE Total(fields, tail) <= MaxPacket
        BY <3>4, <3>5, <3>9, <4>1 DEF AnswersVerify, Verifies
      <4>2. CASE ~(Total(fields, tail) <= MaxPacket)
        <5>1. PICK l \in Int : l = WireLen(fields)
          BY <3>6, WireOfBoth DEF WellMade
        <5>2. PICK cw \in Int : cw = count * W /\ cw <= 8 * 1028
          BY <1>3, <3>7
        <5>3. tail \in Int /\ tail <= 24
          BY DEF MacSizes
        <5>4. l = 76 + cw => 48 + l + tail <= 9000
          BY <5>2, <5>3
        <5>5. Total(fields, tail) = 48 + l + tail
          BY <5>1 DEF Total, HeaderLen
        <5>6. Total(fields, tail) > MaxPacket
          BY <4>2, <5>3, <5>5 DEF MaxPacket
        <5>7. Len(fields) # 2
          BY <1>1, <3>6, <4>2, <5>1, <5>2, <5>4, <5>5 DEF MaxPacket, WellMade
        <5>8. Len(fields) > 2
          <6>1. Len(fields) \in {2, 3}
            BY <3>6 DEF WellMade
          <6>2. Len(fields) = 3
            BY <5>7, <6>1
          <6> QED  BY <6>2
        <5> QED  BY <3>4, <3>5, <5>6, <5>8 DEF AnswersVerify
      <4> QED  BY <4>1, <4>2
    <3> QED  BY <1>0, <1>2, <2>2, <2>3, <3>3, <3>8, <3>10 DEF DatagramTypeOK
  <2> QED  BY <2>4, <2>5
<1> QED  BY <1>4, <1>5

(* The cookies of an answer, as accept takes them.                         *)
LEMMA FreshOnes ==
  ASSUME size \in CookieSizes, NEW count \in Nat
  PROVE  \E m \in 0..count :
            /\ Kept(Decoded(Sealed(count), 0)) = Copies(EncodedLen(size) - 4, m)
            /\ count - 1 <= m
            /\ EncodedLen(size) \notin {20, 24} => m = count
            /\ EncodedLen(size) - 4 \in 1..MaxCookie
            /\ EncodedLen(EncodedLen(size) - 4) = EncodedLen(size)
<1>1. size \in Nat /\ size <= MaxCookie
  BY DatagramConstants DEF MaxCookie
<1>2. PICK c \in Field : c = Written("cookie", size) /\ c.wire = EncodedLen(size)
  BY <1>1, WrittenIs DEF Types
<1>3. EncodedLen(size) \in Legal /\ EncodedLen(size) <= 1028
  BY <1>1, EncodedIsLegal
<1>4. EncodedLen(size) \in Nat /\ EncodedLen(size) >= 16
      /\ EncodedLen(EncodedLen(size) - 4) = EncodedLen(size)
  BY <1>3, EncodedAgain
<1>5. EncodedLen(size) - 4 \in 1..MaxCookie
  BY <1>3, <1>4 DEF MaxCookie
<1>6. ValueLen(c) = EncodedLen(size) - 4
  BY <1>2 DEF ValueLen
<1>7. PICK m \in 0..count : /\ Decoded(Copies(c, count), 0) = Copies(c, m)
                            /\ count - 1 <= m
                            /\ c.wire \notin {20, 24} => m = count
  BY CopiesAreRead
<1>8. Kept(Copies(c, m)) = Copies(ValueLen(c), m)
  BY <1>5, <1>6, CopiesAreKept
<1> QED  BY <1>2, <1>4, <1>5, <1>6, <1>7, <1>8 DEF Sealed

LEMMA CopiesOf ==
  ASSUME NEW S, NEW x \in S, NEW n \in Nat
  PROVE  /\ Copies(x, n) \in Seq(S) /\ Len(Copies(x, n)) = n
         /\ \A k \in 1..n : Copies(x, n)[k] = x
BY DEF Copies

(* accept: what is in an answer, and what is taken into the store.         *)
LEMMA WhatAccepts ==
  ASSUME DatagramIInv, Accepts
  PROVE  /\ held' \in Seq(1..MaxCookie) /\ Len(held') <= Target
         /\ took' \in Seq(1..MaxCookie)
         /\ \A k \in DOMAIN held' : EncodedLen(held'[k]) = EncodedLen(size)
         /\ CookiesCome
<1>1. /\ size \in CookieSizes
      /\ held \in Seq(1..MaxCookie) /\ Len(held) <= Target
      /\ \A k \in DOMAIN held : EncodedLen(held[k]) = EncodedLen(size)
      /\ Answered
  BY DEF DatagramIInv, Accepts
<1>2. PICK n \in Nat : n = Len(held)
  BY <1>1
<1>3. n <= Target /\ Target \in Nat
  BY <1>1, <1>2, DatagramConstants
<1>4. PICK count \in 0..Target - n : count = reply.brings /\ reply.inside = Sealed(count)
  BY <1>1, <1>2 DEF Answered
<1>5. PICK w : w = EncodedLen(size) - 4
  OBVIOUS
<1>6. PICK m \in 0..count :
         /\ Kept(Decoded(Sealed(count), 0)) = Copies(w, m)
         /\ count - 1 <= m
         /\ EncodedLen(size) \notin {20, 24} => m = count
         /\ w \in 1..MaxCookie /\ EncodedLen(w) = EncodedLen(size)
  <2>1. count \in Nat
    BY <1>3
  <2> QED  BY <1>1, <1>5, <2>1, FreshOnes
<1>7. PICK fresh \in Seq(1..MaxCookie) :
         fresh = Copies(w, m) /\ Len(fresh) = m /\ \A k \in 1..m : fresh[k] = w
  <2>1. m \in Nat
    BY <1>3
  <2> QED  BY <1>6, <2>1, CopiesOf
<1>8. /\ took' = fresh
      /\ held' = held \o SubSeq(fresh, 1, IF Len(fresh) < Target - Len(held)
                                          THEN Len(fresh) ELSE Target - Len(held))
  BY <1>4, <1>6, <1>7 DEF Accepts
<1>9. (IF Len(fresh) < Target - Len(held) THEN Len(fresh) ELSE Target - Len(held)) = m
  BY <1>2, <1>3, <1>7
<1>10. SubSeq(fresh, 1, m) = fresh
  BY <1>3, <1>7, SubSeqFull
<1>11. held' = held \o fresh
  BY <1>8, <1>9, <1>10
<1>12. PICK h : h = held \o fresh
  OBVIOUS
<1>13. /\ h \in Seq(1..MaxCookie) /\ Len(h) = n + m
       /\ \A k \in 1..n + m : h[k] = IF k <= n THEN held[k] ELSE fresh[k - n]
  BY <1>1, <1>2, <1>7, <1>12, ConcatProperties
<1>14. ASSUME NEW k \in 1..n + m
       PROVE  EncodedLen(h[k]) = EncodedLen(size)
  <2>1. CASE k <= n
    <3>1. k \in DOMAIN held
      BY <1>1, <1>2, <2>1
    <3> QED  BY <1>1, <1>13, <2>1, <3>1
  <2>2. CASE ~(k <= n)
    <3>1. k - n \in 1..m
      BY <1>3, <2>2
    <3>2. h[k] = w
      BY <1>7, <1>13, <2>2, <3>1
    <3> QED  BY <1>6, <3>2
  <2> QED  BY <2>1, <2>2
<1>15. DOMAIN h = 1..n + m /\ Len(h) <= Target
  BY <1>3, <1>13
<1>16. reply.brings = Target - Len(held) => Len(held') >= Target - 1
  BY <1>2, <1>3, <1>4, <1>6, <1>11, <1>12, <1>13
<1>17. EncodedLen(size) \notin {20, 24} => Len(took') = reply.brings
  BY <1>4, <1>6, <1>7, <1>8
<1>18. EncodedLen(size) \notin {20, 24} /\ EncodedLen(size) = 4 + size
          => took' = Copies(size, reply.brings)
  <2>1. EncodedLen(size) = 4 + size => w = size
    <3>1. size \in Int
      BY <1>1, DatagramConstants
    <3> QED  BY <1>5, <3>1
  <2> QED  BY <1>4, <1>6, <1>7, <1>8, <2>1
<1>19. CookiesCome
  BY <1>16, <1>17, <1>18 DEF CookiesCome
<1>20. held' = h /\ took' \in Seq(1..MaxCookie)
  BY <1>7, <1>8, <1>11, <1>12
<1>21. /\ h \in Seq(1..MaxCookie) /\ Len(h) <= Target
       /\ \A k \in DOMAIN h : EncodedLen(h[k]) = EncodedLen(size)
  BY <1>13, <1>14, <1>15
<1> QED  BY <1>19, <1>20, <1>21

LEMMA DatagramInitially == DatagramInit => DatagramIInv
<1> SUFFICES ASSUME DatagramInit
             PROVE  DatagramIInv
  OBVIOUS
<1>1. PICK n \in 1..Target : held = Copies(size, n)
  BY DEF DatagramInit
<1>2. size \in CookieSizes /\ size \in 1..MaxCookie /\ n \in Nat /\ n <= Target
  BY DatagramConstants DEF DatagramInit, MaxCookie
<1>3. /\ held \in Seq(1..MaxCookie) /\ Len(held) = n
      /\ \A k \in 1..n : held[k] = size
  BY <1>1, <1>2, CopiesOf
<1>4. DOMAIN held = 1..n
  BY <1>3
<1> QED  BY <1>2, <1>3, <1>4 DEF DatagramInit, DatagramIInv

LEMMA DatagramStep ==
  ASSUME DatagramIInv, [DatagramNext]_datagramVars
  PROVE  DatagramIInv' /\ (Accepts => CookiesCome)
<1>1. /\ size \in CookieSizes
      /\ held \in Seq(1..MaxCookie) /\ Len(held) <= Target
      /\ took \in Seq(1..MaxCookie)
      /\ \A k \in DOMAIN held : EncodedLen(held[k]) = EncodedLen(size)
      /\ request # << >> => Asked
      /\ reply # NoReply => Answered
  BY DEF DatagramIInv
<1>2. Len(held) \in Nat /\ Target \in Nat /\ DOMAIN held = 1..Len(held)
  BY <1>1, DatagramConstants
<1>3. << >> \in Seq(1..MaxCookie)
  OBVIOUS
<1>4. request = << >> => reply = NoReply
  BY <1>1 DEF Answered
<1>5. (Accepts => CookiesCome)
  BY WhatAccepts
<1>6. CASE Polls
  <2>1. PICK n \in Nat : n = Len(held) /\ n >= 1
    <3>1. held # << >>
      BY <1>6 DEF Polls
    <3>2. Len(held) >= 1
      BY <1>1, <1>2, <3>1, EmptySeq
    <3> QED  BY <1>2, <3>2
  <2>2. PICK h : h = SubSeq(held, 1, n - 1)
    OBVIOUS
  <2>3. /\ h \in Seq(1..MaxCookie) /\ Len(h) = n - 1
        /\ \A k \in 1..n - 1 : h[k] = held[k]
    <3>1. PICK j \in 0..Len(held) : j = n - 1 /\ 1 \in 1..Len(held) + 1
      BY <2>1
    <3>2. h = SubSeq(held, 1, j) /\ held \in Seq(1..MaxCookie)
      BY <1>1, <2>2, <3>1
    <3>3. /\ h \in Seq(1..MaxCookie)
          /\ Len(h) = IF 1 <= j THEN j - 1 + 1 ELSE 0
          /\ \A k \in 1..j - 1 + 1 : h[k] = held[1 + k - 1]
      BY <3>1, <3>2, PartOf
    <3>4. \A k \in 1..j : h[k] = held[k]
      <4>1. j - 1 + 1 = j /\ \A k \in 1..j : 1 + k - 1 = k
        OBVIOUS
      <4> QED  BY <3>3, <4>1
    <3>5. Len(h) = j
      BY <3>1, <3>3
    <3> QED  BY <3>1, <3>3, <3>4, <3>5
  <2>4. held' = h /\ size' = size /\ reply' = reply /\ took' = << >>
    BY <1>6, <2>1, <2>2 DEF Polls
  <2>5. \A k \in DOMAIN h : EncodedLen(h[k]) = EncodedLen(size)
    <3>1. \A k \in DOMAIN h : k \in 1..n - 1 /\ k \in DOMAIN held
      BY <1>2, <2>1, <2>3
    <3> QED  BY <1>1, <2>3, <3>1
  <2>6. Asked'
    <3>1. PICK cookie \in 1..MaxCookie :
             cookie = Last(held) /\ EncodedLen(cookie) = EncodedLen(size)
      <4>1. Last(held) = held[n] /\ n \in DOMAIN held
        BY <1>2, <2>1 DEF Last
      <4>2. held[n] \in 1..MaxCookie
        <5>1. \A k \in 1..Len(held) : held[k] \in 1..MaxCookie
          BY <1>1, ElementOfSeq
        <5> QED  BY <2>1, <5>1
      <4>3. EncodedLen(held[n]) = EncodedLen(size)
        BY <1>1, <4>1
      <4> QED  BY <4>1, <4>2, <4>3
    <3>2. request' = RequestFor(cookie, Target - n)
      BY <1>6, <2>1, <3>1 DEF Polls, Prepared
    <3>3. Target - Len(held') - 1 = Target - n /\ Len(held') < Target
      <4>1. Len(held') = n - 1 /\ n <= Target
        BY <1>1, <2>1, <2>3, <2>4
      <4> QED  BY <1>2, <2>1, <4>1
    <3>4. EncodedLen(cookie) = EncodedLen(size')
      BY <2>4, <3>1
    <3> QED  BY <3>2, <3>3, <3>4 DEF Asked
  <2>7. reply' = NoReply
    BY <1>4, <1>6, <2>4 DEF Polls
  <2>8. Len(h) <= Target
    BY <1>1, <1>2, <2>1, <2>3
  <2> QED  BY <1>1, <1>3, <1>5, <2>3, <2>4, <2>5, <2>6, <2>7, <2>8 DEF DatagramIInv, NoReply
<1>7. CASE Rekeyed
  <2>1. PICK n \in 1..Target : held' = Copies(size, n)
    BY <1>7 DEF Rekeyed
  <2>2. size \in 1..MaxCookie /\ n \in Nat /\ n <= Target
    BY <1>1, <1>2, DatagramConstants DEF MaxCookie
  <2>3. PICK h : h = Copies(size, n)
    OBVIOUS
  <2>4. /\ h \in Seq(1..MaxCookie) /\ Len(h) = n
        /\ \A k \in 1..n : h[k] = size
    BY <2>2, <2>3, CopiesOf
  <2>5. DOMAIN h = 1..n
    BY <2>4
  <2>6. /\ held' = h /\ took' = << >> /\ size' = size
        /\ request' = << >> /\ reply' = NoReply
    BY <1>4, <1>7, <2>1, <2>3 DEF Rekeyed
  <2> QED  BY <1>1, <1>3, <1>5, <2>2, <2>4, <2>5, <2>6 DEF DatagramIInv, NoReply
<1>8. ASSUME NEW count \in 0..Target - Len(held), NEW tail \in MacSizes,
             NEW before \in Padded, NEW after \in Padded,
             before = << >> \/ after = << >>,
             AnsweredWith(count, before, after, tail)
      PROVE  DatagramIInv'
  <2>1. /\ request # << >> /\ request' = request /\ size' = size
        /\ held' = held /\ took' = took
        /\ reply' = [fields |-> AnswerOf(count, before, after), tail |-> tail,
                     inside |-> Sealed(count), brings |-> count]
    BY <1>8 DEF AnsweredWith
  <2>2. PICK r : r = reply'
    OBVIOUS
  <2>3. /\ r.fields = AnswerOf(count, before, after) /\ r.tail = tail
        /\ r.inside = Sealed(count) /\ r.brings = count
    BY <2>1, <2>2
  <2>4. AnswerOf(count, before, after)' = AnswerOf(count, before, after)
        /\ Sealed(count)' = Sealed(count)
    BY <2>1 DEF AnswerOf, Sealed
  <2>5. Answered'
    <3>1. /\ request' # << >> /\ reply'.brings \in 0..Target - Len(held')
          /\ reply'.inside = Sealed(reply.brings)' /\ reply'.tail \in MacSizes
      <4>1. reply'.brings = count /\ reply'.tail = tail /\ reply'.inside = Sealed(count)
        BY <2>2, <2>3
      <4>2. Sealed(reply.brings)' = Sealed(count)'
        BY <4>1 DEF Sealed
      <4> QED  BY <1>8, <2>1, <2>4, <4>1, <4>2
    <3>2. reply'.fields = AnswerOf(reply.brings, before, after)'
      <4>1. reply'.brings = count /\ reply'.fields = AnswerOf(count, before, after)
        BY <2>2, <2>3
      <4>2. AnswerOf(reply.brings, before, after)' = AnswerOf(count, before, after)'
        BY <4>1 DEF AnswerOf, Sealed
      <4> QED  BY <2>4, <4>1, <4>2
    <3> QED  BY <1>8, <3>1, <3>2 DEF Answered
  <2>6. Asked'
    BY <1>1, <2>1 DEF Asked
  <2> QED  BY <1>1, <2>1, <2>5, <2>6 DEF DatagramIInv
<1>9. CASE Accepts
  <2>1. request' = << >> /\ reply' = NoReply /\ size' = size
    BY <1>9 DEF Accepts
  <2> QED  BY <1>1, <1>9, <2>1, WhatAccepts DEF DatagramIInv, NoReply
<1>10. CASE Rejects
  <2>1. /\ request' = request /\ size' = size /\ held' = held /\ took' = took
        /\ reply' = NoReply
    BY <1>10 DEF Rejects
  <2>2. Asked' <=> Asked
    BY <2>1 DEF Asked
  <2> QED  BY <1>1, <1>5, <2>1, <2>2 DEF DatagramIInv, NoReply
<1>11. CASE GivesUp
  <2>1. /\ request' = << >> /\ size' = size /\ held' = held /\ took' = << >>
        /\ reply' = NoReply
    BY <1>11 DEF GivesUp
  <2> QED  BY <1>1, <1>3, <1>5, <2>1 DEF DatagramIInv, NoReply
<1>12. CASE UNCHANGED datagramVars
  <2>1. /\ request' = request /\ size' = size /\ held' = held /\ took' = took
        /\ reply' = reply
    BY <1>12 DEF datagramVars
  <2>2. (Asked' <=> Asked) /\ (Answered' <=> Answered)
    BY <2>1 DEF Asked, Answered, AnswerOf, Sealed
  <2> QED  BY <1>1, <1>5, <2>1, <2>2 DEF DatagramIInv, NoReply
<1>13. << >> \in Padded /\ \A pad \in Paddings : <<Plain(pad)>> \in Padded
  BY DEF Padded
<1> QED  BY <1>5, <1>6, <1>7, <1>8, <1>9, <1>10, <1>11, <1>12, <1>13 DEF DatagramNext

(* Every answer is to the request, every cookie as long on the wire as the *)
(* server makes them: DatagramIInv is inductive.                           *)
THEOREM DatagramInvariance == DatagramSpec => []DatagramIInv
<1>1. DatagramIInv /\ [DatagramNext]_datagramVars => DatagramIInv'
  BY DatagramStep
<1> QED  BY <1>1, DatagramInitially, PTL DEF DatagramSpec

(* What timed sends are legal fields, in a datagram no longer than any may *)
(* be (prepare).                                                           *)
THEOREM DatagramTypeCorrect == DatagramSpec => []DatagramTypeOK
BY DatagramInvariance, DatagramSizes, PTL

(* NoAmplification, of prepare's placeholders: whatever the size of the    *)
(* cookies and the padding they have gathered, an answer with no more than *)
(* was asked for is no longer than the request.                            *)
THEOREM RequestsAreNoShorter == DatagramSpec => []NoAmplification
BY DatagramInvariance, DatagramSizes, PTL

(* RepliesComeThrough, of decode_all_with_mac, verify and accept: no       *)
(* answer is lost to its padding or to a MAC after it, and of its cookies  *)
(* none but the last.                                                      *)
THEOREM RepliesAreRead == DatagramSpec => RepliesComeThrough
<1>1. DatagramIInv /\ [DatagramNext]_datagramVars => (Accepts => CookiesCome)
  BY DatagramStep
<1>2. DatagramSpec => []AnswersVerify
  BY DatagramInvariance, DatagramSizes, PTL
<1> QED  BY <1>1, <1>2, DatagramInvariance, PTL DEF DatagramSpec, RepliesComeThrough

-----------------------------------------------------------------------------
(* All four, side by side, each of them as it is alone: the stores within  *)
(* their sizes, legal fields, one offset for each sample, and survivors    *)
(* among the fit.                                                          *)
THEOREM EstimateTypeCorrect == MCSpec => []EstimateTypeOK
<1> DEFINE IInvs == SessionIInv /\ DatagramIInv /\ MeasureIInv /\ SelectIInv
<1>1. MCInit => IInvs
  BY SessionStarts, DatagramInitially, MeasureInitIInv, SelectStarts
     DEF MCInit, NoDatagram, NoMeasurement, NoSelection
<1>2. IInvs /\ [MCNext]_mcVars => IInvs'
  <2> SUFFICES ASSUME IInvs, [MCNext]_mcVars
               PROVE  IInvs'
    OBVIOUS
  <2>1. /\ [SessionNext]_sessionVars /\ [DatagramNext]_datagramVars
        /\ [MeasureNext]_measureVars /\ [SelectNext]_selectVars
    BY DEF MCNext, mcVars
  <2> QED
    BY <2>1, SessionKeeps, DatagramStep, MeasureNextIInv, SelectKeeps
<1>3. IInvs => EstimateTypeOK
  BY DatagramSizes
     DEF SessionIInv, MeasureIInv, SelectIInv, EstimateTypeOK
<1> QED
  BY <1>1, <1>2, <1>3, PTL DEF MCSpec
=============================================================================
