---------------------------- MODULE Measurement ----------------------------
(***************************************************************************)
(* What a reply is worth: the four timestamps of an exchange               *)
(* (timed/src/sample.rs, the end of Source::accept) in NTP's wrapping      *)
(* words (ntp/src/timestamp.rs), the sample they give, and the register it *)
(* goes to (Filter), while timed steps the clock between the request and   *)
(* the reply and between a sample and its use.                             *)
(*                                                                         *)
(* A word is a time modulo Words, in units of which Epoch have passed at   *)
(* 1970; the era ends inside the run.  The server's clock is true; the     *)
(* local one is behind it by err, which only a step of timed changes (what *)
(* a crystal drifts is the dispersion's business, and left out).  T4 is    *)
(* read once before both sockets are drained, so a reply may arrive up to  *)
(* Drain after it, and may have waited in the socket for any time before.  *)
(* The clock may be out by decades, as one that starts at 1970 is: a       *)
(* difference of two words holds half an era, and the sum of two that make *)
(* an offset saturates at half of that, which is 34 years of error.        *)
(*                                                                         *)
(* offsets goes with stages: the rest of each sample.  err, the fields     *)
(* sent and err of out, and clean in offsets are the truth no code sees.   *)
(***************************************************************************)
EXTENDS Filter

CONSTANTS
    Words,      \* 2^64
    Epoch,      \* UNIX_TO_NTP_ERA0
    MinDelay,   \* MIN_DISPERSION
    MaxDelay,   \* MAX_DELAY
    Drain,      \* how long draining both sockets may take
    MaxWait,    \* how long a request may be out, by the true clock
    MaxErr,     \* bound on the error of the local clock
    Errors      \* the errors it may have

Half == Words \div 2

ASSUME MeasurementConstants ==
    /\ Half \in Nat /\ Words = 2 * Half
    /\ Epoch \in 0..Words - 1
    /\ MinDelay \in Nat /\ MaxDelay \in Nat /\ MinDelay <= MaxDelay
    /\ Drain \in Nat /\ MaxWait \in Nat /\ MaxErr \in Nat
    /\ MaxErr + MaxWait <= Epoch /\ Errors \subseteq -MaxErr..MaxErr
    /\ MinDelay..MaxDelay \subseteq Delays
    /\ 0 \in Steps

VARIABLES
    err,        \* true time less the wall clock's
    out,        \* the outstanding request
    offsets     \* what the samples in stages say, and whether of one clock

reading == <<err, out, offsets>>
measureVars == <<vars, reading>>

NoRequest == [origin |-> None]
Requests == [origin : 0..Words - 1, sent : Int, err : Int]

-----------------------------------------------------------------------------
(* Timestamps *)

(* from_unix, and its wrap into the next era.                              *)
Word(unix) == IF unix + Epoch < Words THEN unix + Epoch
              ELSE unix + Epoch - Words

(* wrapping_sub: the difference of two words, read as signed.              *)
WrappingSub(a, b) ==
    IF a - b >= Half THEN a - b - Words
    ELSE IF a - b < -Half THEN a - b + Words ELSE a - b

(* NtpDuration's + and - saturate.                                         *)
WrappedSum(d) ==
    IF d >= Half THEN d - Words ELSE IF d < -Half THEN d + Words ELSE d
Saturated(d) == IF d >= Half THEN Half - 1 ELSE IF d < -Half THEN -Half ELSE d

(* to_unix_near, which destination_to_seconds gives no time near but 0.    *)
ToUnixNear(word, near) == near + WrappingSub(word, Word(near))

-----------------------------------------------------------------------------
(* An exchange x reduced. *)

Exchange(t2, t3, t4) ==
    [origin |-> out.origin, receive |-> Word(t2), transmit |-> Word(t3),
     destination |-> Word(t4)]

RoundTrip(x) == WrappingSub(x.destination, x.origin)
ServerHeld(x) == WrappingSub(x.transmit, x.receive)

Delay(x) == LET d == Saturated(RoundTrip(x) - ServerHeld(x))
            IN  IF d < MinDelay THEN MinDelay ELSE d

TwiceOffset(x) ==
    Saturated(WrappingSub(x.receive, x.origin)
              + WrappingSub(x.transmit, x.destination))

(* destination_to_seconds.                                                 *)
DatedAtOrigin(x) == ToUnixNear(x.origin, 0)
At(x) == ToUnixNear(x.origin, 0) + WrappingSub(x.destination, x.origin)

(* LocalWentBackwards, ServerWentBackwards and TooFar.                     *)
Usable(x) == RoundTrip(x) >= 0 /\ ServerHeld(x) >= 0 /\ Delay(x) <= MaxDelay

-----------------------------------------------------------------------------
MeasureInit ==
    /\ Init
    /\ err \in Errors
    /\ out = NoRequest
    /\ offsets = << >>

(* send_poll: the origin is what the wall clock reads.                     *)
Ask ==
    /\ out = NoRequest
    /\ out' = [origin |-> Word(wall), sent |-> wall + err, err |-> err]
    /\ UNCHANGED <<vars, err, offsets>>

(* A reply the server received at t2 and sent at t3 is taken from the      *)
(* socket when T4 reads gap more than now does, unless the request has     *)
(* been given up by then.  The server's own clock may have been set back   *)
(* while it held the request.                                              *)
Replied(gap, t2, t3) ==
    /\ out # NoRequest
    /\ Later(gap)
    /\ wall' + err <= out.sent + MaxWait
    /\ out.sent <= t2
    /\ t2 <= wall' + err + Drain /\ t3 <= wall' + err + Drain

(* Whether the clock the reply is dated by is no earlier than the one the  *)
(* request was: a step forward while it was out only adds to the delay.    *)
OneClock == out.err >= err

Taking(x) ==
    /\ Usable(x)
    /\ out' = NoRequest
    /\ offsets' = Shifted(offsets, [twice |-> TwiceOffset(x), clean |-> OneClock])
    /\ UNCHANGED err

TakeFresh(gap, t2, t3) ==
    /\ Replied(gap, t2, t3)
    /\ LET x == Exchange(t2, t3, wall')
       IN  Taking(x) /\ Report(Delay(x), At(x))

TakeStale(gap, t2, t3) ==
    /\ Replied(gap, t2, t3)
    /\ LET x == Exchange(t2, t3, wall')
       IN  Taking(x) /\ Withhold(Delay(x), At(x))

(* A reply reduce refuses leaves the request outstanding.                  *)
Refuse(gap, t2, t3) ==
    /\ Replied(gap, t2, t3)
    /\ ~Usable(Exchange(t2, t3, wall'))
    /\ Elapse(gap)
    /\ UNCHANGED reading

Quiet(gap) == Elapse(gap) /\ UNCHANGED reading

(* record_loss, and the last of eight in a row, which empties the register.*)
Lose ==
    /\ out # NoRequest
    /\ out' = NoRequest
    /\ UNCHANGED <<vars, err, offsets>>

LoseEighth ==
    /\ out # NoRequest
    /\ Reset(0)
    /\ out' = NoRequest /\ offsets' = << >>
    /\ UNCHANGED err

(* Timed::apply takes a step; the outstanding request is left as it is.    *)
Step(by) ==
    /\ err - by \in Errors
    /\ Reset(by)
    /\ err' = err - by
    /\ offsets' = << >>
    /\ UNCHANGED out

MeasureNext ==
    \/ Ask
    \/ /\ out # NoRequest
       /\ \E gap \in Gaps,
             t2, t3 \in out.sent - MaxWait..out.sent + MaxWait + Drain :
             \/ TakeFresh(gap, t2, t3)
             \/ TakeStale(gap, t2, t3)
             \/ Refuse(gap, t2, t3)
    \/ \E gap \in Gaps : Quiet(gap)
    \/ Lose
    \/ LoseEighth
    \/ \E by \in Steps : Step(by)

MeasureSpec == MeasureInit /\ [][MeasureNext]_measureVars

-----------------------------------------------------------------------------
(* Properties *)

MeasureTypeOK ==
    /\ TypeOK
    /\ err \in Errors
    /\ out \in Requests \cup {NoRequest}
    /\ offsets \in Seq([twice : Int, clean : BOOLEAN])
    /\ Len(offsets) = Len(stages)

(* The register of a source works as Filter says: in particular the date a *)
(* sample gets through the words, across the end of an era, is the time of *)
(* the clock it will be compared with.                                     *)
ImplementsFilter == Spec

(* sample.rs: "the error is bounded by delta/2".  Of every sample a source *)
(* may vote with, that is so now, and not only when it was taken: whatever *)
(* steps and eras came between, save of one whose request was out while    *)
(* the clock was set back by less than its round trip, which reduce cannot *)
(* tell, and up to the time it takes to drain the sockets.  Of a clock out *)
(* by more than the largest offset there is, 34 years, the sample says     *)
(* that offset: far from the truth, but on its side, so that a step by it  *)
(* is one towards the truth and not past it.                               *)
Within(off, bound) == off <= bound /\ -off <= bound

FallsShort(twice) ==
    \/ twice = Half - 1 /\ 2 * err > twice
    \/ twice = -Half /\ 2 * err < twice

WithinHalfDelay ==
    \A i \in DOMAIN stages :
       offsets[i].clean =>
          \/ Within(2 * err - offsets[i].twice, stages[i].delay + 2 * Drain)
          \/ FallsShort(offsets[i].twice)

(* timestamp.rs says of the time near which words are read "Every caller   *)
(* of this has one: the local clock at the moment the packet arrived", and *)
(* source.rs that a sample is dated by "The wall-clock seconds a sample    *)
(* was taken".                                                             *)
DatedNow == [][id' # id => stages'[1].at = wall']_measureVars
=============================================================================
