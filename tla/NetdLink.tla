------------------------------ MODULE NetdLink ------------------------------
(***************************************************************************)
(* The subscription to netd (timed/src/netd_link.rs) and what the loop     *)
(* takes from it (absorb_netd).  A frame is a length and a payload that    *)
(* arrive apart: pieces in flight come to the socket one at a time, what   *)
(* has come is read all at once, and a connection may end between the two  *)
(* pieces of a frame.  A frame carries the number of the lease it tells    *)
(* of, and the connection it was sent on, which no code sees.              *)
(*                                                                         *)
(* netd is outside: it sends what it knows when asked and whenever that    *)
(* changes, may send what timed cannot use, and may stop and start again.  *)
(* Time is counted from next_try: tryIn is how far off that is.  What the  *)
(* lease then changes is in SourceTable.  MaxLease and MaxFaults are       *)
(* bounds.                                                                 *)
(***************************************************************************)
EXTENDS Integers, Sequences, FiniteSets

CONSTANTS
    MinBackoff, MaxBackoff,
    MaxLease,     \* bound on the changes of the network
    MaxFaults     \* bound on netd's restarts and unusable frames

ASSUME NetdConstants ==
    /\ MinBackoff \in Nat \ {0} /\ MaxBackoff \in Nat
    /\ MinBackoff <= MaxBackoff
    /\ MaxLease \in Nat /\ MaxFaults \in Nat

VARIABLES
    up,           \* netd is there to be connected to
    offered,      \* the lease netd has
    flight,       \* pieces netd sent that have not come
    wire,         \* pieces that have come and are unread
    ended,        \* netd's end of the connection is closed
    connected,    \* stream is Some
    conn,         \* which connection it is, in turns
    buf,
    tryIn,        \* next_try, counted from now
    backoff,
    taken,        \* the lease last absorbed
    faults

netd == <<up, offered, ended, faults>>
link == <<connected, conn, buf, tryIn, backoff, taken>>
netdVars == <<netd, flight, wire, link>>

Bad == {"error", "unreadable", "oversize"}
Kinds == Bad \cup {"snapshot", "other"}
Frame == [kind : Kinds, lease : 0..MaxLease, conn : 0..1]
Piece == [frame : Frame, part : 1..2]

Pieces(kind, lease, on) ==
    LET frame == [kind |-> kind, lease |-> lease, conn |-> on]
    IN  << [frame |-> frame, part |-> 1], [frame |-> frame, part |-> 2] >>

-----------------------------------------------------------------------------
(* The buffer.  Two pieces at a time are taken for a frame, whatever they  *)
(* are; a length past MAX_MESSAGE_BYTES ends the reading at once.          *)

Fits(b, k) == b[2 * k - 1].frame = b[2 * k].frame
              /\ b[2 * k - 1].part = 1 /\ b[2 * k].part = 2
KindOf(b, k) == IF Fits(b, k) THEN b[2 * k].frame.kind ELSE "unreadable"

Oversize(b, k) == 2 * k - 1 <= Len(b) /\ b[2 * k - 1].part = 1
                  /\ b[2 * k - 1].frame.kind = "oversize"

(* The complete frames of b that are decoded, by number.                   *)
Decoded(b) ==
    {k \in 1..Len(b) : 2 * k <= Len(b) /\ \A j \in 1..k : ~Oversize(b, j)}

Spoilt(b) ==
    \/ \E k \in 1..Len(b) : Oversize(b, k)
    \/ \E k \in Decoded(b) : KindOf(b, k) \in Bad

SnapshotsIn(b) == {k \in Decoded(b) : KindOf(b, k) = "snapshot"}

FirstLease(b) ==
    LET first == CHOOSE k \in SnapshotsIn(b) : \A j \in SnapshotsIn(b) : k <= j
    IN  b[2 * first].frame.lease
LastLease(b) ==
    LET last == CHOOSE k \in SnapshotsIn(b) : \A j \in SnapshotsIn(b) : j <= k
    IN  b[2 * last].frame.lease

Undecoded(b) == SubSeq(b, 2 * Cardinality(Decoded(b)) + 1, Len(b))

KeptBuffer(b) == b
Cleared(b) == << >>

-----------------------------------------------------------------------------
NetdInit ==
    /\ up \in BOOLEAN
    /\ offered = 0 /\ taken = 0
    /\ flight = << >> /\ wire = << >> /\ buf = << >>
    /\ ended = FALSE /\ connected = FALSE /\ conn = 0
    /\ tryIn = 0
    /\ backoff = MinBackoff
    /\ faults = 0

(* maintain, when its time has come.  netd answers the subscription with a *)
(* snapshot.                                                               *)
Subscribed ==
    /\ connected' = TRUE
    /\ conn' = 1 - conn
    /\ buf' = Cleared(buf)
    /\ backoff' = MinBackoff
    /\ flight' = Pieces("snapshot", offered, 1 - conn)
    /\ UNCHANGED <<netd, wire, tryIn, taken>>

Doubled(b) == IF 2 * b <= MaxBackoff THEN 2 * b ELSE MaxBackoff

NotReachable ==
    /\ tryIn' = backoff
    /\ backoff' = Doubled(backoff)
    /\ UNCHANGED <<netd, flight, wire, connected, conn, buf, taken>>

Maintain ==
    /\ ~connected /\ tryIn = 0
    /\ IF up THEN Subscribed ELSE NotReachable

(* service and absorb_netd: whatever has come is read to the end, and of   *)
(* its snapshots the last is taken, also when the connection is given up.  *)
Received == buf \o wire

Lost == (ended /\ flight = << >>) \/ Spoilt(Received)

GiveUp ==
    /\ connected' = FALSE
    /\ ended' = FALSE
    /\ flight' = << >>
    /\ buf' = Cleared(Undecoded(Received))
    /\ tryIn' = MinBackoff
    /\ backoff' = MinBackoff
    /\ UNCHANGED <<up, offered, conn, faults>>

GoOn ==
    /\ buf' = Undecoded(Received)
    /\ UNCHANGED <<netd, flight, connected, conn, tryIn, backoff>>

Absorb ==
    /\ connected
    /\ wire' = << >>
    /\ taken' = IF SnapshotsIn(Received) = {} THEN taken ELSE LastLease(Received)
    /\ IF Lost THEN GiveUp ELSE GoOn

(* Time goes by.                                                           *)
NetdElapse(gap) ==
    /\ tryIn' = IF connected \/ tryIn <= gap THEN 0 ELSE tryIn - gap
    /\ UNCHANGED <<netd, flight, wire, connected, conn, buf, backoff, taken>>

-----------------------------------------------------------------------------
(* netd, and the socket between. *)

Listening == connected /\ ~ended

Arrive ==
    /\ flight # << >>
    /\ wire' = Append(wire, Head(flight))
    /\ flight' = Tail(flight)
    /\ UNCHANGED <<netd, link>>

NetworkChanges ==
    /\ up /\ offered < MaxLease
    /\ offered' = offered + 1
    /\ UNCHANGED <<up, ended, faults, wire, link>>
    /\ flight' = IF Listening
                 THEN flight \o Pieces("snapshot", offered + 1, conn)
                 ELSE flight

Sends(kind) ==
    /\ Listening /\ faults < MaxFaults
    /\ faults' = faults + 1
    /\ UNCHANGED <<up, offered, ended, wire, link>>
    /\ flight' = flight \o Pieces(kind, offered, conn)

(* What is in flight is cut off somewhere.                                 *)
Stops(sent) ==
    /\ up /\ faults < MaxFaults
    /\ faults' = faults + 1
    /\ up' = FALSE
    /\ ended' = connected
    /\ flight' = SubSeq(flight, 1, sent)
    /\ UNCHANGED <<offered, wire, link>>

Starts ==
    /\ ~up
    /\ up' = TRUE
    /\ UNCHANGED <<offered, ended, faults, flight, wire, link>>

NetdOutside ==
    \/ Arrive
    \/ NetworkChanges
    \/ \E kind \in Bad \cup {"other"} : Sends(kind)
    \/ \E sent \in 0..Len(flight) : Stops(sent)
    \/ Starts

(* maintain and absorb_netd, once a turn.  A connection just made has      *)
(* nothing to read yet.                                                    *)
Link == Maintain \/ Absorb

NetdNext == Link \/ NetdElapse(1) \/ NetdOutside

(* The loop goes round, time passes, and what was sent arrives.            *)
NetdSpec ==
    /\ NetdInit /\ [][NetdNext]_netdVars
    /\ WF_netdVars(Link) /\ WF_netdVars(NetdElapse(1)) /\ WF_netdVars(Arrive)

-----------------------------------------------------------------------------
(* Properties *)

(* With the types: however often netd goes, the next try is never more     *)
(* than the longest backoff away.                                          *)
NetdTypeOK ==
    /\ up \in BOOLEAN /\ ended \in BOOLEAN /\ connected \in BOOLEAN
    /\ offered \in 0..MaxLease /\ taken \in 0..offered
    /\ flight \in Seq(Piece) /\ wire \in Seq(Piece) /\ buf \in Seq(Piece)
    /\ conn \in 0..1
    /\ tryIn \in 0..MaxBackoff /\ backoff \in MinBackoff..MaxBackoff
    /\ faults \in 0..MaxFaults

(* service and maintain: a connection that ended in the middle of a frame  *)
(* leaves nothing for the next one, whose first frame would be read from   *)
(* its middle: what waits in the buffer is the start of one frame of this  *)
(* connection.                                                             *)
BufferIsOfThisConnection ==
    /\ ~connected => buf = << >>
    /\ buf # << >> => Len(buf) = 1 /\ buf[1].part = 1
                      /\ buf[1].frame.conn = conn

(* Once netd stays up and the network quiet, the loop ends up with what    *)
(* netd knows, however many connections that takes.                        *)
FollowsNetd == <>[]up => <>[](taken = offered)

(* The inductive invariant.  Odd pieces are heads of frames and even ones  *)
(* their payloads, from what waits in the buffer through what has come to  *)
(* what is in flight, all of one connection; nothing is ever left but the  *)
(* head of one frame, and nothing at all of a connection that is over.     *)
Stream == buf \o wire \o flight

Ours == {piece \in Piece : piece.frame.conn = conn
                           /\ piece.frame.lease <= offered}

InTurns(s, P) ==
    \A i \in 1..Len(s) :
        s[i] \in P /\ s[i].part = IF i % 2 = 1 THEN 1 ELSE 2

NetdIInv ==
    /\ NetdTypeOK
    /\ connected => InTurns(Stream, Ours)
    /\ connected /\ ~ended => Len(Stream) % 2 = 0
    /\ ~connected => buf = << >> /\ wire = << >> /\ flight = << >> /\ ~ended
    /\ Len(buf) <= 1
=============================================================================
