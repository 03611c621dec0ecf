------------------------------- MODULE Daemon -------------------------------
(***************************************************************************)
(* The main loop of timed (main.rs: run) put together: what its turns do   *)
(* to the sources, the discipline, the clock and the state told to peinit. *)
(* A turn takes in changes of configuration, polls what is due, gives up   *)
(* on what has not answered, tells peinit the state, sleeps, takes every   *)
(* reply that is there, and then serves the control socket; `turn` is      *)
(* where it stands.  Everything runs on one thread, so a step here is a    *)
(* part of a turn and nothing comes between.                               *)
(*                                                                         *)
(* The parts have modules of their own and are seen from outside here.     *)
(* Filter: `held` is the clocks on which the requests of its samples were  *)
(* sent, and whether a sample is news is open.  Select: any source with samples that still   *)
(* answers may be the peer, and there may be no majority.  Discipline:     *)
(* an offset has no size, so each adjustment its state allows may come.    *)
(* Source, SourceTable: times and readiness to be polled are left open.    *)
(*                                                                         *)
(* `epoch` counts the times the clock was moved, and a request is known by *)
(* the epoch its T1 was read in.  `straddler` is the request that was out  *)
(* when the filter was last emptied, and `unfed` says that the source      *)
(* reported a measurement since the loop was last fed.  All three are      *)
(* history; the code has none of them.  MaxMoves and MaxChanges are        *)
(* bounds.                                                                 *)
(***************************************************************************)
EXTENDS Integers, Sequences

CONSTANTS
    Hosts,
    Tables,       \* the lists of sources the configuration may give
    MaxEntries,   \* the length of the longest
    ReachWidth,   \* lost polls until a source counts as unreachable
    MaxMoves,     \* bound on epoch
    MaxChanges    \* bound on reloads

ASSUME DaemonConstants ==
    /\ ReachWidth \in Nat \ {0} /\ MaxMoves \in Nat /\ MaxChanges \in Nat
    /\ MaxEntries \in Nat /\ Tables \subseteq Seq(Hosts)
    /\ \A t \in Tables : Len(t) <= MaxEntries

VARIABLES
    automatic,    \* config.automatic
    entries,      \* sequence of Entry: the source, and two marks of history
    state,        \* discipline.state
    peer,         \* system_peer
    level,        \* last_level
    turn,
    epoch, changes

vars == <<automatic, entries, state, peer, level, turn, epoch, changes>>

None == 0        \* Option::None of an index
NoRequest == -1  \* Option::None of the pending request

-----------------------------------------------------------------------------
(* The table *)

NewEntry(host) ==
    [host |-> host, pending |-> NoRequest, held |-> {}, misses |-> ReachWidth,
     straddler |-> NoRequest, fresh |-> FALSE, unfed |-> FALSE]

Former(host) == {i \in DOMAIN entries : entries[i].host = host}
LastFormer(host) ==
    CHOOSE i \in Former(host) : \A j \in Former(host) : j <= i
Repeated(hosts, k) == \E j \in 1..k - 1 : hosts[j] = hosts[k]

Kept(hosts, k) ==
    IF Former(hosts[k]) = {} \/ Repeated(hosts, k) THEN NewEntry(hosts[k])
    ELSE entries[LastFormer(hosts[k])]

KeepsEntries(auto, hosts) == [k \in DOMAIN hosts |-> Kept(hosts, k)]
Rebuilt(auto, hosts) ==
    IF auto THEN [k \in DOMAIN hosts |-> Kept(hosts, k)] ELSE << >>

Init ==
    /\ automatic \in BOOLEAN
    /\ entries \in IF automatic
                   THEN {[k \in DOMAIN t |-> NewEntry(t[k])] : t \in Tables}
                   ELSE {<< >>}
    /\ state = "startup"
    /\ peer = None
    /\ level = "none"
    /\ turn = "round"
    /\ epoch = 0 /\ changes = 0

(* reload, or the rebuild that new leases call for.                        *)
Rebuild(auto, hosts) ==
    /\ changes < MaxChanges
    /\ changes' = changes + 1
    /\ automatic' = auto
    /\ state' = IF auto /\ ~automatic THEN "startup" ELSE state
    /\ entries' = Rebuilt(auto, hosts)
    /\ peer' = IF auto THEN peer ELSE None
    /\ UNCHANGED <<level, epoch>>

-----------------------------------------------------------------------------
(* The first half of a turn: poll_due, expire_pending, publish_level. *)

TakeConfiguration(auto, hosts) ==
    /\ turn = "round"
    /\ Rebuild(auto, hosts)
    /\ UNCHANGED turn

SyncState ==
    CASE peer = None \/ state = "startup" -> "unsynchronised"
      [] peer # None /\ state # "startup" -> state

Waiting(e) == e.pending # NoRequest
Reachable(e) == e.misses < ReachWidth

Unsaturated(misses) == misses + 1
AfterLoss(misses) == IF misses < ReachWidth THEN misses + 1 ELSE misses

(* The filter is reset, and what is out stays out.                         *)
Emptied(e) == [e EXCEPT !.held = {}, !.straddler = e.pending]

(* A source not heard for ReachWidth polls forgets its samples.            *)
Lost(e) ==
    LET alone == [e EXCEPT !.pending = NoRequest, !.misses = AfterLoss(@)]
    IN  IF Reachable(alone) THEN alone ELSE Emptied(alone)

(* send_poll: T1 is what the clock reads.                                  *)
Polled(e) == [e EXCEPT !.pending = epoch]

ToldWithPeer == IF peer = None THEN level ELSE SyncState
Told == SyncState

Round(polled, lost) ==
    /\ turn = "round"
    /\ turn' = "sockets"
    /\ entries' = [i \in DOMAIN entries |->
                      IF i \in lost THEN Lost(entries[i])
                      ELSE IF i \in polled THEN Polled(entries[i])
                      ELSE entries[i]]
    /\ level' = Told
    /\ UNCHANGED <<automatic, state, peer, epoch, changes>>

-----------------------------------------------------------------------------
(* The replies.  One is a kiss ("kiss"), says its server does not know     *)
(* the time ("unsynced"), or gives a sample that is the filter's news      *)
(* ("update") or not ("stale").  What accept refuses is "none".            *)

Replies == {"none", "kiss", "unsynced", "update", "stale"}
Accepted == {"update", "stale"}

(* The first sample of an empty filter is always news.                     *)
MayCome(e, reply) ==
    /\ reply # "none" => Waiting(e)
    /\ reply = "stale" => e.held # {}

(* A sample's T1 is of the clock its request was sent on, whatever became  *)
(* of the clock since.                                                     *)
Took(e, reply) ==
    CASE reply = "none" -> e
      [] reply = "kiss" -> [e EXCEPT !.pending = NoRequest]
      [] reply = "unsynced" -> [e EXCEPT !.pending = NoRequest, !.misses = 0]
      [] reply \in Accepted ->
            [e EXCEPT !.pending = NoRequest,
                      !.misses = 0,
                      !.held = @ \cup {e.pending},
                      !.fresh = (reply = "update"),
                      !.unfed = @ \/ reply = "update"]

(* decide: once for all the replies, if any was accepted.                  *)

Candidate(e) == e.held # {} /\ Reachable(e)

StaysFresh(table) == [i \in DOMAIN table |-> [table[i] EXCEPT !.unfed = FALSE]]
Fed(table) ==
    [i \in DOMAIN table |-> [table[i] EXCEPT !.fresh = FALSE, !.unfed = FALSE]]

(* A step empties every filter.                                            *)
VoidsPeer(table) == [table EXCEPT ![peer'] = Emptied(table[peer'])]
Voided(table) == [i \in DOMAIN table |-> Emptied(table[i])]

AfterRate ==
    CASE state = "startup" -> {"settling"}
      [] state \in {"settling", "spike"} -> {"settling", "synchronised"}
      [] state = "synchronised" -> {"synchronised"}

Rate(table) ==
    /\ state' \in AfterRate
    /\ entries' = table
    /\ UNCHANGED epoch

Hold(table) ==
    /\ state # "startup"
    /\ state' = "spike"
    /\ entries' = table
    /\ UNCHANGED epoch

Panic(table) ==
    /\ state # "startup"
    /\ entries' = table
    /\ UNCHANGED <<state, epoch>>

(* clock.step, which may be refused.                                       *)
Step(table) ==
    /\ state \in {"startup", "spike"}
    /\ state' = "settling"
    /\ \/ /\ epoch < MaxMoves
          /\ epoch' = epoch + 1
          /\ entries' = Voided(table)
       \/ /\ entries' = table
          /\ UNCHANGED epoch

Apply(table) == Rate(table) \/ Hold(table) \/ Panic(table) \/ Step(table)

NoSelection(table) ==
    /\ entries' = table
    /\ UNCHANGED <<state, peer, epoch>>

Steered(table, p) ==
    /\ Candidate(table[p])
    /\ peer' = p
    /\ IF \E i \in DOMAIN table : table[i].fresh
       THEN Apply(Fed(table))
       ELSE entries' = table /\ UNCHANGED <<state, epoch>>

Service(replies) ==
    LET table == [i \in DOMAIN entries |-> Took(entries[i], replies[i])] IN
    /\ turn = "sockets"
    /\ turn' = "control"
    /\ \A i \in DOMAIN entries : MayCome(entries[i], replies[i])
    /\ IF \E i \in DOMAIN entries : replies[i] \in Accepted
       THEN \/ NoSelection(table)
            \/ \E p \in DOMAIN table : Steered(table, p)
       ELSE NoSelection(table)
    /\ UNCHANGED <<automatic, level, changes>>

-----------------------------------------------------------------------------
(* The control socket: any number of callers, of whom those with questions *)
(* change nothing and two orders may.                                      *)

Serving == turn = "control" /\ UNCHANGED turn

ReloadOrdered(auto, hosts) == Serving /\ Rebuild(auto, hosts)

SetByHand ==
    /\ Serving
    /\ ~automatic
    /\ epoch < MaxMoves
    /\ epoch' = epoch + 1
    /\ UNCHANGED <<automatic, entries, state, peer, level, changes>>

(* Nobody is waiting any more.                                             *)
Served ==
    /\ turn = "control"
    /\ turn' = "round"
    /\ UNCHANGED <<automatic, entries, state, peer, level, epoch, changes>>

Next ==
    \/ \E auto \in BOOLEAN, hosts \in Tables :
          \/ TakeConfiguration(auto, hosts)
          \/ ReloadOrdered(auto, hosts)
    \/ \E lost \in SUBSET {i \in DOMAIN entries : Waiting(entries[i])},
          polled \in SUBSET {i \in DOMAIN entries : ~Waiting(entries[i])} :
          Round(polled, lost)
    \/ \E replies \in [DOMAIN entries -> Replies] : Service(replies)
    \/ SetByHand
    \/ Served

(* The loop goes round: no call in it waits for ever.                      *)
Spec == Init /\ [][Next]_vars /\ WF_vars(Next)

-----------------------------------------------------------------------------
(* Properties *)

States == {"startup", "settling", "synchronised", "spike"}

Requests == {NoRequest} \cup 0..MaxMoves

Entry == [host : Hosts, pending : Requests, held : SUBSET (0..MaxMoves),
          misses : 0..ReachWidth, straddler : Requests,
          fresh : BOOLEAN, unfed : BOOLEAN]

(* With the types: a source that went silent holds no samples.             *)
TypeOK ==
    /\ automatic \in BOOLEAN
    /\ DOMAIN entries \subseteq 1..MaxEntries
    /\ \A i \in DOMAIN entries :
          /\ entries[i] \in Entry
          /\ entries[i].held # {} => Reachable(entries[i])
    /\ state \in States
    /\ peer \in Nat
    /\ level \in {"none", "unsynchronised"} \cup States
    /\ turn \in {"round", "sockets", "control"}
    /\ epoch \in 0..MaxMoves /\ changes \in 0..MaxChanges

(* Every sample that may vote was asked for on the clock as it is: no      *)
(* step, by whichever source, and no setting by hand, however the tables   *)
(* change between them, leaves one of an earlier clock in a filter.  Of a  *)
(* source there may be one exception: the reply to the request that was    *)
(* out when its filter was last emptied, which apply leaves to be taken.   *)
(* Nothing asked for on any other clock that is gone is held, or awaited.  *)
OneClock ==
    \A i \in DOMAIN entries :
       LET e == entries[i]
       IN  /\ e.pending \in {NoRequest, epoch, e.straddler}
           /\ e.held \subseteq {epoch, e.straddler}
           /\ e.straddler \in e.held => e.pending # e.straddler

(* A source that is marked as having something for the loop has reported   *)
(* it since the loop was last fed, so that nothing is fed in twice.        *)
FreshIsNews == \A i \in DOMAIN entries : entries[i].fresh => entries[i].unfed

(* The inductive invariant: a straddler's clock is gone, and a person's    *)
(* clock has no sources at all.                                            *)
IInv == /\ TypeOK /\ OneClock /\ FreshIsNews
        /\ \A i \in DOMAIN entries : entries[i].straddler < epoch
        /\ ~automatic => DOMAIN entries = {}

(* While the clock is a person's, no reply still on its way and no change  *)
(* of tables moves the clock or the loop.                                  *)
ManualUntouched ==
    [][~automatic /\ ~automatic' =>
          /\ state' = state
          /\ epoch' # epoch => turn = "control"]_vars

(* And peinit is told that nothing keeps the clock, though no poll will    *)
(* ever complete to tell it.                                               *)
ManualIsTold == ~automatic ~> (automatic \/ level = "unsynchronised")

(* publish_level: a machine that lost every source, "that is precisely     *)
(* when its level must fall".                                              *)
LevelFalls ==
    turn = "sockets" /\ (\A i \in DOMAIN entries : ~Reachable(entries[i]))
    => level # "synchronised"

(* Candidate.id: "Stable identity, so the caller can map a survivor back   *)
(* to a source".  The peer is read from the table for every status.        *)
PeerIsASource == peer # None => peer \in DOMAIN entries
=============================================================================
