---------------------------- MODULE DaemonProofs ----------------------------
(***************************************************************************)
(* Theorems about Daemon for any tables and any number of moves of the     *)
(* clock: its types, that only measurements of the clock as it is may      *)
(* vote, save of each source the reply to a request that a step found out, *)
(* that the loop is fed news only, and that nothing touches a clock that   *)
(* is a person's.                                                          *)
(*                                                                         *)
(* What IInv says of a table is said of each entry alone (Sound), so the   *)
(* lemmas follow one entry through each thing a turn may do to it.         *)
(***************************************************************************)
EXTENDS Daemon, WellFoundedInduction, TLAPS

Sound(e, clock) ==
    /\ e \in Entry
    /\ e.held # {} => Reachable(e)
    /\ e.straddler < clock
    /\ e.pending \in {NoRequest, clock, e.straddler}
    /\ e.held \subseteq {clock, e.straddler}
    /\ e.straddler \in e.held => e.pending # e.straddler
    /\ e.fresh => e.unfed

SoundTable(table, clock) ==
    /\ DOMAIN table \subseteq 1..MaxEntries
    /\ \A i \in DOMAIN table : Sound(table[i], clock)

(* What else a step has to keep: the types of all that is not a table.     *)
Rest == /\ automatic \in BOOLEAN
        /\ state \in States
        /\ peer \in Nat
        /\ level \in {"none", "unsynchronised"} \cup States
        /\ turn \in {"round", "sockets", "control"}
        /\ epoch \in 0..MaxMoves /\ changes \in 0..MaxChanges

(* IInv says two things apart: the types of Rest, and Sound of every       *)
(* entry.                                                                  *)
LEMMA IInvInParts == IInv <=> /\ Rest
                              /\ SoundTable(entries, epoch)
                              /\ ~automatic => DOMAIN entries = {}
  BY DEF IInv, TypeOK, OneClock, FreshIsNews, SoundTable, Sound, Rest

(* The same of the next state, the table and the clock given one by one.   *)
LEMMA IInvNext ==
  ASSUME Rest', SoundTable(entries', epoch'),
         ~automatic' => DOMAIN entries' = {}
  PROVE  IInv'
  BY DEF IInv, TypeOK, OneClock, FreshIsNews, SoundTable, Sound, Rest, Reachable

-----------------------------------------------------------------------------
(* One entry. *)

(* An entry just made holds nothing and is marked for nothing.             *)
LEMMA NewIsSound ==
  ASSUME NEW host \in Hosts, NEW clock \in Nat
  PROVE  Sound(NewEntry(host), clock)
  BY DaemonConstants DEF Sound, Entry, NewEntry, Requests, NoRequest

(* Of some of the first n numbers one is the largest: the least distance   *)
(* to n is that of one of them.                                            *)
LEMMA Largest ==
  ASSUME NEW n \in Nat, NEW T, T \subseteq 1..n, T # {}
  PROVE  \E i \in T : \A j \in T : j <= i
<1> DEFINE R == {ss \in Nat \X Nat : ss[1] < ss[2]}
           distances == {n - i : i \in T}
<1>1. IsWellFoundedOn(R, Nat)
  BY NatLessThanWellFounded DEF OpToRel
<1>2. distances \subseteq Nat /\ distances # {}
  <2>1. \A i \in T : n - i \in Nat
    OBVIOUS
  <2>2. PICK i \in T : TRUE
    OBVIOUS
  <2>3. n - i \in distances
    OBVIOUS
  <2> QED  BY <2>1, <2>3
<1> HIDE DEF R
<1>3. PICK x \in distances : \A y \in distances : ~(<<y, x>> \in R)
  <2> HIDE DEF distances
  <2> QED  BY <1>1, <1>2, WFMin
<1>4. PICK i \in T : x = n - i
  OBVIOUS
<1>5. ASSUME NEW j \in T PROVE j <= i
  <2>1. n - j \in distances /\ n - j \in Nat /\ x \in Nat
    BY <1>2
  <2>2. ~(n - j < x)  BY <1>3, <2>1 DEF R
  <2> QED  BY <1>4, <2>2
<1> QED  BY <1>5

(* rebuild_sources keeps an entry as it is, or makes a new one.            *)
LEMMA KeptIsSound ==
  ASSUME NEW clock \in Nat, SoundTable(entries, clock),
         NEW hosts, NEW k, hosts[k] \in Hosts
  PROVE  Sound(Kept(hosts, k), clock)
<1>1. CASE Former(hosts[k]) = {} \/ Repeated(hosts, k)
  BY <1>1, NewIsSound DEF Kept
<1>2. CASE ~(Former(hosts[k]) = {} \/ Repeated(hosts, k))
  <2> DEFINE T == Former(hosts[k])
  <2>1. T \subseteq 1..MaxEntries /\ T # {} /\ MaxEntries \in Nat
    BY <1>2, DaemonConstants DEF Former, SoundTable
  <2>2. \E i \in T : \A j \in T : j <= i
    <3> HIDE DEF T
    <3> QED  BY <2>1, Largest
  <2>3. LastFormer(hosts[k]) \in T
    BY <2>2 DEF LastFormer
  <2>4. Kept(hosts, k) = entries[LastFormer(hosts[k])]
    BY <1>2 DEF Kept
  <2> QED  BY <2>3, <2>4 DEF Former, SoundTable
<1> QED  BY <1>1, <1>2

(* A reset leaves nothing to be of the wrong clock, on this clock and on   *)
(* any later one.                                                          *)
LEMMA EmptiedIsSound ==
  ASSUME NEW clock \in Nat, NEW later \in Nat, NEW e, Sound(e, clock),
         later > clock \/ e.pending = NoRequest
  PROVE  Sound(Emptied(e), later)
<1>1. e \in Entry /\ e.pending \in Requests  BY DEF Sound, Entry
<1>2. /\ Emptied(e) \in Entry
      /\ Emptied(e).held = {} /\ Emptied(e).straddler = e.pending
      /\ Emptied(e).pending = e.pending
      /\ Emptied(e).fresh = e.fresh /\ Emptied(e).unfed = e.unfed
  BY <1>1 DEF Emptied, Entry
<1>3. e.pending < later
  <2>1. CASE e.pending = NoRequest  BY <2>1 DEF NoRequest
  <2>2. CASE later > clock
    <3>1. e.pending \in {NoRequest, clock, e.straddler} /\ e.straddler < clock
      BY DEF Sound
    <3>2. e.straddler \in Int  BY <1>1, DaemonConstants DEF Entry, Requests, NoRequest
    <3> QED  BY <3>1, <3>2, <2>2 DEF NoRequest
  <2> QED  BY <2>1, <2>2
<1> QED  BY <1>1, <1>2, <1>3 DEF Sound

(* A lost poll ends the request, and the last bit of the reach register    *)
(* takes the filter with it.                                               *)
LEMMA LostIsSound ==
  ASSUME NEW clock \in Nat, NEW e, Sound(e, clock)
  PROVE  Sound(Lost(e), clock)
<1> DEFINE alone == [e EXCEPT !.pending = NoRequest,
                              !.misses = AfterLoss(@)]
<1>1. e \in Entry  BY DEF Sound
<1>2. AfterLoss(e.misses) \in 0..ReachWidth
  BY <1>1, DaemonConstants DEF Entry, AfterLoss
<1>3. /\ alone \in Entry
      /\ alone.pending = NoRequest /\ alone.held = e.held
      /\ alone.straddler = e.straddler
      /\ alone.fresh = e.fresh /\ alone.unfed = e.unfed
  BY <1>1, <1>2 DEF Entry, Requests
<1>4. alone.held # {} /\ alone.straddler \in alone.held
      => alone.pending # alone.straddler
  BY <1>1, <1>3, DaemonConstants DEF Entry, NoRequest
<1>5. Lost(e) = IF Reachable(alone) THEN alone ELSE Emptied(alone)
  BY DEF Lost
<1> HIDE DEF alone
<1>6. CASE Reachable(alone)
  BY <1>3, <1>4, <1>5, <1>6 DEF Sound
<1>7. CASE ~Reachable(alone)
  <2>1. Emptied(alone) = [alone EXCEPT !.held = {}, !.straddler = alone.pending]
    BY DEF Emptied
  <2>2. /\ Emptied(alone) \in Entry
        /\ Emptied(alone).held = {} /\ Emptied(alone).straddler = NoRequest
        /\ Emptied(alone).pending = NoRequest
        /\ Emptied(alone).fresh = e.fresh /\ Emptied(alone).unfed = e.unfed
    BY <1>3, <2>1 DEF Entry
  <2> QED  BY <1>5, <1>7, <2>2 DEF Sound, NoRequest
<1> QED  BY <1>6, <1>7

(* A request that goes out is of the clock as it is, and leaves the filter *)
(* and the marks alone.                                                    *)
LEMMA PolledIsSound ==
  ASSUME epoch \in 0..MaxMoves, NEW e, Sound(e, epoch)
  PROVE  Sound(Polled(e), epoch)
<1>1. e \in Entry  BY DEF Sound
<1>2. /\ Polled(e) \in Entry
      /\ Polled(e).pending = epoch /\ Polled(e).straddler = e.straddler
      /\ Polled(e).misses = e.misses /\ Polled(e).held = e.held
      /\ Polled(e).fresh = e.fresh /\ Polled(e).unfed = e.unfed
  BY <1>1 DEF Polled, Entry, Requests
<1>3. e.straddler < epoch /\ epoch \in Int  BY DaemonConstants DEF Sound
<1> QED  BY <1>2, <1>3 DEF Sound, Reachable

(* take_reply adds to a filter only what was asked for on the clock as it  *)
(* is or by the straddler, whose sample is then the last of its clock, and *)
(* marks as fresh only what is news.                                       *)
LEMMA TookIsSound ==
  ASSUME epoch \in 0..MaxMoves, NEW e, Sound(e, epoch), NEW reply \in Replies,
         MayCome(e, reply)
  PROVE  Sound(Took(e, reply), epoch)
<1>1. e \in Entry  BY DEF Sound
<1>2. 0 \in 0..ReachWidth /\ 0 < ReachWidth  BY DaemonConstants
<1>3. CASE reply = "none"  BY <1>3 DEF Took, Accepted
<1>4. NoRequest \in Requests /\ ~(NoRequest \in 0..MaxMoves)
  BY DaemonConstants DEF Requests, NoRequest
<1>5. e.held \subseteq 0..MaxMoves  BY <1>1 DEF Entry
<1>6. CASE reply = "kiss"
  <2>1. Took(e, reply) = [e EXCEPT !.pending = NoRequest]
    BY <1>6 DEF Took, Accepted
  <2>2. /\ Took(e, reply) \in Entry
        /\ Took(e, reply).pending = NoRequest
        /\ Took(e, reply).straddler = e.straddler
        /\ Took(e, reply).misses = e.misses /\ Took(e, reply).held = e.held
        /\ Took(e, reply).fresh = e.fresh /\ Took(e, reply).unfed = e.unfed
    BY <2>1, <1>1, <1>4 DEF Entry
  <2> QED  BY <2>2, <1>4, <1>5 DEF Sound, Reachable
<1>7. CASE reply = "unsynced"
  <2>1. Took(e, reply) = [e EXCEPT !.pending = NoRequest, !.misses = 0]
    BY <1>7 DEF Took, Accepted
  <2>2. /\ Took(e, reply) \in Entry
        /\ Took(e, reply).pending = NoRequest
        /\ Took(e, reply).straddler = e.straddler
        /\ Took(e, reply).misses = 0 /\ Took(e, reply).held = e.held
        /\ Took(e, reply).fresh = e.fresh /\ Took(e, reply).unfed = e.unfed
    BY <2>1, <1>1, <1>2, <1>4 DEF Entry
  <2> QED  BY <2>2, <1>2, <1>4, <1>5 DEF Sound, Reachable
<1>8. CASE reply \in Accepted
  <2> DEFINE news == reply = "update"
             taken == [e EXCEPT !.pending = NoRequest, !.misses = 0,
                                !.held = @ \cup {e.pending}, !.fresh = news,
                                !.unfed = @ \/ news]
  <2>1. Took(e, reply) = taken  BY <1>8 DEF Took, Accepted
  <2>2. e.pending \in 0..MaxMoves /\ e.pending \in {epoch, e.straddler}
    BY <1>1, <1>8 DEF MayCome, Waiting, Accepted, Sound, Entry, Requests
  <2>3. /\ taken \in Entry
        /\ taken.pending = NoRequest /\ taken.straddler = e.straddler
        /\ taken.misses = 0 /\ taken.held = e.held \cup {e.pending}
        /\ taken.fresh = news /\ taken.unfed = (e.unfed \/ news)
    BY <1>1, <1>2, <1>4, <2>2 DEF Entry
  <2>4. taken.held \subseteq {epoch, e.straddler}
    BY <2>2, <2>3 DEF Sound
  <2>5. taken.straddler \in taken.held => taken.pending # taken.straddler
    BY <1>4, <1>5, <2>2, <2>3
  <2> HIDE DEF taken
  <2> QED  BY <2>1, <2>3, <2>4, <2>5, <1>2 DEF Sound, Reachable
<1> QED  BY <1>3, <1>6, <1>7, <1>8 DEF Replies, Accepted

(* The marks cleared by a feeding, and the filters emptied by a step.      *)
LEMMA FedIsSound ==
  ASSUME NEW clock, NEW table, SoundTable(table, clock)
  PROVE  SoundTable(Fed(table), clock)
<1> SUFFICES ASSUME NEW i \in DOMAIN table
             PROVE  Sound(Fed(table)[i], clock)
  BY DEF SoundTable, Fed
<1> DEFINE e == table[i]
<1>1. Sound(e, clock) /\ e \in Entry  BY DEF SoundTable, Sound
<1>2. Fed(table)[i] = [e EXCEPT !.fresh = FALSE, !.unfed = FALSE]
  BY DEF Fed
<1>3. /\ Fed(table)[i] \in Entry
      /\ Fed(table)[i].pending = e.pending
      /\ Fed(table)[i].straddler = e.straddler
      /\ Fed(table)[i].misses = e.misses /\ Fed(table)[i].held = e.held
      /\ Fed(table)[i].fresh = FALSE
  BY <1>1, <1>2 DEF Entry
<1> QED  BY <1>1, <1>3 DEF Sound, Reachable

(* Emptied filters are right for any later clock.                          *)
LEMMA VoidedIsSound ==
  ASSUME NEW clock \in Nat, NEW later \in Nat, later > clock,
         NEW table, SoundTable(table, clock)
  PROVE  SoundTable(Voided(table), later)
<1> SUFFICES ASSUME NEW i \in DOMAIN table
             PROVE  Sound(Voided(table)[i], later)
  BY DEF SoundTable, Voided
<1>1. Sound(table[i], clock)  BY DEF SoundTable
<1>2. Voided(table)[i] = Emptied(table[i])  BY DEF Voided
<1> QED  BY <1>1, <1>2, EmptiedIsSound

-----------------------------------------------------------------------------
(* Whole tables. *)

(* A table rebuilt is sound if the one before it was, and one rebuilt for  *)
(* a person is empty.                                                      *)
LEMMA RebuiltIsSound ==
  ASSUME IInv, NEW auto \in BOOLEAN, NEW hosts \in Tables
  PROVE  /\ SoundTable(Rebuilt(auto, hosts), epoch)
         /\ ~auto => DOMAIN Rebuilt(auto, hosts) = {}
<1>0. epoch \in Nat  BY DaemonConstants DEF IInv, TypeOK
<1>1. hosts \in Seq(Hosts)  BY DaemonConstants
<1>2. DOMAIN hosts \subseteq 1..MaxEntries
  BY <1>1, DaemonConstants
<1>3. \A k \in DOMAIN hosts : hosts[k] \in Hosts  BY <1>1
<1>4. CASE auto
  <2>1. Rebuilt(auto, hosts) = [k \in DOMAIN hosts |-> Kept(hosts, k)]
    BY <1>4 DEF Rebuilt
  <2>2. SoundTable(entries, epoch)  BY IInvInParts
  <2>3. \A k \in DOMAIN hosts : Sound(Kept(hosts, k), epoch)
    BY <1>3, <2>2, <1>0, KeptIsSound
  <2> QED  BY <2>1, <2>3, <1>2, <1>4 DEF SoundTable
<1>5. CASE ~auto
  <2>1. Rebuilt(auto, hosts) = << >>  BY <1>5 DEF Rebuilt
  <2>2. DOMAIN Rebuilt(auto, hosts) = {}  BY <2>1
  <2> QED  BY <2>2 DEF SoundTable
<1> QED  BY <1>4, <1>5

(* So is the table after all the replies of a turn are taken.              *)
LEMMA RepliesAreSound ==
  ASSUME IInv, NEW replies \in [DOMAIN entries -> Replies],
         \A i \in DOMAIN entries : MayCome(entries[i], replies[i])
  PROVE  SoundTable([i \in DOMAIN entries |-> Took(entries[i], replies[i])],
                    epoch)
<1>1. SoundTable(entries, epoch) /\ epoch \in 0..MaxMoves
  BY IInvInParts DEF IInv, TypeOK
<1>2. \A i \in DOMAIN entries : Sound(Took(entries[i], replies[i]), epoch)
  BY <1>1, TookIsSound DEF SoundTable
<1> QED  BY <1>1, <1>2 DEF SoundTable

-----------------------------------------------------------------------------
(* The invariant. *)

(* The process starts with new entries on the first clock.                 *)
LEMMA InitIInv == Init => IInv
<1> SUFFICES ASSUME Init PROVE IInv
  OBVIOUS
<1>1. Rest  BY DaemonConstants DEF Init, Rest, States, None
<1>2. SoundTable(entries, epoch) /\ (~automatic => DOMAIN entries = {})
  <2>1. CASE ~automatic
    <3>1. entries = << >>  BY <2>1 DEF Init
    <3>2. DOMAIN entries = {}  BY <3>1
    <3> QED  BY <3>2 DEF SoundTable
  <2>2. CASE automatic
    <3>1. PICK t \in Tables : entries = [k \in DOMAIN t |-> NewEntry(t[k])]
      BY <2>2 DEF Init
    <3>2. t \in Seq(Hosts)  BY DaemonConstants
    <3>3. /\ DOMAIN t \subseteq 1..MaxEntries
          /\ \A k \in DOMAIN t : t[k] \in Hosts
      BY <3>2, DaemonConstants
    <3>4. \A k \in DOMAIN t : Sound(NewEntry(t[k]), epoch)
      BY <3>3, NewIsSound DEF Init
    <3> QED  BY <3>1, <3>3, <3>4, <2>2 DEF SoundTable
  <2> QED  BY <2>1, <2>2
<1> QED  BY <1>1, <1>2, IInvInParts

(* A reload, or the rebuild that leases call for, keeps the parts of IInv. *)
LEMMA RebuildKeeps ==
  ASSUME IInv, NEW auto \in BOOLEAN, NEW hosts \in Tables,
         Rebuild(auto, hosts)
  PROVE  /\ SoundTable(entries', epoch')
         /\ ~automatic' => DOMAIN entries' = {}
         /\ automatic' \in BOOLEAN /\ state' \in States /\ peer' \in Nat
         /\ level' = level /\ epoch' = epoch /\ changes' \in 0..MaxChanges
<1>1. /\ entries' = Rebuilt(auto, hosts)
      /\ epoch' = epoch /\ automatic' = auto /\ level' = level
  BY DEF Rebuild
<1>2. SoundTable(Rebuilt(auto, hosts), epoch)
  BY RebuiltIsSound
<1>3. ~auto => DOMAIN Rebuilt(auto, hosts) = {}
  BY RebuiltIsSound
<1>4. state' \in States /\ peer' \in Nat /\ changes' \in 0..MaxChanges
  BY DaemonConstants DEF Rebuild, IInv, TypeOK, States, None
<1> QED  BY <1>1, <1>2, <1>3, <1>4 DEF SoundTable

(* So does the first half of a turn.                                       *)
LEMMA RoundKeeps ==
  ASSUME IInv, NEW polled, NEW lost, Round(polled, lost)
  PROVE  IInv'
<1>0. epoch \in Nat  BY DaemonConstants DEF IInv, TypeOK
<1>1. Rest /\ SoundTable(entries, epoch) /\ (~automatic => DOMAIN entries = {})
  BY IInvInParts
<1> DEFINE after(i) == IF i \in lost THEN Lost(entries[i])
                       ELSE IF i \in polled
                       THEN Polled(entries[i])
                       ELSE entries[i]
<1>2. /\ entries' = [i \in DOMAIN entries |-> after(i)]
      /\ epoch' = epoch /\ automatic' = automatic
  BY DEF Round
<1>3. \A i \in DOMAIN entries : Sound(after(i), epoch)
  BY <1>1, <1>0, LostIsSound, PolledIsSound DEF SoundTable, Rest
<1>4. SoundTable(entries', epoch')
  <2> HIDE DEF after
  <2> QED  BY <1>1, <1>2, <1>3 DEF SoundTable
<1>5. DOMAIN entries' = DOMAIN entries  BY <1>2
<1>6. Rest'  BY <1>1 DEF Round, Rest, Told, SyncState, States
<1> QED  BY <1>1, <1>2, <1>4, <1>5, <1>6, IInvNext

(* decide, on a table of sound entries.                                    *)
LEMMA SteeredKeeps ==
  ASSUME IInv, NEW table, SoundTable(table, epoch), NEW p \in DOMAIN table,
         Steered(table, p)
  PROVE  /\ SoundTable(entries', epoch')
         /\ DOMAIN entries' = DOMAIN table
         /\ state' \in States /\ peer' \in Nat /\ epoch' \in 0..MaxMoves
<1>1. state \in States /\ epoch \in 0..MaxMoves /\ MaxMoves \in Nat
  BY DaemonConstants DEF IInv, TypeOK
<1>2. peer' \in Nat  BY DaemonConstants DEF Steered, SoundTable
<1>3. DOMAIN Fed(table) = DOMAIN table  BY DEF Fed
<1>4. SoundTable(Fed(table), epoch)  BY FedIsSound
<1>5. CASE \E i \in DOMAIN table : table[i].fresh
  <2> DEFINE fed == Fed(table)
  <2>1. Apply(fed)  BY <1>5 DEF Steered
  <2> HIDE DEF fed
  <2>2. SoundTable(fed, epoch) /\ DOMAIN fed = DOMAIN table
    BY <1>3, <1>4 DEF fed
  <2>3. CASE Rate(fed)
    <3>1. state' \in States
      BY <1>1, <2>3 DEF Rate, AfterRate, States
    <3> QED  BY <1>1, <1>2, <2>2, <2>3, <3>1 DEF Rate
  <2>4. CASE Hold(fed)
    BY <1>1, <1>2, <2>2, <2>4 DEF Hold, States
  <2>5. CASE Panic(fed)
    BY <1>1, <1>2, <2>2, <2>5 DEF Panic
  <2>6. CASE Step(fed)
    <3>1. state' \in States  BY <2>6 DEF Step, States
    <3>2. CASE entries' = fed /\ epoch' = epoch
      BY <1>1, <1>2, <2>2, <3>1, <3>2
    <3>3. CASE /\ epoch < MaxMoves /\ epoch' = epoch + 1
               /\ entries' = Voided(fed)
      <4>1. SoundTable(Voided(fed), epoch + 1)
        <5>1. epoch \in Nat /\ epoch + 1 \in Nat /\ epoch + 1 > epoch
          BY <1>1
        <5> QED  BY <2>2, <5>1, VoidedIsSound
      <4>2. DOMAIN Voided(fed) = DOMAIN table  BY <2>2 DEF Voided
      <4>3. epoch' \in 0..MaxMoves  BY <1>1, <3>3
      <4>4. SoundTable(entries', epoch')  BY <4>1, <3>3
      <4> QED  BY <1>2, <3>1, <3>3, <4>2, <4>3, <4>4
    <3> QED  BY <2>6, <3>2, <3>3 DEF Step
  <2> QED  BY <2>1, <2>3, <2>4, <2>5, <2>6 DEF Apply
<1>6. CASE ~\E i \in DOMAIN table : table[i].fresh
  BY <1>1, <1>2, <1>6 DEF Steered
<1> QED  BY <1>5, <1>6

(* So do the replies, with the decision they lead to.                      *)
LEMMA ServiceKeeps ==
  ASSUME IInv, NEW replies \in [DOMAIN entries -> Replies], Service(replies)
  PROVE  IInv'
<1> DEFINE table == [i \in DOMAIN entries |-> Took(entries[i], replies[i])]
<1>1. Rest /\ (~automatic => DOMAIN entries = {})
  BY IInvInParts
<1>2. SoundTable(table, epoch)  BY RepliesAreSound DEF Service
<1>3. DOMAIN table = DOMAIN entries  OBVIOUS
<1>4. \/ NoSelection(table)
      \/ \E p \in DOMAIN table : Steered(table, p)
  BY DEF Service
<1>5. /\ automatic' = automatic /\ level' = level /\ changes' = changes
      /\ turn' = "control"
  BY DEF Service
<1> HIDE DEF table
<1>6. /\ SoundTable(entries', epoch') /\ DOMAIN entries' = DOMAIN entries
      /\ state' \in States /\ peer' \in Nat /\ epoch' \in 0..MaxMoves
  <2>1. CASE NoSelection(table)
    BY <1>1, <1>2, <1>3, <2>1 DEF NoSelection, Rest
  <2>2. CASE \E p \in DOMAIN table : Steered(table, p)
    BY <1>2, <1>3, <2>2, SteeredKeeps
  <2> QED  BY <1>4, <2>1, <2>2
<1>7. Rest'  BY <1>1, <1>5, <1>6 DEF Rest
<1> QED  BY <1>1, <1>5, <1>6, <1>7, IInvNext

(* Every step of a turn keeps the invariant.                               *)
LEMMA NextIInv == IInv /\ [Next]_vars => IInv'
<1> SUFFICES ASSUME IInv, [Next]_vars PROVE IInv'
  OBVIOUS
<1>1. Rest /\ SoundTable(entries, epoch) /\ (~automatic => DOMAIN entries = {})
  BY IInvInParts
<1>2. ASSUME NEW auto \in BOOLEAN, NEW hosts \in Tables,
             TakeConfiguration(auto, hosts) \/ ReloadOrdered(auto, hosts)
      PROVE  IInv'
  <2>1. Rebuild(auto, hosts)
    BY <1>2 DEF TakeConfiguration, ReloadOrdered
  <2>2. turn' \in {"round", "sockets", "control"}
    BY <1>2 DEF TakeConfiguration, ReloadOrdered, Serving
  <2>3. /\ SoundTable(entries', epoch') /\ (~automatic' => DOMAIN entries' = {})
        /\ automatic' \in BOOLEAN /\ state' \in States /\ peer' \in Nat
        /\ level' = level /\ epoch' = epoch /\ changes' \in 0..MaxChanges
    BY <2>1, RebuildKeeps
  <2>4. Rest'  BY <1>1, <2>2, <2>3 DEF Rest
  <2> QED  BY <2>3, <2>4, IInvNext
<1>3. ASSUME NEW polled, NEW lost, Round(polled, lost)
      PROVE  IInv'
  BY <1>3, RoundKeeps
<1>4. ASSUME NEW replies \in [DOMAIN entries -> Replies], Service(replies)
      PROVE  IInv'
  BY <1>4, ServiceKeeps
<1>5. CASE Served
  <2>1. Rest'  BY <1>1, <1>5 DEF Served, Rest
  <2> QED  BY <1>1, <2>1, <1>5, IInvNext DEF Served, SoundTable
<1>6. CASE SetByHand
  <2>1. Rest'
    BY <1>1, <1>6, DaemonConstants DEF SetByHand, Serving, Rest
  <2>2. DOMAIN entries' = {} /\ entries' = entries
    BY <1>1, <1>6 DEF SetByHand
  <2>3. SoundTable(entries', epoch')  BY <2>2 DEF SoundTable
  <2> QED  BY <2>1, <2>2, <2>3, IInvNext
<1>7. CASE UNCHANGED vars
  <2>1. Rest'  BY <1>1, <1>7 DEF vars, Rest
  <2> QED  BY <1>1, <2>1, <1>7, IInvNext DEF vars, SoundTable
<1> QED  BY <1>2, <1>3, <1>4, <1>5, <1>6, <1>7 DEF Next

-----------------------------------------------------------------------------
(* The theorems. *)

(* The invariant holds in every reachable state.                           *)
THEOREM Invariance == Spec => []IInv
<1>1. Init => IInv  BY InitIInv
<1>2. IInv /\ [Next]_vars => IInv'  BY NextIInv
<1> QED  BY <1>1, <1>2, PTL DEF Spec

(* A source that went silent holds no samples, and all types are kept.     *)
THEOREM TypeCorrect == Spec => []TypeOK
<1>1. IInv => TypeOK  BY DEF IInv
<1> QED  BY <1>1, Invariance, PTL

(* No sample asked for on an earlier clock is in any filter, however       *)
(* steps, hands and reloads follow one another and whoever they come from: *)
(* save, of each source, the reply to the request that was out when its    *)
(* filter was last emptied.                                                *)
THEOREM VotesAreOfOneClock == Spec => []OneClock
<1>1. IInv => OneClock  BY DEF IInv
<1> QED  BY <1>1, Invariance, PTL

(* A source marked fresh has reported something since the loop was last    *)
(* fed.                                                                    *)
THEOREM NothingIsFedTwice == Spec => []FreshIsNews
<1>1. IInv => FreshIsNews  BY DEF IInv
<1> QED  BY <1>1, Invariance, PTL

(* While Automatic is 0 only set_by_hand moves the clock, and nothing      *)
(* moves the discipline: there is no source left for a reply to reach.     *)
THEOREM ManualIsUntouched == Spec => ManualUntouched
<1> DEFINE Untouched == ~automatic /\ ~automatic' =>
                           /\ state' = state
                           /\ epoch' # epoch => turn = "control"
<1>1. IInv /\ [Next]_vars => [Untouched]_vars
  <2> SUFFICES ASSUME IInv, [Next]_vars, ~automatic, ~automatic'
               PROVE  /\ state' = state
                      /\ epoch' # epoch => turn = "control"
    OBVIOUS
  <2>1. DOMAIN entries = {}  BY DEF IInv
  <2>2. ASSUME NEW auto \in BOOLEAN, NEW hosts \in Tables,
               TakeConfiguration(auto, hosts) \/ ReloadOrdered(auto, hosts)
        PROVE  state' = state /\ epoch' = epoch
    <3>1. Rebuild(auto, hosts)
      BY <2>2 DEF TakeConfiguration, ReloadOrdered
    <3> QED  BY <3>1 DEF Rebuild
  <2>3. ASSUME NEW replies \in [DOMAIN entries -> Replies], Service(replies)
        PROVE  state' = state /\ epoch' = epoch
    BY <2>1, <2>3 DEF Service, NoSelection
  <2>4. ASSUME NEW polled, NEW lost, Round(polled, lost)
        PROVE  state' = state /\ epoch' = epoch
    BY <2>4 DEF Round
  <2>5. CASE Served  BY <2>5 DEF Served
  <2>6. CASE SetByHand  BY <2>6 DEF SetByHand, Serving
  <2>7. CASE UNCHANGED vars  BY <2>7 DEF vars
  <2> QED  BY <2>2, <2>3, <2>4, <2>5, <2>6, <2>7 DEF Next
<1> QED  BY <1>1, Invariance, PTL DEF Spec, ManualUntouched
=============================================================================
