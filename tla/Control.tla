------------------------------ MODULE Control ------------------------------
(***************************************************************************)
(* The control socket (timed/src/control.rs; service_control, publish,     *)
(* snapshot, status, sources and set_by_hand of main.rs), the requests     *)
(* and replies of libtimed, and the callers.  One thread serves them, one  *)
(* after the other, and waits for each to say what it wants.               *)
(*                                                                         *)
(* What a caller is sent lies in its inbox until it reads it.  Room is the *)
(* number of snapshots a subscriber's socket holds; a push that does not   *)
(* fit may still have put its first bytes there ("torn").  Replies other   *)
(* than snapshots always fit.  generation is a u64 that never ends; it is  *)
(* counted round a ring, in which one left out shows.  Of the daemon's     *)
(* state only what snapshots and replies tell is here: Daemon says how it  *)
(* comes about.                                                            *)
(*                                                                         *)
(* A turn of the loop takes up the configuration, sleeps, takes replies    *)
(* and serves the callers, and what happens outside is seen in the last    *)
(* two: the rest takes no time.                                            *)
(*                                                                         *)
(* latest is the last snapshot sent whole to each subscriber, and          *)
(* unannounced says that the state changed with nothing published since;   *)
(* the code has neither.                                                   *)
(***************************************************************************)
EXTENDS Integers, Sequences, FiniteSets, SequencesExt

CONSTANTS
    Clients,
    Trusted,       \* those the control object grants TIME_CONTROL
    MaxClients,
    Room,
    Ring,
    ChunkSize,     \* SOURCES_PER_CHUNK
    Lengths,       \* how many sources there may be
    Requests(_)    \* what a caller may want

Queries == {"status", "sources", "subscribe"}
Orders == {"reload", "set"}
Unread == {"silent", "garbage"}

ASSUME ControlConstants ==
    /\ Trusted \subseteq Clients
    /\ MaxClients \in Nat \ {0} /\ Room \in Nat \ {0}
    /\ Ring \in Nat /\ Ring > 2
    /\ ChunkSize \in Nat \ {0} /\ Lengths \subseteq Nat
    /\ \A c \in Clients : Requests(c) \subseteq Queries \cup Orders \cup Unread

VARIABLES
    backlog,       \* the listener's queue
    wants,         \* what each caller wrote
    gone,          \* callers that closed their end
    subscribers,
    inbox,
    automatic, generation, synchronised,
    turn,
    latest, unannounced

callers == <<backlog, wants, gone, subscribers, inbox, latest>>
told == <<automatic, generation, synchronised, unannounced>>
controlVars == <<callers, told, turn>>

(* required_right and permits.                                             *)
Permitted(c, request) == request \in Queries \/ c \in Trusted

-----------------------------------------------------------------------------
(* What is sent *)

Accepted == [is |-> "ok"]
Error == [is |-> "error"]
Torn == [is |-> "torn"]

Snapshot == [is |-> "snapshot", generation |-> generation,
             synchronised |-> synchronised]
Status == [is |-> "status", manual |-> ~automatic]

(* The list of n sources in chunks; an empty one is a chunk all the same.  *)
ChunksOf(n) == (n + ChunkSize - 1) \div ChunkSize
Listing(n) ==
    IF n = 0 THEN << [is |-> "sources", upto |-> 0, more |-> FALSE] >>
    ELSE [i \in 1..ChunksOf(n) |->
             [is |-> "sources",
              upto |-> IF i * ChunkSize < n THEN i * ChunkSize ELSE n,
              more |-> i < ChunksOf(n)]]

Send(c, frames) ==
    inbox' = IF c \in gone THEN inbox ELSE [inbox EXCEPT ![c] = @ \o frames]

-----------------------------------------------------------------------------
ControlInit ==
    /\ backlog = << >> /\ subscribers = {}
    /\ wants = [c \in Clients |-> "silent"]
    /\ gone = {}
    /\ inbox = [c \in Clients |-> << >>]
    /\ automatic \in BOOLEAN
    /\ generation = 0 /\ synchronised = FALSE /\ unannounced = FALSE
    /\ latest = [c \in Clients |-> Error]
    /\ turn = "round"

(* send_nonblocking to each subscriber; one that cannot take it is         *)
(* dropped.  torn are those of whose sockets some of it fitted.            *)
Takes(c) == c \notin gone /\ Len(inbox[c]) < Room

KeepsAll(c) == TRUE
Stays(c) == Takes(c)

Pushed(torn, snapshot) ==
    /\ torn \subseteq {c \in subscribers \ gone : ~Takes(c)}
    /\ subscribers' = {c \in subscribers : Stays(c)}
    /\ inbox' = [c \in Clients |->
                    IF c \notin subscribers THEN inbox[c]
                    ELSE IF Takes(c) THEN Append(inbox[c], snapshot)
                    ELSE IF c \in torn THEN Append(inbox[c], Torn)
                    ELSE inbox[c]]
    /\ latest' = [c \in Clients |->
                     IF c \notin subscribers' THEN Error
                     ELSE IF Takes(c) THEN snapshot ELSE latest[c]]
    /\ gone' = gone \ subscribers
    /\ UNCHANGED <<backlog, wants>>

(* decide publishes when there is a selection, which counts, and when      *)
(* there is no majority, which does not.                                   *)
PublishFirst(torn) == Pushed(torn, Snapshot)
Publish(torn) == Pushed(torn, Snapshot')

Selected(torn) ==
    /\ automatic
    /\ generation' = (generation + 1) % Ring
    /\ synchronised' \in BOOLEAN
    /\ unannounced' = FALSE
    /\ UNCHANGED automatic
    /\ Publish(torn)

NoMajority(torn) ==
    /\ automatic
    /\ unannounced' = FALSE
    /\ UNCHANGED <<automatic, generation, synchronised>>
    /\ Publish(torn)

(* reload: a clock taken over or given back starts unsynchronised, and     *)
(* nobody is told.                                                         *)
Reconfigured(auto) ==
    /\ automatic' = auto
    /\ synchronised' = (synchronised /\ auto = automatic)
    /\ unannounced' = (unannounced \/ (synchronised /\ auto # automatic))
    /\ UNCHANGED generation

-----------------------------------------------------------------------------
(* service_control: the caller at the head of the queue. *)

Serves(c) ==
    /\ backlog # << >>
    /\ c = Head(backlog)
    /\ backlog' = Tail(backlog)
    /\ wants' = [wants EXCEPT ![c] = "silent"]

(* Its connection is closed after the reply.                               *)
Answers(c, frames) ==
    /\ Serves(c)
    /\ Send(c, frames)
    /\ gone' = gone \ {c}
    /\ UNCHANGED <<subscribers, latest>>

TooMany == Cardinality(subscribers) >= MaxClients

TurnsAway(c) ==
    /\ TooMany
    /\ Answers(c, <<Error>>)
    /\ UNCHANGED told

(* read_request gives up after CLIENT_TIMEOUT on one that says nothing;    *)
(* permits refuses also whoever's token cannot be read.                    *)
WaitsForIt(c) == wants[c] = "garbage" \/ (wants[c] = "silent" /\ c \in gone)
Unusable(c) == wants[c] \in Unread

Refuses(c) ==
    /\ ~TooMany
    /\ wants[c] \in Unread => Unusable(c)
    /\ Answers(c, <<Error>>)
    /\ UNCHANGED told

Understands(c, request) ==
    /\ ~TooMany
    /\ wants[c] = request
    /\ Permitted(c, request)

TellsStatus(c) ==
    /\ Understands(c, "status")
    /\ Answers(c, <<Status>>)
    /\ UNCHANGED told

ListsSources(c) ==
    /\ Understands(c, "sources")
    /\ \E n \in IF automatic THEN Lengths ELSE {0} : Answers(c, Listing(n))
    /\ UNCHANGED told

Subscribes(c) ==
    /\ Understands(c, "subscribe")
    /\ Serves(c)
    /\ Send(c, <<Snapshot>>)
    /\ IF c \in gone
       THEN UNCHANGED <<subscribers, latest>>
       ELSE /\ subscribers' = subscribers \cup {c}
            /\ latest' = [latest EXCEPT ![c] = Snapshot]
    /\ gone' = gone \ {c}
    /\ UNCHANGED told

Reloads(c, auto) ==
    /\ Understands(c, "reload")
    /\ Answers(c, <<Accepted>>)
    /\ Reconfigured(auto)

(* clock.step may fail, and the clock is nobody's to set while timed keeps *)
(* it.                                                                     *)
Sets(c) ==
    /\ Understands(c, "set")
    /\ \/ Answers(c, <<Error>>)
       \/ ~automatic /\ Answers(c, <<Accepted>>)
    /\ UNCHANGED told

Serve(c) ==
    \/ TurnsAway(c) \/ Refuses(c)
    \/ TellsStatus(c) \/ ListsSources(c) \/ Subscribes(c)
    \/ \E auto \in BOOLEAN : Reloads(c, auto)
    \/ Sets(c)

-----------------------------------------------------------------------------
(* The turn. *)

(* check_registry.                                                         *)
Round(auto) ==
    /\ turn = "round"
    /\ turn' = "wait"
    /\ Reconfigured(auto)
    /\ UNCHANGED callers

(* service_sockets: a poll may be completed.                               *)
Completes ==
    /\ turn = "wait"
    /\ turn' = "control"
    /\ \E torn \in SUBSET subscribers :
          Selected(torn) \/ NoMajority(torn)

HearsNothing ==
    /\ turn = "wait"
    /\ turn' = "control"
    /\ UNCHANGED <<callers, told>>

Serving(c) ==
    /\ turn = "control"
    /\ Serve(c)
    /\ UNCHANGED turn

(* The queue is empty.                                                     *)
Served ==
    /\ turn = "control"
    /\ backlog = << >>
    /\ turn' = "round"
    /\ UNCHANGED <<callers, told>>

Loop ==
    \/ \E auto \in BOOLEAN : Round(auto)
    \/ Completes \/ HearsNothing \/ Served
    \/ \E c \in Clients : Serving(c)

-----------------------------------------------------------------------------
(* The callers *)

Away(c) == c \notin ToSet(backlog) \cup subscribers /\ inbox[c] = << >>

Connects(c, request) ==
    /\ Away(c)
    /\ wants' = [wants EXCEPT ![c] = request]
    /\ backlog' = Append(backlog, c)
    /\ UNCHANGED <<gone, subscribers, inbox, latest>>

Reads(c) ==
    /\ inbox[c] # << >>
    /\ inbox' = [inbox EXCEPT ![c] =
                     IF Head(@).is = "snapshot" THEN Tail(@) ELSE << >>]
    /\ UNCHANGED <<backlog, wants, gone, subscribers, latest>>

Leaves(c) ==
    /\ c \in ToSet(backlog) \cup subscribers
    /\ gone' = gone \cup {c}
    /\ inbox' = [inbox EXCEPT ![c] = << >>]
    /\ UNCHANGED <<backlog, wants, subscribers, latest>>

Comes(c) ==
    /\ turn \in {"wait", "control"}
    /\ \/ Reads(c) \/ Leaves(c)
       \/ \E request \in Requests(c) : Connects(c, request)
    /\ UNCHANGED <<told, turn>>

ControlNext == Loop \/ \E c \in Clients : Comes(c)

(* The loop goes round and callers do not keep its queue from ever being   *)
(* empty; polls go on being completed.                                     *)
ControlSpec ==
    /\ ControlInit /\ [][ControlNext]_controlVars
    /\ WF_controlVars(Loop)
    /\ SF_controlVars(Served)
    /\ SF_controlVars(Completes)

-----------------------------------------------------------------------------
(* Properties *)

Frames == {Accepted, Error, Torn}
          \cup [is : {"snapshot"}, generation : 0..Ring - 1,
                synchronised : BOOLEAN]
          \cup [is : {"status"}, manual : BOOLEAN]
          \cup [is : {"sources"}, upto : Nat, more : BOOLEAN]

ControlTypeOK ==
    /\ backlog \in Seq(Clients) /\ subscribers \subseteq Clients
    /\ wants \in [Clients -> Queries \cup Orders \cup Unread]
    /\ gone \subseteq Clients
    /\ inbox \in [Clients -> Seq(Frames)] /\ latest \in [Clients -> Frames]
    /\ automatic \in BOOLEAN /\ synchronised \in BOOLEAN
    /\ unannounced \in BOOLEAN
    /\ generation \in 0..Ring - 1
    /\ Cardinality(subscribers) <= MaxClients

(* send_nonblocking and publish: what a subscriber reads is a run of whole *)
(* snapshots with none left out, and nothing ever follows one that was     *)
(* cut off, whoever stopped reading when.                                  *)
Follows(frame, before) ==
    /\ before.is # "torn"
    /\ frame.is = "snapshot" =>
          frame.generation \in
              {before.generation, (before.generation + 1) % Ring}

RunsOfSnapshots ==
    \A c \in Clients : \A i \in 2..Len(inbox[c]) :
        inbox[c][1].is = "snapshot" => Follows(inbox[c][i], inbox[c][i - 1])

(* A subscriber that is kept holds the state as it is: the last snapshot   *)
(* it was sent is the one it would be sent now, from the moment of its     *)
(* subscription on, unless the configuration was changed in between, which *)
(* nobody is told.                                                         *)
SubscribersAreCurrent ==
    unannounced \/ \A c \in subscribers : latest[c] = Snapshot

(* sources_of: the chunks a caller reads end where the list does.          *)
ListsAreWhole ==
    \A c \in Clients : \A i \in DOMAIN inbox[c] :
        inbox[c][i].is = "sources" =>
            /\ inbox[c][i].more <=> i < Len(inbox[c])
            /\ inbox[c][i].upto <= i * ChunkSize
            /\ IF inbox[c][i].more THEN inbox[c][i].upto = i * ChunkSize
               ELSE inbox[c][i].upto \in Lengths \cup {0}

(* What a caller is sent can be read to its end.                           *)
FramesAreWhole == RunsOfSnapshots /\ ListsAreWhole

(* publish and service_control: a subscriber that went away gives its      *)
(* place back, while timed keeps the clock and polls are completed.  Until *)
(* then it counts, and at the limit nobody is served.                      *)
TheDeadAreFound ==
    \A c \in Clients :
        c \in gone /\ c \in subscribers
            ~> c \notin subscribers \/ ~automatic

(* read_request and the loop around it: whoever connects is served in the  *)
(* end, behind callers that say nothing as well.                           *)
EveryoneIsServed ==
    \A c \in Clients : c \in ToSet(backlog) ~> c \notin ToSet(backlog)

(* The inductive invariant.  A caller waits once, with nothing to read;    *)
(* who is gone waits or subscribes; a subscriber has read nothing but      *)
(* snapshots, up to the latest, which is of this generation; and anyone    *)
(* else has the end of such a run, or one reply.                           *)
UpToDate(c) ==
    /\ \E s \in BOOLEAN :
          /\ latest[c] = [is |-> "snapshot", generation |-> generation,
                          synchronised |-> s]
          /\ unannounced \/ s = synchronised
    /\ inbox[c] # << >> => inbox[c][Len(inbox[c])] = latest[c]

Run(frames) ==
    /\ \A i \in 1..Len(frames) : frames[i].is \in {"snapshot", "torn"}
    /\ \A i \in 2..Len(frames) : Follows(frames[i], frames[i - 1])

Reply(frames) ==
    \/ Len(frames) = 1 /\ frames[1].is \in {"ok", "error", "status"}
    \/ \E n \in Lengths \cup {0} : frames = Listing(n)

Sound(c) ==
    /\ c \in ToSet(backlog) => c \notin subscribers /\ inbox[c] = << >>
    /\ c \in gone => c \in ToSet(backlog) \cup subscribers
                      /\ inbox[c] = << >>
    /\ c \in subscribers => UpToDate(c) /\ Run(inbox[c])
    /\ Run(inbox[c]) \/ Reply(inbox[c])

ControlIInv ==
    /\ ControlTypeOK /\ IsFiniteSet(subscribers)
    /\ IsInjective(backlog) /\ \A c \in Clients : Sound(c)
=============================================================================
