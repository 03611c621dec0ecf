----------------------------- MODULE MCChannels -----------------------------
(* The channels side by side: a behaviour is of the link to netd, of the   *)
(* control socket, of a message read from it, or of a handshake for NTS    *)
(* keys, and the others stand still.  Two callers, one of whom may give    *)
(* orders and one of whom may say nothing.  Handshakes are the least one   *)
(* with a record more, a record less, or more after its end; and records   *)
(* or cookies without end.                                                 *)
EXTENDS NetdLink, Control, KeExchange, Messages

CONSTANTS A, B

VARIABLE channel

mcVars == <<channel, netdVars, controlVars, keVars, messageVars>>

MCRequests(c) ==
    IF c = A THEN {"subscribe", "status", "reload", "set"}
    ELSE {"subscribe", "silent", "sources", "reload"}

-----------------------------------------------------------------------------
(* Handshakes *)

End == [type |-> "end", body |-> "good"]
Least ==
    <<[type |-> "protocol", body |-> "ours"], [type |-> "aead", body |-> "ours"],
      [type |-> "cookie", body |-> "good"], End>>
MCKeAnswers ==
    {Least}
    \cup {InsertAt(Least, i, record) : i \in 1..5, record \in Record}
    \cup {RemoveAt(Least, i) : i \in 1..4}
    \cup {Least \o <<record, End>> : record \in Record}
    \cup {[i \in 1..7 |-> [type |-> "warning", body |-> "good"]],
          [i \in 1..6 |-> [type |-> "cookie", body |-> "good"]]}

-----------------------------------------------------------------------------
(* Messages, some from a writer who knows of more than this reader. *)

Told(name, state, note) == [name |-> name, state |-> state, note |-> note]
OfStatus(sync, leap, manual, zone) ==
    [is |-> "status", generation |-> 7, sync |-> sync, leap |-> leap,
     sources |-> 3, manual |-> manual, zone |-> zone]
MCMeant ==
    {[query |-> m] :
        m \in {[is |-> "status"], [is |-> "reload"],
               [is |-> "set", seconds |-> 5, nanos |-> 0],
               [is |-> "set", seconds |-> 5, nanos |-> 9]}}
    \cup
    {[reply |-> m] :
        m \in {[is |-> "ok"], [is |-> "error", message |-> A],
               [is |-> "sources", more |-> FALSE, sources |-> << >>],
               [is |-> "sources", more |-> TRUE,
                sources |-> <<Told(A, "candidate", None),
                              Told(B, "unusable", A)>>],
               [is |-> "sources", more |-> FALSE,
                sources |-> <<Told(A, "new", None)>>],
               [is |-> "snapshot", generation |-> 7, leap |-> 2,
                synchronised |-> TRUE],
               OfStatus("spike", -1, TRUE, A),
               OfStatus("new", 1, FALSE, None)}}

-----------------------------------------------------------------------------
OnNetd(Action) ==
    channel = "netd" /\ Action
        /\ UNCHANGED <<channel, controlVars, keVars, messageVars>>
OnSocket(Action) ==
    channel = "socket" /\ Action
        /\ UNCHANGED <<channel, netdVars, keVars, messageVars>>
OnHandshake(Action) ==
    channel = "ke" /\ Action
        /\ UNCHANGED <<channel, netdVars, controlVars, messageVars>>
OnMessage(Action) ==
    channel = "message" /\ Action
        /\ UNCHANGED <<channel, netdVars, controlVars, keVars>>

MCInit ==
    /\ channel \in {"netd", "socket", "ke", "message"}
    /\ NetdInit /\ ControlInit /\ KeInit
    /\ channel # "socket" => ~automatic
    /\ channel # "netd" => ~up
    /\ \/ channel = "message" /\ MessageInit
       \/ /\ channel # "message" /\ MessageInit
          /\ meant = [reply |-> [is |-> "ok"]] /\ written = Encoded(meant)

(* A handshake or a message is over.                                       *)
Rests == channel \in {"ke", "message"} /\ UNCHANGED mcVars

MCNext ==
    \/ OnNetd(NetdNext) \/ OnSocket(ControlNext)
    \/ OnHandshake(KeNext) \/ OnMessage(MessageNext)
    \/ Rests

MCSpec ==
    /\ MCInit /\ [][MCNext]_mcVars
    /\ WF_mcVars(OnNetd(Link))
    /\ WF_mcVars(OnNetd(NetdElapse(1)))
    /\ WF_mcVars(OnNetd(Arrive))
    /\ WF_mcVars(OnSocket(Loop))
    /\ SF_mcVars(OnSocket(Served))
    /\ SF_mcVars(OnSocket(Completes))

(* The types of the four parts: the bounds on a backoff, on an answer that *)
(* is kept and on subscribers.                                             *)
ChannelsTypeOK == NetdTypeOK /\ ControlTypeOK /\ KeTypeOK /\ MessageTypeOK
=============================================================================
