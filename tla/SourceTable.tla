---------------------------- MODULE SourceTable ----------------------------
(***************************************************************************)
(* The table of sources and the worker that readies them (main.rs:         *)
(* rebuild_sources, reload, absorb_netd, ensure_roots, maintain_sources,   *)
(* collect_work; worker.rs).                                               *)
(*                                                                         *)
(* One thread keeps the table, another takes jobs from a queue one at a    *)
(* time and puts what came of them in a second queue.  A job names its     *)
(* entry by its index.  The handlers that go over the whole table are      *)
(* steps of one entry here, since the entries do not touch one another.    *)
(* Retry times are left out: anything not in flight may be retried at any  *)
(* time.  A session and an address are named by the host they belong to,   *)
(* so that one taken for another can be told.                              *)
(*                                                                         *)
(* changes and failures bound the environment; moved is history: a rebuild *)
(* left a job out for an index that no longer is the entry it was sent     *)
(* for.                                                                    *)
(***************************************************************************)
EXTENDS Integers, Sequences, FiniteSets

CONSTANTS
    Configs,      \* what the registry may say
    Offers,       \* the time servers leases may offer
    Fallback,     \* the compiled list of specs
    NoHost,
    MaxEntries,   \* the length of the longest list
    MaxRoots,     \* bound on root fetches out at once
    MaxChanges,   \* bound on reloads, netd reports, refused keys
                  \* and silences
    MaxFailures   \* bound on jobs that fail

ASSUME TableConstants ==
    /\ MaxRoots \in Nat /\ MaxChanges \in Nat /\ MaxFailures \in Nat
    /\ MaxEntries \in Nat
    /\ \A c \in Configs :
          /\ c.automatic \in BOOLEAN /\ c.allow \in BOOLEAN
          /\ c.useDhcp \in BOOLEAN
    /\ << >> \in Offers

VARIABLES
    config, offered,
    entries,        \* sequence of [host, plain, security, session, at,
                    \*              inFlight]
    tls,            \* the root store has been loaded
    jobs,           \* to the worker: of [kind, index, host]
    done,           \* and back: of [job, ok]
    changes, failures, moved

vars == <<config, offered, entries, tls, jobs, done, changes, failures,
          moved>>

-----------------------------------------------------------------------------
(* Which sources: explicit ones, else the leases' if wanted, else ours. *)

SpecOf(host, plain) == [host |-> host, plain |-> plain]

FromLeases(c, offer) == c.servers = << >> /\ c.useDhcp /\ offer # << >>

ChosenSpecs(c, offer) ==
    CASE c.servers # << >> -> c.servers
      [] FromLeases(c, offer) ->
            [k \in DOMAIN offer |-> SpecOf(offer[k], TRUE)]
      [] c.servers = << >> /\ ~FromLeases(c, offer) -> Fallback

(* A plain source is refused unless the machine allows them.               *)
Allowed(specs, allow) == SelectSeq(specs, LAMBDA s : s.plain => allow)
Admitted(c, offer) == Allowed(ChosenSpecs(c, offer), c.allow)

Listed(f) == {f[k] : k \in DOMAIN f}
Hosts == {s.host : s \in UNION {Listed(c.servers) : c \in Configs}}
         \cup UNION {Listed(o) : o \in Offers}
         \cup {s.host : s \in Listed(Fallback)}

(* No list is longer than MaxEntries, and a name is not the absence of one. *)
ASSUME ListsAreBounded ==
    /\ NoHost \notin Hosts
    /\ \A c \in Configs, offer \in Offers :
          /\ Admitted(c, offer) \in Seq([host : Hosts, plain : BOOLEAN])
          /\ Len(Admitted(c, offer)) <= MaxEntries

NewEntry(s) ==
    [host |-> s.host, plain |-> s.plain,
     security |-> IF s.plain THEN "plain" ELSE "pending",
     session |-> NoHost, at |-> NoHost, inFlight |-> FALSE]

(* What is still configured is kept as it is, but for its spec.  A host    *)
(* listed twice keeps its last entry, for the first that names it.         *)
Former(host) == {i \in DOMAIN entries : entries[i].host = host}
LastFormer(host) ==
    CHOOSE i \in Former(host) : \A j \in Former(host) : j <= i
Repeated(specs, k) == \E j \in 1..k - 1 : specs[j].host = specs[k].host

Restarted(specs, k) == NewEntry(specs[k])
Kept(specs, k) ==
    IF Former(specs[k].host) = {} \/ Repeated(specs, k) THEN NewEntry(specs[k])
    ELSE [entries[LastFormer(specs[k].host)] EXCEPT !.plain = specs[k].plain]

Rebuilt(c, offer) ==
    IF ~c.automatic THEN << >>
    ELSE [k \in DOMAIN Admitted(c, offer) |-> Kept(Admitted(c, offer), k)]

(* The jobs that are out, in the order they come back in.  The one that    *)
(* fetches the roots is for no entry.                                      *)
Queue(back, sent) == [k \in DOMAIN back |-> back[k].job] \o sent
Errands == Queue(done, jobs)
OutAt(i) == {p \in DOMAIN Errands : Errands[p].index = i}
RootsJob == [kind |-> "roots", index |-> 0, host |-> NoHost]

(* An index a job is out for is another entry, or none, in the new table.  *)
Displaced(new) ==
    \E i \in DOMAIN entries :
       /\ OutAt(i) # {}
       /\ \/ i \notin DOMAIN new
          \/ i \in DOMAIN new /\ new[i].host # entries[i].host
          \/ i \in DOMAIN new /\ ~new[i].inFlight

Cleared(table) == [k \in DOMAIN table |-> [table[k] EXCEPT !.at = NoHost]]

Changed == changes < MaxChanges /\ changes' = changes + 1

-----------------------------------------------------------------------------
Init ==
    /\ config \in Configs
    /\ offered = << >>
    /\ entries = IF config.automatic
                 THEN [k \in DOMAIN Admitted(config, << >>) |->
                          NewEntry(Admitted(config, << >>)[k])]
                 ELSE << >>
    /\ tls = FALSE
    /\ jobs = << >> /\ done = << >>
    /\ changes = 0 /\ failures = 0 /\ moved = FALSE

(* The registry changed; or, with `again`, an operator asked for a reload, *)
(* which also looks every name up again.                                   *)
Reload(c, again) ==
    /\ Changed
    /\ config' = c
    /\ entries' = IF again THEN Cleared(Rebuilt(c, offered))
                  ELSE Rebuilt(c, offered)
    /\ moved' = (moved \/ Displaced(entries'))
    /\ UNCHANGED <<offered, tls, jobs, done, failures>>

(* netd's report: perhaps other address families, and what leases offer.   *)
FirstOfferOnly(offer) ==
    /\ offered = << >> /\ offer # offered
    /\ config.useDhcp /\ config.servers = << >>
OfferMatters(offer) ==
    offer # offered /\ config.useDhcp /\ config.servers = << >>

NetdReports(offer, otherFamilies) ==
    /\ Changed
    /\ offered' = offer
    /\ LET table == IF OfferMatters(offer) THEN Rebuilt(config, offer)
                    ELSE entries
       IN  entries' = IF otherFamilies THEN Cleared(table) ELSE table
    /\ moved' = (moved \/ Displaced(entries'))
    /\ UNCHANGED <<config, tls, jobs, done, failures>>

(* take_reply: the server refused a cookie.                                *)
Refused(e) == [e EXCEPT !.security = "pending", !.session = NoHost]

KeysRefused(i) ==
    /\ Changed
    /\ entries[i].security # "pending"
    /\ entries' = [entries EXCEPT ![i] = Refused(@)]
    /\ UNCHANGED <<config, offered, tls, jobs, done, failures, moved>>

(* expire_pending: eight polls went unanswered; the name is looked up again. *)
GoneSilent(i) ==
    /\ Changed
    /\ entries[i].at # NoHost
    /\ entries' = [entries EXCEPT ![i].at = NoHost]
    /\ UNCHANGED <<config, offered, tls, jobs, done, failures, moved>>

-----------------------------------------------------------------------------
(* Sending work out *)

EnsureRoots ==
    /\ ~tls
    /\ \E i \in DOMAIN entries : entries[i].security # "plain"
    /\ Cardinality(OutAt(0)) < MaxRoots
    /\ jobs' = Append(jobs, RootsJob)
    /\ UNCHANGED <<config, offered, entries, tls, done, changes, failures,
                   moved>>

Submit(i, job) ==
    /\ jobs' = Append(jobs, job)
    /\ entries' = [entries EXCEPT ![i].inFlight = TRUE]
    /\ UNCHANGED <<config, offered, tls, done, changes, failures, moved>>

SubmitResolve(i) ==
    /\ ~entries[i].inFlight
    /\ entries[i].at = NoHost
    /\ Submit(i, [kind |-> "resolve", index |-> i, host |-> entries[i].host])

(* Keys are wanted, or old enough to renew.  The handshake goes to the     *)
(* addresses, and checks the name, that the entry holds now.               *)
SubmitHandshake(i) ==
    /\ ~entries[i].inFlight
    /\ entries[i].at # NoHost
    /\ entries[i].security # "plain"
    /\ tls
    /\ Submit(i, [kind |-> "handshake", index |-> i, host |-> entries[i].at])

-----------------------------------------------------------------------------
(* The worker: the job at the head, however long it takes. *)

Work(ok) ==
    /\ jobs # << >>
    /\ ~ok => failures < MaxFailures
    /\ failures' = IF ok THEN failures ELSE failures + 1
    /\ jobs' = Tail(jobs)
    /\ done' = Append(done, [job |-> Head(jobs), ok |-> ok])
    /\ UNCHANGED <<config, offered, entries, tls, changes, moved>>

(* Taking the results in. *)

Collect(kind) ==
    /\ done # << >>
    /\ Head(done).job.kind = kind
    /\ done' = Tail(done)
    /\ UNCHANGED <<config, offered, jobs, changes, failures, moved>>

CollectRoots ==
    /\ Collect("roots")
    /\ tls' = (tls \/ Head(done).ok)
    /\ UNCHANGED entries

(* A result for an index past the end is dropped.                          *)
CollectResolved ==
    /\ Collect("resolve")
    /\ LET i == Head(done).job.index IN
       entries' = IF i \notin DOMAIN entries THEN entries
                  ELSE [entries EXCEPT
                           ![i].inFlight = FALSE,
                           ![i].at = IF Head(done).ok THEN Head(done).job.host
                                     ELSE @]
    /\ UNCHANGED tls

StillInFlight(inFlight) == inFlight
AfterFailure(inFlight) == FALSE

CollectHandshook ==
    /\ Collect("handshake")
    /\ LET i == Head(done).job.index IN
       entries' =
          IF i \notin DOMAIN entries THEN entries
          ELSE IF ~Head(done).ok
          THEN [entries EXCEPT ![i].inFlight = AfterFailure(@)]
          ELSE [entries EXCEPT ![i].inFlight = FALSE,
                               ![i].security = "nts",
                               ![i].session = Head(done).job.host,
                               ![i].at = Head(done).job.host]
    /\ UNCHANGED tls

Next ==
    \/ \E c \in Configs, again \in BOOLEAN : Reload(c, again)
    \/ \E offer \in Offers, other \in BOOLEAN : NetdReports(offer, other)
    \/ \E i \in DOMAIN entries :
          \/ KeysRefused(i)
          \/ GoneSilent(i)
          \/ SubmitResolve(i)
          \/ SubmitHandshake(i)
    \/ EnsureRoots
    \/ \E ok \in BOOLEAN : Work(ok)
    \/ CollectRoots
    \/ CollectResolved
    \/ CollectHandshook

(* The loop goes round and the worker works.                               *)
Fairness ==
    /\ \A i \in 1..MaxEntries :
          /\ WF_vars(i \in DOMAIN entries /\ SubmitResolve(i))
          /\ WF_vars(i \in DOMAIN entries /\ SubmitHandshake(i))
    /\ WF_vars(EnsureRoots)
    /\ WF_vars(\E ok \in BOOLEAN : Work(ok))
    /\ WF_vars(CollectRoots \/ CollectResolved \/ CollectHandshook)

Spec == Init /\ [][Next]_vars /\ Fairness

-----------------------------------------------------------------------------
(* Properties *)

Entry == [host : Hosts, plain : BOOLEAN,
          security : {"plain", "pending", "nts"},
          session : Hosts \cup {NoHost}, at : Hosts \cup {NoHost},
          inFlight : BOOLEAN]
Job == [kind : {"resolve", "handshake"}, index : 1..MaxEntries, host : Hosts]
       \cup {RootsJob}

TypeOK ==
    /\ config \in Configs /\ offered \in Offers
    /\ entries \in Seq(Entry) /\ Len(entries) <= MaxEntries
    /\ jobs \in Seq(Job) /\ done \in Seq([job : Job, ok : BOOLEAN])
    /\ tls \in BOOLEAN /\ moved \in BOOLEAN
    /\ changes \in 0..MaxChanges /\ failures \in 0..MaxFailures
    /\ \A i \in DOMAIN entries :
          entries[i].security = "nts" <=> entries[i].session # NoHost

(* After any order of registry changes, leases and results, the table is   *)
(* what one start with the configuration now in force would have made it.  *)
TableFollowsConfig ==
    [i \in DOMAIN entries |-> entries[i].host]
    = IF config.automatic
      THEN [k \in DOMAIN Admitted(config, offered) |->
               Admitted(config, offered)[k].host]
      ELSE << >>

(* A change of configuration costs a source that stays neither its keys    *)
(* nor the job that is out for it, if it is listed once.                   *)
ListedOnce(table, i) ==
    \A j \in DOMAIN table : table[j].host = table[i].host => j = i

KeepsSessions ==
    [][config' # config \/ offered' # offered =>
       \A i \in DOMAIN entries, k \in DOMAIN entries' :
          /\ entries[i].host = entries'[k].host
          /\ ListedOnce(entries, i) /\ ListedOnce(entries', k)
          => /\ entries[i].session = entries'[k].session
             /\ entries[i].inFlight = entries'[k].inFlight]_vars

(* So long as no rebuild displaced an entry with a job out, in_flight says *)
(* truly that one job is out for the entry, and every address and session  *)
(* is the entry's own.                                                     *)
Own(e) == e.session \in {NoHost, e.host} /\ e.at \in {NoHost, e.host}

WorkAccounted ==
    ~moved => \A i \in DOMAIN entries :
                 /\ Cardinality(OutAt(i))
                       = IF entries[i].inFlight THEN 1 ELSE 0
                 /\ Own(entries[i])

(* The inductive invariant.  An errand is the only one for an entry in the *)
(* table that waits for it, and for what its host was when it was sent.    *)
ErrandIsAwaited(p) ==
    LET i == Errands[p].index IN
    i # 0 => /\ i \in DOMAIN entries
             /\ entries[i].inFlight
             /\ entries[i].host = Errands[p].host
             /\ \A q \in DOMAIN Errands : Errands[q].index = i => q = p
ErrandsMatch ==
    ~moved => /\ \A p \in DOMAIN Errands : ErrandIsAwaited(p)
              /\ \A i \in DOMAIN entries :
                    /\ entries[i].inFlight => OutAt(i) # {}
                    /\ Own(entries[i])
TableIInv == TypeOK /\ TableFollowsConfig /\ ErrandsMatch

(* And then every source gets ready to be polled, and stays so, once the   *)
(* configuration, the network and the servers leave it alone.              *)
Ready(e) == e.at # NoHost /\ e.security # "pending"
GetsReady == <>[](moved \/ \A i \in DOMAIN entries : Ready(entries[i]))

(* Source.name: "what an NTS certificate is validated against".            *)
NamesMatch ==
    \A i \in DOMAIN entries : entries[i].session \in {NoHost, entries[i].host}
=============================================================================
