# A model of timed

timed keeps the clock of a Peios machine from NTP servers, authenticated with
NTS where they offer it.  This directory holds TLA+ modules that model it, TLC
configurations that check them on small instances, and proofs that TLAPS checks
for every value of the constants.  `PROJECT.json` lists the runs, the lines each
definition stands for, the hazards and the disagreements found.

## The system

timed is one process with two threads.  The main thread goes round one loop
(`Timed::run`, main.rs): it takes in netd's reports and registry changes,
collects what the worker finished, sends the polls that are due, gives up on
those that were not answered, tells peinit the clock's state, sleeps in
`poll(2)`, takes in every reply that is there, decides once for all of them, and
serves the control socket.  The worker thread resolves names, runs NTS-KE
handshakes and fetches roots, one job at a time.

| part | state | operations | interacts with |
|---|---|---|---|
| source (`source.rs`) | outstanding request, poll interval, burst, reach, keys and cookies | build a request, accept a reply, expire, schedule, adapt, back off | the server, over a network that loses, delays, duplicates and reorders; the main loop calls it |
| NTS session (`source.rs`, `worker.rs`) | keys, cookies, the address polled | handshake, spend, store, forget | the key server and the NTP server it names |
| sample reduction (`sample.rs`, `timestamp.rs`) | none | reduce four timestamps to a sample | fed by a reply, feeds the filter |
| wire formats (`packet.rs`, `extension.rs`, `nts.rs`) | none | encode, decode, seal, verify | every request and reply |
| clock filter (`filter.rs`) | the last eight samples, the date last reported | insert, peek, reset | fed by a source's replies, read by selection, emptied by a step |
| selection (`select.rs`) | none | intersection, clustering, combination | reads every filter |
| discipline (`discipline.rs`) | servo state, frequency, last update, spike timer | update, reset_phase | fed by selection; its adjustments go to the kernel |
| clock (`clock.rs`) | the kernel's clock and rate | step, steer | both may fail |
| drift file, cookie files (`state.rs`) | a frequency; cookies | read at start, written hourly | survive a restart |
| source table (`main.rs`) | entries, in order | rebuild, reload | registry, leases; the worker names entries by index |
| worker (`worker.rs`) | two queues | resolve, handshake, roots | the main loop polls for results |
| level and publication (`main.rs`) | last level, subscribers | publish_level, publish | peinit, clients |
| key establishment (`nts_ke.rs`, `nts.rs`) | what has come of a stream | connect, read, interpret | a key server over TLS, at one address after another |
| control socket (`control.rs`) | backlog, subscribers, generation | status, sources, subscribe, reload, set | reload and set change everything above |
| protocol (`libtimed`) | a draft of each reply | encode, decode | callers of any age |
| zone keeper (`localtime.rs`) | zone in force, zone refused | render, apply, retry | two files |
| netd link (`netd_link.rs`) | connection, buffer, next try | maintain, connect, service | netd; what a lease offers goes to the table |

What is hard here.  Between a request and its reply anything may happen: a
timeout, a step of the clock, a reload that drops or moves the source, new keys.
State is kept in several places that have to agree: a reply's outcome in the
source, the filter, an entry's marks and the loop; the table in indexes that the
worker and `system_peer` hold.  The servo's decisions span many readings.  And
calls fail half way: a step the kernel refuses, a handshake, a write.

For each part, what makes it correct:

* *discipline*: it steps only on the first reading or after a stepout of large
  ones, never later than that, and learns only from intervals of one clock.
* *source*: each poll ends once; the pace promised to servers is kept; a silent
  source stops voting; polling never stops.
* *filter*: no sample is used twice and no source is muted.
* *selection*: an honest majority bounds the result, and cannot be prevented.
* *sample reduction*: a sample bounds the error of the clock it is compared with,
  over steps and eras, and is dated by that clock.
* *sessions and datagrams*: no cookie goes out twice, requests can be opened
  where they go, replies make up for what was spent and are no longer than what
  was asked; no reply is lost to its padding.
* *key establishment*: what a handshake is worth does not depend on how its
  stream was cut, and costs a bounded amount of memory.
* *control socket*: subscribers hold the state as it is, are never sent a frame
  behind half of one, and nobody keeps another from being served.
* *protocol*: what is read is what was meant, whatever the order of the fields.
* *netd link*: a new connection starts with an empty buffer, and in the end the
  loop knows what netd knows.
* *table and worker*: the table is what the configuration says, sessions survive
  a reload, every job's result goes where it belongs, every source gets ready.
* *main loop*: only samples asked for on this clock vote; the loop is fed news only; a
  manual clock is left alone; peinit is told the truth.

## The modules

| module | models | composition |
|---|---|---|
| `StepPolicy` | abstract: when the clock may be moved at once | |
| `Discipline` | `discipline.rs`, `apply`, `steer`, `set_by_hand`, `persist`, the drift file | implements `StepPolicy` |
| `Source` | `source.rs` and the main loop's handlers of one source | |
| `Filter` | `filter.rs` | |
| `Select` | `select.rs` | one selection, a step for each round and addition |
| `Measurement` | `sample.rs`, `timestamp.rs`, the exchange | extends `Filter` with the exchange and is shown to implement it |
| `Before2038` | assumption and inductive invariant under which it does | |
| `Session` | keys and cookies of one source, worker and loop | |
| `Datagram` | extension fields, the authenticator, one poll | |
| `KeExchange` | `nts_ke.rs`, `interpret`, the worker's handshake | the worker's part that `SourceTable` takes for one step |
| `SourceTable` | the table, `collect_work`, `worker.rs` | two threads and their queues |
| `Control` | `control.rs`, `service_control`, `publish` | the loop and its callers |
| `Messages` | requests and replies of `libtimed` | what `Control` takes for whole |
| `NetdLink` | `netd_link.rs` | ends in what `SourceTable` calls `NetdReports` |
| `Configuration` | the registry watch, `reload`, `localtime.rs` | the loop against those who write the registry and tzdata, and restarts |
| `Daemon` | the turn of `run` | sees the parts from outside, over all entries |
| `DisciplineProofs`, `FilterProofs`, `MeasurementProofs`, `DaemonProofs` | theorems about the module of that name | |
| `ConfigurationProofs` | theorems about `Configuration` | and about `MCMachine` |
| `SourcesProofs` | theorems about `Source` and `SourceTable` | and about `MCSources` |
| `EstimateProofs` | theorems about `Session`, `Select`, `Datagram` | and about `MCEstimate` |
| `ChannelsProofs` | theorems about `NetdLink`, `Control`, `KeExchange`, `Messages` | and about `MCChannels` |
| `MCMachine`, `MCSources`, `MCEstimate`, `MCChannels` | instances of parts that do not meet, side by side: a behaviour is of one of them | |
| `MCSource`, `MCSourceTable`, `MCConfiguration`, `MCMeasurement`, `MCDaemon` | instances of one part | |

**Discipline.**  One action per branch of `Discipline::update`, joined with what
`Timed::apply` does with its result: `FirstOffsetLarge` and `StepOut` end in
`TakeStep`, whose two disjuncts are a step that succeeds (and `reset_phase`) and
one the kernel refuses.  `GoManual`, `GoAutomatic`, `SetByHand`, `RestartLoop` and
`Persist` are the other handlers that reach the servo.  Offsets, times and rates
are integers.  `readings`, `displacement` and `movedAt` record what the servo was
told since it began or last asked for a step, the sum of the steps, and when the
clock last moved; no action reads them.  `StepPolicy` says when a step is earned
in terms of the readings alone; `believed` is mapped to `state # "startup"`.

**Source.**  `SendPoll`, `NoSocket` and `SendFails` are the three ways
`send_poll` ends.  `Opened` is the part of `accept` all replies share, ending
with the cookies being stored; each outcome after it is an action joined with
what `take_reply` does for it.  Time is relative, so that the state space is
finite without a bound on time.  `reach` is the set of the register's bits that
are set.  A reply to any request sent may come at any
later moment and any number of times; `Late` bounds for how many requests a
nonce stays distinct.

**Filter.**  `Report` and `Withhold` are the two outcomes of `insert`; samples
carry the number they were taken under, so that reports can be told apart.

**Measurement.**  The server's clock is true and the local one is behind it by
`err`, which a step changes.  `Ask` notes the origin as the wrapped word the code
keeps; `TakeFresh` and `TakeStale` reduce the four words and hand the sample to
`Report` or `Withhold` of `Filter`; `Refuse` leaves the request out.  T4 is read
once before both sockets are drained, hence `Drain`; a request is given up after
`MaxWait`.  `offsets` goes with the register and holds twice the offset, so that
nothing is halved.  `Errors` are the errors the clock may have, decades included:
twice the offset saturates at half an era, so the offset at 34 years.

**Session.**  A session number stands for a pair of keys and the server they are
good for.  Requests and replies stay on the network for ever, so each can come
again, late, or in another order.  `Prepare` spends a cookie with the placeholders
`prepare` works out, and three actions are its endings; `Accept` and its relatives
are what `accept` does with an authentic reply; the worker's jobs and
`collect_work` bring sessions and addresses.

**Datagram.**  A field is a type, the length of its value and its length on the
wire.  Encoding pads, decoding goes by the wire length (`Sum` adds the lengths on
the wire), `verify` adds the fields up again to find the authenticator.  `Polls`
is one request, `AnsweredWith` one reply, `Accepts` and `Rejects` what becomes of
it.

**KeExchange.**  The answer of a server is a sequence of records, of which the
client has a prefix; `MoreCame` adds a piece of any size, and `Understood`,
`Misunderstood`, `TooLong` and `ReadsAgain` are what looking at it comes to.  A
failure of any kind (`Fails`) takes it to the next address.

**Control.**  `backlog` is the accept queue, `inbox` what a caller was sent.
`service_control` is a step for each caller (`Serve`); `subscribers` is a set,
since `publish` treats them alike and in no order that any of them could tell;
`Publish` tries every subscriber and keeps those it reached (`Stays`).  `torn`
marks a frame whose first bytes alone went out.

**Messages.**  `written` is the set of fields still to be read in any order, some
left out, doubled or unknown; `Put` fills the drafts of all replies at once, as
`decode` does, and `Understanding` makes one message of them; `heard` is `Unheard`
until then.  `Newer` are names a later version may send and this one does not know.

**NetdLink.**  A frame is a length and a payload, two pieces that travel apart;
`flight` is on the way, `wire` in the socket, `buf` in `timed`.

**Select.**  The sweep over sorted edges is replaced by what its running count
computes.  Each round of the clustering is a step, and so is each survivor added to
the average; jitters are compared by their squares and the sums of the average are
kept over a common denominator, so that nothing is rounded.

**SourceTable.**  Jobs and results are two sequences; a result is a job and
whether it went well.  A job carries the index
it was sent for and, for the reader, the host whose name and addresses it
carries.  `moved` remembers that a rebuild displaced an index with a job out.

**Configuration.**  `pc` cuts the turn wherever a writer of the registry, an
upgrade of tzdata or a crash may come between: before and after `config::load`,
the arming of the watch, and each file `localtime.rs` writes.  `Arm` drops the
events of the watch it replaces.  Zones are names that stand for files, several
names for one file, and a file has a version.  `missed` remembers that the last
load failed, or that a write fell where no watch could see it.

**Daemon.**  `turn` is where the loop stands.  Each part is seen from outside:
`held` is the set of clocks on which the requests of a filter's samples were sent,
`pending` the clock of the request that is out, `misses` the lost polls in a row,
and a decision is any source that may be the peer with any
adjustment the servo's state allows.  `apply` empties the filters after a step and
leaves the requests out; `straddler` remembers, for the reader, the one that was.

## The runs

Parts that do not meet in the code share a run: its instance picks one in the
initial state, the others stand still, and each property speaks of its own part.

| run | states | bounds, and why they are enough |
|---|---|---|
| `machine` | 2.3 M | *clock*: offsets of every class (small, large, past the panic) and both signs, a stepout of one long or three short gaps, six time units: a spike can begin, be broken, begin again and be stepped out, with a restart or a manual spell in between; one plausible and one absurd drift file. *zone*: three names of two files; two writes, one upgrade and two faults, so that each can come at any step of the rendering and of the retry after it |
| `sources` | 1.1 M | *a server*: two exponents, a burst of two, two reach bits, two cookies, a reply that outlives one request; every counter reaches both ends; durations in the order of the code's (burst gap < timeout < shortest interval). *the table*: two hosts in lists that keep, drop, add, repeat and reorder; two changes, and a job of any kind that fails |
| `estimate` | 0.3 M | *sessions*: two cookies held, two handshakes, three requests, so that a reply of the first can come after the second, and a request be lost between; one failure. *datagrams*: cookies of 1, 16, 18, 32, 100 and 1023 bytes, the lengths at which padding, the shortest field and the legacy MAC decide, and up to four of them. *measurement*: three stages, words of 64 of which an era ends at time 4 of 5, steps both ways of which one reaches across a round trip, and a clock one ahead or behind, or sixteen or seventeen, where an offset holds less than sixteen. *selection*: all lists of up to four of thirteen kinds: vague, certain, preferred, of worse stratum, too distant; up to two liars among four, one among three |
| `channels` | 0.3 M | *netd*: two leases and two faults, each at either half of a frame; a backoff that doubles and reaches its end. *socket*: two callers, of whom one may give orders and one may say nothing; one place, two snapshots of room and generations in a ring of three, in which one left out shows; a list of two chunks. *keys*: two addresses; the least answer with each record added, each taken away, and more after its end; records and cookies without end; pieces of any size up to four. *messages*: each kind of request and reply, with every field missing, doubled or joined by an unknown one |
| `daemon` | 1.1 M | two sources, lists that keep, drop and repeat the first; reach of two; two moves of the clock, so that a request can be out over both; two changes |

*What they show.*  Each run checks one type invariant for its parts together and:

* `machine`: steps are earned (`StepsEarned`, the refinement), a stepout is
  honoured, no interval spans a move of the clock; what the keeper takes to be in
  place and what status names is in the file (`ZoneIsInPlace`), writes the watch
  saw are acted on and an installed zone is taken up (`TakenUp`).
* `sources`: a poll ends once (`EndsOnce`), the pace is kept, after RATE too
  (`Paced`), silence ends a vote (`SilentDoesNotVote`), polling goes on
  (`KeepsOnPolling`); the table follows the configuration, sessions and jobs
  survive it, jobs are accounted for, every source gets ready.
* `estimate`: no cookie is used twice, requests can be opened where they go,
  answers make up for what was spent; a reply is no longer than its request
  (`NoAmplification`) and read as it was written (`RepliesComeThrough`:
  `AnswersVerify` and `CookiesCome`); measurements work the filter as `Filter` says
  (`ImplementsFilter`), bound the clock's error or fall short of it where it is
  more than an offset can say (`WithinHalfDelay`), and are
  reported once and soon (`ReportedInTime`: `ReportedOnce` and `NeverMuted`); a
  majority agrees, it bounds the result wherever the true time is, liars cannot
  prevent a result (`MajorityRules`), a preferred source leads.
* `channels`: no bytes of a connection outlive it, and the loop ends up with what
  netd knows (`FollowsNetd`); what callers are sent is whole (`FramesAreWhole`:
  `RunsOfSnapshots` and `ListsAreWhole`), subscribers are current, the dead are
  found, everyone is served; a handshake is worth what the server said however it
  came (`WorthTheAnswer`: `CutDoesNotMatter` and `SkippedOrFatal`); what is heard is
  what was meant, or refused (`MeantOrRefused`: `HeardAsMeant` and
  `OnceOrRefused`).
* `daemon`: what votes was asked for on the clock as it is (`OneClock`), nothing is
  fed to the loop twice (`FreshIsNews`), a person's clock is left alone
  (`ManualUntouched`) and peinit told so (`ManualIsTold`).

Seven runs show where the code and its own comments part:

* `source_flood`: a server that says it is unsynchronised is asked again at once.
* `source_rate`: a server that said RATE in the middle of a burst, or before a
  reload, is asked again within the burst's gap.
* `dates_2038`: from 2038-01-19 on samples are dated in 1901, and no source is fit.
* `table_names`: a late handshake gives one entry another's keys.
* `takes_effect`: a value written while a reload is under way is not acted on.
* `daemon_level`: the level stays up when every source is gone.
* `daemon_peer`: the peer's index outlives the table.

Properties that hold beside a disagreement name what they except:

| property | exception |
|---|---|
| `Paced` | a request that follows an unsynchronised reply, a reload or new keys; within a burst it owes the burst's gap, also after RATE |
| `WorkAccounted`, `GetsReady` | a history in which a rebuild displaced a job (`moved`) |
| `TakenUp` | a write between a load and the watch after it, or while no watch was held (`missed`) |
| `NoCookieTwice` | a reply whose measurement was refused is read each time it comes (`reread`) |
| `RequestsCanBeOpened` | cookies of a reply that crossed a new handshake (`crossed`); an address of the name that is not of the server with the keys (`relocated`) |
| `WithinHalfDelay` | a request that was out while the clock was set back (`clean`); a clock more than 34 years out, whose sample is the largest offset there is (`sample.rs:126-128` saturates) and so far from the truth, though on its side (`FallsShort`): one left at 1970 that could not be raised to the build's floor |
| `OneClock` | of each source, the reply to the request that was out when its filter was last emptied (`straddler`): `apply` leaves it to be taken, and its T1 is of the clock before |
| `RepliesComeThrough` | cookies whose field is 20 or 24 bytes, of which one may be taken for a MAC |
| `SubscribersAreCurrent` | a clock taken over or given back, until the next poll completes (`unannounced`) |
| `TheDeadAreFound` | a manual clock, which publishes nothing |

`EndsOnce`, `KeepsOnPolling`, `TableFollowsConfig`, `KeepsSessions` and the
properties of selection, keys, messages and netd have none.

*Deadlock* is checked in `machine`, `channels` and `daemon`, where the loop must
always be able to go on (the discipline at the bound of its time through
`RestartLoop`); in `channels` a handshake that has ended and a message that has
been read rest (`Rests`).  `sources` stops at the bound on changes, `estimate` at
those on samples, requests and handshakes and with a selection that was made: those
two runs do not check it.

### Fairness

* `SourceFairness` (Source): weak fairness of the clock's ticking, of expiry, of the
  resolver and of the key server; strong fairness of polling.  The last is due to
  the order of the loop: what takes addresses away (netd's report, expiry, a
  reload) comes before `collect_work` or after `poll_due`, so in the turn that
  takes in the name looked up again, `poll_due` finds the address.
  Nothing is assumed of the NTP server or the network.
* `Fairness` (SourceTable): weak fairness of the loop's submissions and collections
  and of the worker.  A job ends, well or badly; finitely many fail
  (`MaxFailures`).
* `Spec` (Configuration): weak fairness of the turn; strong fairness of the retry of
  a refused zone, whose timer runs out while the loop goes round.  Writes,
  upgrades and faults are finitely many.
* `NetdSpec`: weak fairness of the loop's visit to the link, of time, and of bytes
  in flight, which arrive or are lost with their connection.  Nothing is assumed
  of netd: `FollowsNetd` begins with its staying up.
* `ControlSpec`: weak fairness of the loop; strong fairness of `Served`, since the
  turns in which a caller is waiting come again and again, and each serves one;
  strong fairness of `Completes`, a poll that is answered in the end while the
  clock is timed's to keep.  Whoever drains the backlog is taken to catch up with
  it: the accept loop of the code has no bound of its own.
* `Spec` (Daemon): weak fairness of the turn: no call in it waits for ever.
  Configuration changes are finitely many, since a caller who never stops asking
  keeps `service_control` from returning.

## The proofs

All hold for every value of the constants that the `ASSUME` of the module allows.
Each module's inductive invariant (`IInv`, `SourceIInv`, `TableIInv` and so on) is
stated beside its properties; each proof shows that the initial states satisfy it,
that every step keeps it (a lemma per action, or per conjunct where an action
disturbs few), and that it implies the property.  Action properties follow from
the invariant before the step.  Every property a passing run checks is stated by a
theorem, but for the seven of liveness.

*Discipline* (`DisciplineProofs`).  `DisciplineIInv` adds `SpikeInv` and `ClockInv` to the
properties.  `StepoutHonoured` speaks of the history of readings and the code
only of `spikeSince`; `SpikeInv` ties them: `spikeSince` is the time of the
earliest reading from which on all were large, and is `None` when there is none.
`StepoutIsHonoured` follows from it, since a reading is only held if it lies less
than the stepout after `spikeSince`; and so does `ImplementsStepPolicy`, where
`SpikeInv` supplies the witness for `Persisted` and each action maps to a step of
the policy.  `ClockInv` keeps `lastUpdate` between the clock's last move and now.

*Filter* (`FilterProofs`).  `ReportedOnce` and `NeverMuted` rest on `ReportHeld`:
unless nothing was reported since the last reset, the sample last reported is
still in the register, at a place below all samples taken since.  So its
date is the greatest reported (`TimeOrder`), a fresher best sample has a greater
number, and it can be withheld behind only as often as there are places.

*Measurement* (`MeasurementProofs`).  `MeasureIInv` adds to `Filter`'s invariant
that the outstanding request was dated by a clock that was behind the truth by
what it says (`OutTrue`).  `WordDifference` is the arithmetic: two wrapped words
differ by what the times they stand for do, if that is less than half an era.
From it `ReplyMeans` says what the code computes of a reply in terms of those
times, `SampleTaken` that a sample is dated by the clock and within half its delay,
or the largest offset there is and short of the truth, and `StepIsFilterStep` maps
each step to one of `Filter` or none, so that `Filter`'s theorems hold of measured
samples.  All of it rests on `WithinHalfAnEra`, which bounds two things.  The
clock reads a time within half an era of 1970 (until 2038), beyond which
`dates_2038` is what happens; and it is within half an era of the truth (68
years), which is as far as the difference of two timestamps goes
(`timestamp.rs:12-16`).  Of the sum of two differences nothing is supposed: at
half that error it saturates.

*Configuration* (`ConfigurationProofs`).  The two halves of `ZoneIsInPlace`,
`AppliedInPlace` and `StatusIsTrue`, say nothing while a zone is being copied;
`RenderInv` says what is true then: the copy is empty, and what is to be written is
the file of the zone asked for.

*Daemon* (`DaemonProofs`).  `IInv` splits into the types of what is not the table
and `Sound` of each entry; the lemmas follow one entry through each thing a turn
does to it.  `ManualIsUntouched` needs that a manual clock has no entries, which
is the last conjunct of `IInv`.  For `OneClock` an entry must say of its straddler
too that its clock is gone, and that the request that is out is of this clock or is
the straddler itself, whose sample is then not yet held: so it is one reply at
most.  A rebuild keeps the last former entry of a host,
and `Largest` is needed to say that there is one.

*Source* (`SourcesProofs`, first part).  `SourceIInv` says three things the
properties need.  `ReachTellsLost`: the lowest bit set in the register is of the
last poll answered, so `lost` is its place, and a register of any width is empty
exactly when that many were lost.  `PendingIsOut`: the outstanding request is the
last one built, and it has not come to an end; a duplicate therefore finds nothing
outstanding or another nonce, which is `EndsOnce`.  `OwedIsAwaited`: with nothing
outstanding, the time gone by since the last request and what is still to wait make
up for what is owed; `Paced` is that fact when nothing is left to wait.

*SourceTable* (`SourcesProofs`, second part).  `TableFollowsConfig` is
kept by a rebuild, which keeps of the old table sessions but no places, and by a
report that leads to none because `absorb_netd` asked enough (`OfferOfNoInterest`).
`WorkAccounted` rests on `ErrandsMatch`: jobs and results are one queue of errands
(`Errands`); while nothing was displaced each is for an entry that waits for it,
under the name it was sent for, and no two are for the same entry.  Work moves
along that queue from one sequence to the other; what takes from its head or adds
to its end shifts the places of the others, and the lemmas follow them.
`KeepsSessions` needs that a host listed once before and once after is found at one
place in each.

*Session* (`EstimateProofs`).  A cookie may be in the store, among those spent, or
in a reply that has not been read; `CookiesApart` says that these places have none
in common, and is what makes `NoCookieTwice` inductive.  It needs `SerialsTell`, so
that reading one reply marks no other as read.  `KeysMatch` ties cookies to keys and
addresses to servers for `RequestsCanBeOpened`, and `StoreMakesUp` carries what
`prepare` worked out to the moment the answer comes, for `AnswersRefill`.

*Select* (`EstimateProofs`).  The argument is that two majorities of the fit have
a member in common.  Every end of an interval agreed on is claimed by one
majority, and the truthful are another: so each end lies within what some truthful
source claims (`Backed`).  Conversely, a majority each of whose offsets lies
inside all their intervals gives the sweep an allowance at which it finds an
interval, so it is never refused (`LiarsCannotStop`).  `SelectIInv` keeps both
through the rounds of the clustering, and the average within the interval while it
is added up.

*Datagram* (`EstimateProofs`).  Sums over fields are folds, and what they come to
is shown by induction over a set of lengths, whose well-foundedness the library
gives.  A padded length is a fixed point of padding (`EncodedAgain`), so a cookie
keeps its length on the wire however often it goes back and forth: hence
`NoAmplification`.  That decoding finds the authenticator (`AnswersVerify`) rests on
its being longer than any MAC, so that reading fields never stops before it;
inside it, only the last cookie may be as short as one (`CookiesCome`).

*NetdLink* (`ChannelsProofs`).  `NetdIInv` speaks of one sequence, what waits in the
buffer followed by what has come and what is in flight: its pieces are heads and
payloads in turns, all of this connection.  Reading, delivery and loss cut it where
a prefix or a suffix keeps that; a connection that ends leaves none of it.

*Control* (`ChannelsProofs`).  `Sound` says of each caller where it can be and what
it was sent: it waits once and has nothing to read yet, or subscribes and has a run
of snapshots that ends with the latest (`Run`, `UpToDate`), or has the end of such
a run, or one reply (`Reply`).  `Serve` and `Publish` disturb it for those they
serve alone.

*KeExchange* (`ChannelsProofs`).  What is looked at is a prefix of the answer with its
first end in it, whatever has come behind it, so the result is that of the answer up
to there (`CutDoesNotMatter`).  That leaving out one record changes nothing
(`SkippedOrFatal`) is a lemma about `Interpret` for every sequence of records:
taking one out shifts the places of those after it, and none of what `Interpret`
looks for is the record taken out.

*Messages* (`ChannelsProofs`).  `Reading` says of a draft that to take again what
was taken would change nothing.  As keys tell the fields apart, and different keys
write different parts of the draft, that stays so in any order; when all are taken
the draft says what the message does.

*Side by side.*  `MachineTypeCorrect`, `SourcesTypeCorrect`, `EstimateTypeCorrect` and
`ChannelsTypeCorrect` are the type invariants of the instances with more than one
part: each step of the whole is a step of one part and leaves the others alone, so
their invariants hold together.

Only model-checked: liveness (`KeepsOnPolling`, `GetsReady`, `TakenUp`,
`ManualIsTold`, `FollowsNetd`, `TheDeadAreFound`, `EveryoneIsServed`), which is out
of the prover's reach.  What is proved of parts is proved of their own
specifications (`SourceSpec`, `SessionSpec`, `ControlSpec`, ...); the fairness some
of them state is not used.

## Not modelled

* The fixed header of a packet, msgpack's types, the grammar of server lines and of
  the registry's values, log lines and the `clock` command: data conversion and
  printing.
* Sealing, TLS, the key exporter, the access check, the resolver: services outside.
* The figures computed for reports beside those that decide (jitter, dispersion of
  the whole), the conversion of `clock.rs` to kernel units, a reading that is not
  finite.
* How long things take: the handshake's timeout is per read, retries come when they
  come, the sleep between turns asks nobody for netd's `next_deadline`.
* The cookie files, which are written and never read back.
* A clock set by something other than timed, and suspend: no code notices either.
* Packaging, audit records.

`PROJECT.json` gives for each hazard no property covers, or covers in part, the
reason.

## The plan

1. *(done)* Discipline, Source, Filter, Select, SourceTable, Configuration, Daemon;
   proofs for Discipline, Filter, Configuration and Daemon.
2. *(done)* Measurement, Session, Datagram, KeExchange, Control, Messages, NetdLink;
   proofs for Measurement.
3. *(done)* Proofs for Source, SourceTable, Session, Select, Datagram, NetdLink,
   Control, KeExchange and Messages, and of the types of the parts side by side.
4. Composition: Select and Filter over all entries, to say whose measurement feeds
   the loop; that Daemon's filters and servo are what Filter and Discipline allow.
