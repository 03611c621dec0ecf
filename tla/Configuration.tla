---------------------------- MODULE Configuration ----------------------------
(***************************************************************************)
(* How a value written to Machine\System\Time gets into force: the watch   *)
(* on the registry, the reload, and the one value with an effect on disk,  *)
(* TimeZone, which is kept as a copy in /etc/localtime and by name in a    *)
(* record beside the state (main.rs: Timed::new, run, wait,                *)
(* check_registry, reload, apply_zone; config.rs; localtime.rs).           *)
(*                                                                         *)
(* The registry and the time zone database are written by others between   *)
(* any two steps, and the process may stop at any of them.  `pc` is where  *)
(* the loop stands and `back` where a reload returns to.  Of the values    *)
(* only TimeZone is kept: what the rest do to the sources is SourceTable's *)
(* business.  When a refused zone is tried again is left open.             *)
(*                                                                         *)
(* writes, upgrades and faults bound the others.  missed is history: the   *)
(* last load failed, or a write since left no event on a watch still held. *)
(***************************************************************************)
EXTENDS Integers

CONSTANTS
    Zones,        \* names
    Utc,          \* the name used when none is chosen
    NoZone,       \* Option::None of a name; a record with no name in it
    Files,        \* what zone files hold: many zones share one
    NoFile,
    FileOf,       \* which of Files a name stands for
    MaxWrites, MaxUpgrades, MaxFaults

ASSUME ConfigurationConstants ==
    /\ Utc \in Zones /\ NoZone \notin Zones
    /\ FileOf \in [Zones -> Files] /\ NoFile \notin Files
    /\ MaxWrites \in Nat /\ MaxUpgrades \in Nat /\ MaxFaults \in Nat

VARIABLES
    registry,                  \* TimeZone as it is written
    database,                  \* version of each name's file, or Absent
    localtime, record,         \* the two files timed keeps
    watch,                     \* registry_watch, and whether it has events
    readable,                  \* registry_readable
    config,                    \* config.time_zone
    inForce, applied, refused, \* the Keeper; the options as sets
    bytes,                     \* render's copy of the zone's file
    pc, back,
    writes, upgrades, faults, missed

registryVars == <<registry, database, writes, upgrades>>
diskVars == <<localtime, record>>
watchVars == <<watch, readable>>
keeper == <<inForce, applied, refused, bytes>>
vars == <<registryVars, diskVars, watchVars, config, keeper, pc, back, faults,
          missed>>

Absent == -1
Wanted == Zones \cup {NoZone}
Content == [file : Files \cup {NoFile}, version : 0..MaxUpgrades]
Empty == [file |-> NoFile, version |-> 0]

Named(wanted) == IF wanted = NoZone THEN Utc ELSE wanted
Installed(name) == database[name] # Absent
Read(name) == [file |-> FileOf[name], version |-> database[name]]

Fault == faults < MaxFaults /\ faults' = faults + 1

-----------------------------------------------------------------------------
(* localtime::in_force: the recorded name, if the copy bears it out.       *)

Recorded(name, held) == Installed(name) /\ held # Empty
BorneOut(name, held) == Installed(name) /\ held # Empty /\ held = Read(name)
Identified(held) ==
    IF record \in Zones /\ BorneOut(record, held) THEN record ELSE NoZone

Init ==
    /\ registry \in Wanted
    /\ database \in [Zones -> {Absent, 0}]
    /\ localtime = Empty /\ record = NoZone
    /\ watch = "none" /\ readable = FALSE
    /\ config = NoZone
    /\ inForce = NoZone /\ applied = {} /\ refused = {} /\ bytes = Empty
    /\ pc = "load" /\ back = "check"
    /\ writes = 0 /\ upgrades = 0 /\ faults = 0 /\ missed = FALSE

(* Started again, the hook having found the copy where it was or made an   *)
(* empty file.  config::load and the watch are the next two steps.         *)
Restart(held) ==
    /\ Fault
    /\ localtime' = held
    /\ inForce' = Identified(held)
    /\ applied' = {} /\ refused' = {} /\ bytes' = Empty
    /\ watch' = "none" /\ readable' = FALSE
    /\ pc' = "load" /\ back' = "check"
    /\ UNCHANGED <<registryVars, record, config, missed>>

-----------------------------------------------------------------------------
(* What others do. *)

WriteRegistry(wanted) ==
    /\ writes < MaxWrites
    /\ writes' = writes + 1
    /\ registry' = wanted
    /\ watch' = IF watch = "none" THEN "none" ELSE "events"
    /\ missed' = (missed \/ watch = "none" \/ pc = "arm")
    /\ UNCHANGED <<database, upgrades, diskVars, readable, config, keeper,
                   pc, back, faults>>

UpgradeDatabase(names) ==
    /\ upgrades < MaxUpgrades
    /\ upgrades' = upgrades + 1
    /\ database' = [z \in Zones |-> IF z \in names THEN upgrades' ELSE Absent]
    /\ UNCHANGED <<registry, writes, diskVars, watchVars, config, keeper, pc,
                   back, faults, missed>>

-----------------------------------------------------------------------------
(* The turn *)

Goto(next) == pc' = next /\ UNCHANGED <<registryVars, faults>>

(* wait looks at the watch it was given; service_control comes after it.   *)
Wait ==
    /\ pc = "wait"
    /\ readable' = IF watch = "none" THEN readable ELSE watch = "events"
    /\ Goto("control")
    /\ UNCHANGED <<diskVars, watch, config, keeper, back, missed>>

ReloadOrdered ==
    /\ pc = "control"
    /\ Goto("load")
    /\ back' = "control"
    /\ UNCHANGED <<diskVars, watchVars, config, keeper, missed>>

Served ==
    /\ pc = "control"
    /\ Goto("check")
    /\ UNCHANGED <<diskVars, watchVars, config, keeper, back, missed>>

(* check_registry *)
SomethingChanged == watch = "events"

RegistryRead ==
    /\ pc = "check"
    /\ readable' = FALSE
    /\ back' = "wait"
    /\ Goto(IF readable /\ watch # "none" /\ SomethingChanged THEN "load"
            ELSE "due")
    /\ UNCHANGED <<diskVars, watch, config, keeper, missed>>

(* The read fails: a watch is armed again, and nothing else.               *)
WatchFails ==
    /\ pc = "check" /\ readable /\ watch # "none"
    /\ readable' = FALSE
    /\ watch' \in {"quiet", "none"}
    /\ back' = "wait"
    /\ Fault
    /\ pc' = "due"
    /\ missed' = (missed \/ watch = "events")
    /\ UNCHANGED <<registryVars, diskVars, config, keeper>>

RetryZone ==
    /\ pc = "due"
    /\ refused # {}
    /\ Goto("zone")
    /\ UNCHANGED <<diskVars, watchVars, config, keeper, back, missed>>

NotDue ==
    /\ pc = "due"
    /\ Goto("wait")
    /\ UNCHANGED <<diskVars, watchVars, config, keeper, back, missed>>

(* reload: the registry is read, and then a new watch armed.               *)
Load ==
    /\ pc = "load"
    /\ config' = registry
    /\ missed' = FALSE
    /\ Goto("arm")
    /\ UNCHANGED <<diskVars, watchVars, keeper, back>>

(* Without the key every value is its default, as before the first seed.   *)
LoadFails ==
    /\ pc = "load"
    /\ Fault
    /\ config' = NoZone
    /\ missed' = TRUE
    /\ pc' = "arm"
    /\ UNCHANGED <<registryVars, diskVars, watchVars, keeper, back>>

Arm ==
    /\ pc = "arm"
    /\ watch' = "quiet"
    /\ Goto("zone")
    /\ UNCHANGED <<diskVars, readable, config, keeper, back, missed>>

ArmFails ==
    /\ pc = "arm"
    /\ watch' = "none"
    /\ Fault
    /\ pc' = "zone"
    /\ UNCHANGED <<registryVars, diskVars, readable, config, keeper, back,
                   missed>>

-----------------------------------------------------------------------------
(* apply_zone: Keeper::apply with render, cut where the process may stop. *)

NothingToRetry == {}
ToRetry == {config}

Refuse ==
    /\ applied' = {}
    /\ refused' = ToRetry
    /\ bytes' = Empty
    /\ pc' = back
    /\ UNCHANGED <<registryVars, record, watchVars, config, inForce, back,
                   missed>>

ZoneInPlace ==
    /\ pc = "zone"
    /\ config \in applied
    /\ Goto(back)
    /\ UNCHANGED <<diskVars, watchVars, config, keeper, back, missed>>

ZoneAbsent ==
    /\ pc = "zone"
    /\ config \notin applied
    /\ ~Installed(Named(config))
    /\ Refuse
    /\ UNCHANGED <<localtime, faults>>

(* Already a copy of it, or emptied before it is written.                  *)
ReadZone ==
    /\ pc = "zone"
    /\ config \notin applied
    /\ Installed(Named(config))
    /\ bytes' = Read(Named(config))
    /\ IF localtime = bytes'
       THEN Goto("record") /\ UNCHANGED localtime
       ELSE Goto("copy") /\ localtime' = Empty
    /\ UNCHANGED <<record, watchVars, config, inForce, applied, refused, back,
                   missed>>

CopyZone ==
    /\ pc = "copy"
    /\ localtime' = bytes
    /\ Goto("record")
    /\ UNCHANGED <<record, watchVars, config, keeper, back, missed>>

(* A file that cannot be read or opened is refused with the copy as it     *)
(* was, one that cannot be written with the copy emptied.                  *)
RenderFails ==
    /\ \/ pc = "zone" /\ config \notin applied /\ Installed(Named(config))
       \/ pc = "copy"
    /\ Fault
    /\ Refuse
    /\ UNCHANGED localtime

(* Only a failure to record it is no failure.                              *)
RecordZone(written) ==
    /\ pc = "record"
    /\ IF written THEN record' = config /\ UNCHANGED faults
       ELSE UNCHANGED record /\ Fault
    /\ inForce' = config
    /\ applied' = {config} /\ refused' = {}
    /\ bytes' = Empty
    /\ pc' = back
    /\ UNCHANGED <<registryVars, localtime, watchVars, config, back, missed>>

Turn ==
    \/ Wait \/ Served \/ RegistryRead \/ NotDue \/ RetryZone
    \/ Load \/ Arm
    \/ ZoneInPlace \/ ZoneAbsent \/ ReadZone \/ CopyZone \/ RecordZone(TRUE)

Next ==
    \/ Turn
    \/ ReloadOrdered
    \/ WatchFails \/ LoadFails \/ ArmFails \/ RenderFails \/ RecordZone(FALSE)
    \/ \E held \in {localtime, Empty} : Restart(held)
    \/ \E wanted \in Wanted : WriteRegistry(wanted)
    \/ \E names \in SUBSET Zones : UpgradeDatabase(names)

(* The loop goes round, and what was refused is tried again in the end.    *)
Spec == Init /\ [][Next]_vars /\ WF_vars(Turn) /\ SF_vars(RetryZone)

-----------------------------------------------------------------------------
(* Properties *)

(* With the types: a value is never both in place and refused.             *)
TypeOK ==
    /\ registry \in Wanted /\ config \in Wanted
    /\ database \in [Zones -> {Absent} \cup 0..MaxUpgrades]
    /\ localtime \in Content /\ bytes \in Content
    /\ record \in Wanted /\ inForce \in Wanted
    /\ applied \subseteq Wanted /\ refused \subseteq Wanted
    /\ applied = {} \/ refused = {}
    /\ watch \in {"none", "quiet", "events"} /\ readable \in BOOLEAN
    /\ pc \in {"load", "arm", "zone", "copy", "record", "due", "wait",
               "control", "check"}
    /\ back \in {"wait", "control", "check"}
    /\ writes \in 0..MaxWrites /\ upgrades \in 0..MaxUpgrades
    /\ faults \in 0..MaxFaults /\ missed \in BOOLEAN

Rendering == pc \in {"copy", "record"}

(* What the keeper will not copy again is there: /etc/localtime holds the  *)
(* zone last put in place, whatever was refused or failed in between.      *)
AppliedInPlace ==
    ~Rendering => \A wanted \in applied : localtime.file = FileOf[Named(wanted)]

(* The zone that status names is the one every program sees, after any     *)
(* restarts, upgrades and lost records; or the file is empty, which        *)
(* programs take for UTC, and a refusal is still being tried again.        *)
StatusIsTrue ==
    ~Rendering /\ inForce # NoZone =>
       \/ localtime.file = FileOf[inForce]
       \/ localtime = Empty /\ refused # {}

(* So what the keeper and status take to be in force is in force.          *)
ZoneIsInPlace == AppliedInPlace /\ StatusIsTrue

(* The inductive invariant: what is about to be copied or has been is the  *)
(* file of the zone asked for.                                             *)
RenderInv ==
    /\ pc = "copy" => localtime = Empty /\ bytes.file = FileOf[Named(config)]
    /\ pc = "record" => localtime.file = FileOf[Named(config)]
IInv == TypeOK /\ ZoneIsInPlace /\ RenderInv

(* Every write the watch can have seen is acted on, and a zone that is     *)
(* asked for and installed is taken up, by a retry if nothing else, once   *)
(* nobody upgrades, fails or changes his mind.                             *)
TakenUp ==
    <>[](/\ missed \/ config = registry
         /\ \/ ~Installed(Named(config))
            \/ localtime.file = FileOf[Named(config)])

(* timed.regman: "Everything here takes effect within a second or two of   *)
(* being written - timed watches this subtree".                            *)
TakesEffect == <>[](config = registry)
=============================================================================
