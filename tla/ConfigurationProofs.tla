------------------------- MODULE ConfigurationProofs -------------------------
(***************************************************************************)
(* Theorems about Configuration for any zones, any sharing of files among  *)
(* them and any number of writes, upgrades, failures and restarts: what    *)
(* the keeper takes to be in place is, and status names the zone in force. *)
(*                                                                         *)
(* Only the steps of apply_zone and a restart touch what is in place       *)
(* (Place); every other step keeps it by leaving those variables alone.    *)
(***************************************************************************)
EXTENDS MCMachine, DisciplineProofs

(* What IInv says beside the types, and the variables it speaks of.        *)
Place == AppliedInPlace /\ StatusIsTrue /\ RenderInv
placeVars == <<localtime, config, inForce, applied, refused, bytes>>

-----------------------------------------------------------------------------
(* The operators *)

(* None stands for UTC, so every value asked for is a zone's name.         *)
LEMMA NamedIsAZone ==
  ASSUME NEW wanted \in Wanted
  PROVE  Named(wanted) \in Zones
  BY ConfigurationConstants DEF Named, Wanted

(* An installed zone's file is content, and not the empty file.            *)
LEMMA ReadIsContent ==
  ASSUME TypeOK, NEW name \in Zones, Installed(name)
  PROVE  /\ Read(name) \in Content
         /\ Read(name).file = FileOf[name]
<1>1. database[name] \in 0..MaxUpgrades
  BY DEF TypeOK, Installed, Absent
<1>2. FileOf[name] \in Files  BY ConfigurationConstants
<1> QED  BY <1>1, <1>2 DEF Read, Content

(* What a restart believes to be in force is what the copy holds.          *)
LEMMA IdentifiedIsTrue ==
  ASSUME TypeOK, NEW held \in Content
  PROVE  /\ Identified(held) \in Wanted
         /\ Identified(held) # NoZone => held.file = FileOf[Identified(held)]
<1>1. CASE record \in Zones /\ BorneOut(record, held)
  <2>1. Identified(held) = record  BY <1>1 DEF Identified
  <2>2. held = Read(record) /\ Installed(record)  BY <1>1 DEF BorneOut
  <2> QED  BY <1>1, <2>1, <2>2, ReadIsContent DEF Wanted
<1>2. CASE ~(record \in Zones /\ BorneOut(record, held))
  BY <1>2 DEF Identified, Wanted
<1> QED  BY <1>1, <1>2

(* The empty file is content, and no zone's.                               *)
LEMMA EmptyIsContent ==
  Empty \in Content
  BY ConfigurationConstants DEF Empty, Content

(* A fault is one of the MaxFaults there may be.                           *)
LEMMA FaultIsCounted ==
  ASSUME TypeOK, Fault
  PROVE  faults' \in 0..MaxFaults
  BY ConfigurationConstants DEF TypeOK, Fault

-----------------------------------------------------------------------------
(* Types *)

(* Every step keeps the types, and no value both in place and refused.     *)
LEMMA NextTypeOK == TypeOK /\ [Next]_vars => TypeOK'
<1> SUFFICES ASSUME TypeOK, [Next]_vars PROVE TypeOK'
  OBVIOUS
<1> USE ConfigurationConstants
<1>1. CASE Turn
  <2>1. CASE Wait
    BY <2>1 DEF Wait, Goto, TypeOK, registryVars, diskVars, keeper
  <2>2. CASE Served \/ NotDue \/ RetryZone
    BY <2>2 DEF Served, NotDue, RetryZone, Goto, TypeOK, registryVars,
                diskVars, watchVars, keeper
  <2>3. CASE RegistryRead
    BY <2>3 DEF RegistryRead, Goto, TypeOK, registryVars, diskVars, keeper
  <2>4. CASE Load \/ Arm
    BY <2>4 DEF Load, Arm, Goto, TypeOK, registryVars, diskVars, watchVars,
                keeper
  <2>5. CASE ZoneInPlace
    BY <2>5 DEF ZoneInPlace, Goto, TypeOK, registryVars, diskVars, watchVars,
                keeper
  <2>6. CASE ZoneAbsent
    BY <2>6, EmptyIsContent DEF ZoneAbsent, Refuse, ToRetry, TypeOK,
             registryVars, watchVars
  <2>7. CASE ReadZone
    <3>1. bytes' \in Content
      BY <2>7, NamedIsAZone, ReadIsContent DEF ReadZone, TypeOK
    <3>2. localtime' \in Content /\ pc' \in {"record", "copy"}
      BY <2>7, EmptyIsContent DEF ReadZone, Goto, TypeOK
    <3>3. UNCHANGED <<registryVars, faults>>
      BY <2>7 DEF ReadZone, Goto
    <3> QED
      BY <2>7, <3>1, <3>2, <3>3 DEF ReadZone, TypeOK, registryVars, watchVars
  <2>8. CASE CopyZone
    BY <2>8 DEF CopyZone, Goto, TypeOK, registryVars, watchVars, keeper
  <2>9. CASE RecordZone(TRUE)
    BY <2>9, EmptyIsContent DEF RecordZone, TypeOK, registryVars, watchVars
  <2> QED
    BY <1>1, <2>1, <2>2, <2>3, <2>4, <2>5, <2>6, <2>7, <2>8, <2>9 DEF Turn
<1>2. CASE ReloadOrdered
  BY <1>2 DEF ReloadOrdered, Goto, TypeOK, registryVars, diskVars, watchVars,
              keeper
<1>3. CASE WatchFails
  <2>1. faults' \in 0..MaxFaults  BY <1>3, FaultIsCounted DEF WatchFails
  <2>2. missed' \in BOOLEAN  BY <1>3 DEF WatchFails
  <2> QED
    BY <1>3, <2>1, <2>2 DEF WatchFails, TypeOK, registryVars, diskVars, keeper
<1>4. CASE LoadFails \/ ArmFails
  <2>1. faults' \in 0..MaxFaults
    BY <1>4, FaultIsCounted DEF LoadFails, ArmFails
  <2>2. config' \in Wanted
    BY <1>4 DEF LoadFails, ArmFails, Wanted, TypeOK
  <2> QED
    BY <1>4, <2>1, <2>2 DEF LoadFails, ArmFails, TypeOK, registryVars,
             diskVars, watchVars, keeper
<1>5. CASE RenderFails
  <2>1. faults' \in 0..MaxFaults  BY <1>5, FaultIsCounted DEF RenderFails
  <2> QED
    BY <1>5, <2>1, EmptyIsContent DEF RenderFails, Refuse, ToRetry,
             TypeOK, registryVars, watchVars
<1>6. CASE RecordZone(FALSE)
  <2>1. faults' \in 0..MaxFaults  BY <1>6, FaultIsCounted DEF RecordZone
  <2> QED
    BY <1>6, <2>1, EmptyIsContent DEF RecordZone, TypeOK, registryVars,
             watchVars
<1>7. ASSUME NEW held \in {localtime, Empty}, Restart(held) PROVE TypeOK'
  <2>1. held \in Content  BY EmptyIsContent DEF TypeOK
  <2>2. inForce' \in Wanted  BY <1>7, <2>1, IdentifiedIsTrue DEF Restart
  <2>3. faults' \in 0..MaxFaults  BY <1>7, FaultIsCounted DEF Restart
  <2> QED
    BY <1>7, <2>1, <2>2, <2>3, EmptyIsContent DEF Restart, TypeOK,
             registryVars
<1>8. ASSUME NEW wanted \in Wanted, WriteRegistry(wanted) PROVE TypeOK'
  BY <1>8 DEF WriteRegistry, TypeOK, diskVars, keeper
<1>9. ASSUME NEW names \in SUBSET Zones, UpgradeDatabase(names) PROVE TypeOK'
  <2>1. upgrades' \in 0..MaxUpgrades
    BY <1>9 DEF UpgradeDatabase, TypeOK
  <2>2. database' \in [Zones -> {Absent} \cup 0..MaxUpgrades]
    BY <1>9, <2>1 DEF UpgradeDatabase
  <2> QED
    BY <1>9, <2>1, <2>2 DEF UpgradeDatabase, TypeOK, diskVars, watchVars,
             keeper
<1>10. CASE UNCHANGED vars
  BY <1>10 DEF vars, TypeOK, registryVars, diskVars, watchVars, keeper
<1> QED
  BY <1>1, <1>2, <1>3, <1>4, <1>5, <1>6, <1>7, <1>8, <1>9, <1>10 DEF Next

-----------------------------------------------------------------------------
(* What is in place *)

(* A step outside apply_zone keeps Place: it leaves the copy and the       *)
(* keeper alone, and does not begin to render.                             *)
LEMMA ElsewhereKeeps ==
  ASSUME Place, ~Rendering, UNCHANGED <<localtime, inForce, applied, refused>>,
         pc' \notin {"copy", "record"}
  PROVE  Place'
  BY DEF Place, AppliedInPlace, StatusIsTrue, RenderInv, Rendering

(* So does one that changes nothing Place speaks of.                       *)
LEMMA StutterKeeps ==
  ASSUME Place, UNCHANGED placeVars, pc' = pc
  PROVE  Place'
  BY DEF Place, placeVars, AppliedInPlace, StatusIsTrue, RenderInv, Rendering

(* A refusal leaves nothing applied; if it left the copy empty, the retry  *)
(* that will put it right is noted.                                        *)
LEMMA RefusalKeeps ==
  ASSUME TypeOK, Place, Refuse, UNCHANGED localtime, pc \in {"zone", "copy"}
  PROVE  Place'
<1>1. applied' = {} /\ refused' # {} /\ inForce' = inForce /\ pc' = back
  BY DEF Refuse, ToRetry
<1>2. back \notin {"copy", "record"}  BY DEF TypeOK
<1>3. CASE pc = "zone"
  BY <1>1, <1>2, <1>3 DEF Place, AppliedInPlace, StatusIsTrue, RenderInv,
                          Rendering
<1>4. CASE pc = "copy"
  <2>1. localtime' = Empty  BY <1>4 DEF Place, RenderInv
  <2> QED
    BY <1>1, <1>2, <2>1 DEF Place, AppliedInPlace, StatusIsTrue, RenderInv
<1> QED  BY <1>3, <1>4

(* What is recorded as in force and applied is what has just been copied.  *)
LEMMA RecordKeeps ==
  ASSUME TypeOK, Place, NEW written \in BOOLEAN, RecordZone(written)
  PROVE  Place'
<1>1. localtime.file = FileOf[Named(config)]
  BY DEF RecordZone, Place, RenderInv
<1>2. /\ localtime' = localtime /\ config' = config
      /\ inForce' = config /\ applied' = {config}
      /\ pc' = back /\ back \notin {"copy", "record"}
  BY DEF RecordZone, TypeOK
<1> QED
  BY <1>1, <1>2 DEF Place, AppliedInPlace, StatusIsTrue, RenderInv, Named

(* Every step keeps the copy and the keeper in agreement.                  *)
LEMMA NextPlace == TypeOK /\ Place /\ [Next]_vars => Place'
<1> SUFFICES ASSUME TypeOK, Place, [Next]_vars PROVE Place'
  OBVIOUS
<1>1. CASE Turn
  <2>1. CASE Wait \/ Served \/ RegistryRead \/ NotDue \/ RetryZone \/ Load \/ Arm
    <3>1. /\ ~Rendering /\ pc' \notin {"copy", "record"}
          /\ UNCHANGED <<localtime, inForce, applied, refused>>
      BY <2>1 DEF Wait, Served, RegistryRead, NotDue, RetryZone, Load, Arm,
                  Goto, Rendering, diskVars, keeper
    <3> QED  BY <3>1, ElsewhereKeeps
  <2>2. CASE ZoneInPlace
    <3>1. /\ ~Rendering /\ pc' \notin {"copy", "record"}
          /\ UNCHANGED <<localtime, inForce, applied, refused>>
      BY <2>2 DEF ZoneInPlace, Goto, TypeOK, Rendering, diskVars, keeper
    <3> QED  BY <3>1, ElsewhereKeeps
  <2>3. CASE ZoneAbsent
    BY <2>3, RefusalKeeps DEF ZoneAbsent
  <2>4. CASE ReadZone
    <3>1. Named(config) \in Zones /\ Installed(Named(config))
      BY <2>4, NamedIsAZone DEF ReadZone, TypeOK
    <3>2. bytes' = Read(Named(config)) /\ config' = config
      BY <2>4 DEF ReadZone
    <3>3. bytes'.file = FileOf[Named(config)]
      BY <3>1, <3>2, ReadIsContent
    <3>4. \/ pc' = "record" /\ localtime' = bytes'
          \/ pc' = "copy" /\ localtime' = Empty
      BY <2>4 DEF ReadZone, Goto
    <3> QED
      BY <3>2, <3>3, <3>4 DEF Place, AppliedInPlace, StatusIsTrue, RenderInv,
                              Rendering, Named, Empty
  <2>5. CASE CopyZone
    <3>1. /\ pc' = "record" /\ localtime' = bytes /\ config' = config
          /\ bytes.file = FileOf[Named(config)]
      BY <2>5 DEF CopyZone, Goto, Place, RenderInv
    <3> QED
      BY <3>1 DEF Place, AppliedInPlace, StatusIsTrue, RenderInv, Rendering,
                  Named
  <2>6. CASE RecordZone(TRUE)
    BY <2>6, RecordKeeps
  <2> QED  BY <1>1, <2>1, <2>2, <2>3, <2>4, <2>5, <2>6 DEF Turn
<1>2. CASE ReloadOrdered \/ WatchFails \/ LoadFails \/ ArmFails
  <2>1. /\ ~Rendering /\ pc' \notin {"copy", "record"}
        /\ UNCHANGED <<localtime, inForce, applied, refused>>
    BY <1>2 DEF ReloadOrdered, WatchFails, LoadFails, ArmFails, Goto,
                Rendering, diskVars, keeper
  <2> QED  BY <2>1, ElsewhereKeeps
<1>3. CASE RenderFails
  BY <1>3, RefusalKeeps DEF RenderFails
<1>4. CASE RecordZone(FALSE)
  BY <1>4, RecordKeeps
<1>5. ASSUME NEW held \in {localtime, Empty}, Restart(held) PROVE Place'
  <2>1. held \in Content  BY EmptyIsContent DEF TypeOK
  <2>2. /\ localtime' = held /\ inForce' = Identified(held)
        /\ applied' = {} /\ pc' = "load"
    BY <1>5 DEF Restart
  <2>3. inForce' # NoZone => localtime'.file = FileOf[inForce']
    BY <2>1, <2>2, IdentifiedIsTrue
  <2> QED
    BY <2>2, <2>3 DEF Place, AppliedInPlace, StatusIsTrue, RenderInv
<1>6. ASSUME NEW wanted \in Wanted, WriteRegistry(wanted) PROVE Place'
  <2>1. UNCHANGED placeVars /\ pc' = pc
    BY <1>6 DEF WriteRegistry, placeVars, diskVars, keeper
  <2> QED  BY <2>1, StutterKeeps
<1>7. ASSUME NEW names \in SUBSET Zones, UpgradeDatabase(names) PROVE Place'
  <2>1. UNCHANGED placeVars /\ pc' = pc
    BY <1>7 DEF UpgradeDatabase, placeVars, diskVars, keeper
  <2> QED  BY <2>1, StutterKeeps
<1>8. CASE UNCHANGED vars
  <2>1. UNCHANGED placeVars /\ pc' = pc
    BY <1>8 DEF vars, placeVars, diskVars, keeper
  <2> QED  BY <2>1, StutterKeeps
<1> QED  BY <1>1, <1>2, <1>3, <1>4, <1>5, <1>6, <1>7, <1>8 DEF Next

-----------------------------------------------------------------------------
(* The theorems *)

(* A machine's first start knows of no zone.                               *)
LEMMA InitIInv == Init => IInv
<1> SUFFICES ASSUME Init PROVE IInv
  OBVIOUS
<1>1. TypeOK
  <2>1. database \in [Zones -> {Absent} \cup 0..MaxUpgrades]
    BY ConfigurationConstants DEF Init
  <2>2. 0 \in 0..MaxWrites /\ 0 \in 0..MaxUpgrades /\ 0 \in 0..MaxFaults
    BY ConfigurationConstants
  <2>3. NoZone \in Wanted  BY DEF Wanted
  <2> QED
    BY <2>1, <2>2, <2>3, EmptyIsContent DEF Init, TypeOK
<1>2. AppliedInPlace /\ StatusIsTrue /\ RenderInv
  BY DEF Init, AppliedInPlace, StatusIsTrue, RenderInv
<1> QED  BY <1>1, <1>2 DEF IInv, ZoneIsInPlace

(* The invariant holds in every reachable state.                           *)
THEOREM Invariance == Spec => []IInv
<1>1. Init => IInv  BY InitIInv
<1>2. IInv /\ [Next]_vars => IInv'
  BY NextTypeOK, NextPlace DEF IInv, ZoneIsInPlace, Place
<1> QED  BY <1>1, <1>2, PTL DEF Spec

(* Types, and that no value is both in place and refused.                  *)
THEOREM TypeCorrect == Spec => []TypeOK
<1>1. IInv => TypeOK  BY DEF IInv
<1> QED  BY <1>1, Invariance, PTL

(* Keeper.applied, for the sake of which a zone is not copied again, and   *)
(* Keeper.in_force, which status shows, name what /etc/localtime holds,    *)
(* whatever failed at whatever point; or the file is empty and a retry is  *)
(* due.                                                                    *)
THEOREM WhatIsNamedIsInPlace == Spec => []ZoneIsInPlace
<1>1. IInv => ZoneIsInPlace  BY DEF IInv
<1> QED  BY <1>1, Invariance, PTL

-----------------------------------------------------------------------------
(* The servo and the zone keeper, side by side, each of them as it is      *)
(* alone: the rates the kernel is asked for within the tolerance, and no   *)
(* value both in place and refused.                                        *)
THEOREM MachineTypeCorrect == MCSpec => []MachineTypeOK
<1>1. MCInit => DisciplineIInv /\ IInv
  BY DisciplineStarts, InitIInv DEF MCInit, NoZones, NoServo
<1>2. DisciplineIInv /\ IInv /\ [MCNext]_mcVars => (DisciplineIInv /\ IInv)'
  <2>1. [MCNext]_mcVars => [DisciplineNext]_disciplineVars /\ [Next]_vars
    BY DEF MCNext, OnClock, OnZone, mcVars
  <2> QED
    BY <2>1, DisciplineKeeps, NextTypeOK, NextPlace DEF IInv, ZoneIsInPlace, Place
<1>3. DisciplineIInv /\ IInv => MachineTypeOK
  BY DEF DisciplineIInv, IInv, MachineTypeOK
<1> QED  BY <1>1, <1>2, <1>3, PTL DEF MCSpec
=============================================================================
