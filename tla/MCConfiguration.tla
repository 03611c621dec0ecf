-------------------------- MODULE MCConfiguration --------------------------
(* Three names for two files: London and GB are the same.                  *)
EXTENDS Configuration

CONSTANTS London, GB, LondonFile, UtcFile

MCZones == {Utc, London, GB}
MCFiles == {LondonFile, UtcFile}
MCFileOf == [z \in MCZones |-> IF z = Utc THEN UtcFile ELSE LondonFile]
=============================================================================
