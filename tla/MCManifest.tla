----------------------------- MODULE MCManifest -----------------------------
(* Small databases for TLC. *)
EXTENDS Manifest

\* Level 1 takes everything: Level 0 is compacted again and again.
OneDeep == <<1, 100>>

\* Level 1 overflows too: one call of SizeTieredCompaction runs two rounds.
TwoDeep == <<1, 2, 100>>

=============================================================================
