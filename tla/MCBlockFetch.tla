---------------------------- MODULE MCBlockFetch ----------------------------
(* Instances of BlockFetch for TLC. *)
EXTENDS BlockFetch

(* Applications that use block fetch in one way, and some that do not. *)
OneStyle == {RowWise,
             {"fetch", "fetchSync", "fetchAllSync"},
             {"fetchAllSync", "moreResultsSync"}}
NextSets == {{"fetchNSync", "moreResultsSync"}}

TwoSets == <<4, 5>>
SmallSets == <<2, 3>>
=============================================================================
