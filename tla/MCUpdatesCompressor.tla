------------------------ MODULE MCUpdatesCompressor -------------------------
(* UpdatesCompressor for TLC: the settings of the console variable. *)
EXTENDS UpdatesCompressor

MCLevels == {{"last_change"}, {"ppmd", "last_change"}}
=============================================================================
