--------------------------- MODULE MCCommandLine ---------------------------
(* A small instance of CommandLine for TLC. *)
EXTENDS CommandLine

MCExit == <<"exit">>
MCCommands == {<<"show", "version">>, <<"show", "aaa", "sessions">>, MCExit}

\* Commands, a beginning of one, and words that lead nowhere.
MCInputs ==
    MCCommands \cup {<<"show", "aaa">>, <<"show", "aaa", "version">>}
=============================================================================
