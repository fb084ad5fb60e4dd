---------------------------- MODULE MCServerMain ----------------------------
(***************************************************************************)
(* ServerMain for TLC: the four signals main.cc installs handlers for, by *)
(* their Linux numbers, a queue of one slot and two feed requests.        *)
(***************************************************************************)
EXTENDS ServerMain

SIGHUP == 1
SIGINT == 2
SIGPIPE == 13
SIGTERM == 15

MCExitSignals == {SIGTERM, SIGINT}
MCIgnoredSignals == {SIGPIPE, SIGHUP}

=============================================================================
