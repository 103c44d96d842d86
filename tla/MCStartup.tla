------------------------------- MODULE MCStartup -------------------------------
EXTENDS Startup

CONSTANTS p1, p2

Given(roots, profiles, refresh) == [root : roots, profile : profiles, refresh : refresh]

\* A command of a tool beside any other command.
MCCommands ==
    [p \in Procs |->
       IF p = p1 THEN Given({"tool"}, {NoProfile}, BOOLEAN)
       ELSE Given({"local", "inspect"}, {NoProfile}, {FALSE}) \cup Given({"offline"}, {"a"}, {FALSE})]
=============================================================================
