-------------------------------- MODULE MCLogin --------------------------------
EXTENDS Login

CONSTANTS p1, p2

Given(ops) == [op : ops, terminal : {TRUE}, valid : {TRUE}]

\* One process that stores or removes a token, with every way to log in and a
\* login that is refused, beside one that uses the token or logs in as well.
MCCommands ==
    [p \in Procs |->
        IF p = p1
        THEN Given({"browser", "device", "init", "once", "logout"})
             \cup {[op |-> "browser", terminal |-> FALSE, valid |-> TRUE]}
        ELSE Given({"poll", "use", "status"})]
=============================================================================
