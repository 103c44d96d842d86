---------------------------- MODULE MCProfileConfig ----------------------------
EXTENDS ProfileConfig

CONSTANTS p1, p2, a, b, default, v, digits

MCProfile(h) == [host |-> h, headers |-> v, token |-> v, extra |-> v]

\* An edit of each kind, of the profile that is current, of another and of one
\* that is not there yet.
MCCommands ==
    {[op |-> o, name |-> n, key |-> k, value |-> w] :
        o \in {"init"}, n \in {a, Unset}, k \in {"host"}, w \in {v}}
    \cup {[op |-> "set", name |-> n, key |-> "token", value |-> digits] : n \in {b, Unset}}
    \cup {[op |-> o, name |-> n, key |-> "host", value |-> v] :
            o \in {"use", "create", "delete"}, n \in {a, b}}
    \cup {[op |-> o, name |-> Unset, key |-> "host", value |-> v] : o \in {"login", "show"}}

MCFiles ==
    {Empty,
     [current |-> a, profiles |-> [n \in {a} |-> MCProfile(digits)]],
     [current |-> a, profiles |-> [n \in {a, b} |-> MCProfile(v)]]}
=============================================================================
