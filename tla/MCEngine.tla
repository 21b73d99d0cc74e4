---- MODULE MCEngine ----
EXTENDS Engine
MCPoolOf == [s \in Special |-> CHOOSE p \in Pool : TRUE]
====
