------------------------------ MODULE MCStartup -----------------------------
(* A small instance of Startup.                                            *)
EXTENDS Startup

\* An empty database, one of the current schema without indexes, one whose unindexed columns
\* are to be added, and one whose indexed column is missing.
MCDatabases == {
    {},
    {"table", "column"} \X Columns,
    {<<"table", "plain">>, <<"table", "late">>},
    {<<"table", "indexed">>, <<"table", "plain">>}}

Production == [production |-> TRUE, mode |-> "api_key", pepper |-> "strong", bootKey |-> "strong",
               nonces |-> "sql", defaults |-> FALSE, caa |-> TRUE, resolver |-> TRUE]

\* A production configuration, one without its pepper, and one of development.
MCConfigs == {
    Production,
    [Production EXCEPT !.pepper = "none", !.bootKey = "none"],
    [Production EXCEPT !.production = FALSE, !.mode = "dev", !.nonces = "memory", !.defaults = TRUE]}
=============================================================================
