-------------------------- MODULE BoltConnections --------------------------
(***************************************************************************)
(* The sessions of a store (db.StoreSession) on the Bolt database, whose   *)
(* file can be opened by one process only: it is open while some session   *)
(* is, and closed in between so that the command line can use it.  A       *)
(* session is known by its token.  The SQL stores stay connected.          *)
(***************************************************************************)
EXTENDS Naturals, FiniteSets

VARIABLES
    permanent,    \* Store.PermanentConnection: TRUE for SQL, FALSE for Bolt
    connections,  \* BoltDb.connections
    dbOpen        \* BoltDb.db # nil

store == <<permanent, connections, dbOpen>>

\* A token that is in use is a panic, before anything is changed.
ConnectPanics(token) == ~ permanent /\ token \in connections

Connect(token) ==
    IF permanent THEN UNCHANGED store
    ELSE /\ token \notin connections
         /\ connections' = connections \cup {token}
         /\ dbOpen' = TRUE
         /\ UNCHANGED permanent

\* Faulty variant: the file is closed with any session.
CloseAlways(token) ==
    IF permanent THEN UNCHANGED store
    ELSE /\ connections' = connections \ {token}
         /\ dbOpen' = FALSE
         /\ UNCHANGED permanent

\* The last session closes the file.
Close(token) ==
    IF permanent THEN UNCHANGED store
    ELSE /\ token \in connections
         /\ connections' = connections \ {token}
         /\ dbOpen' = IF Cardinality(connections) > 1 THEN dbOpen ELSE FALSE
         /\ UNCHANGED permanent

=============================================================================
