--------------------------- MODULE InternalListen ---------------------------
(***************************************************************************)
(* src/mysqld_edb.cc and cmd/edb/mariadbd.go: before it turns on TLS and   *)
(* access control the server listens on an internal address, until an      *)
(* environment variable is found cleared after a connection.  The thread   *)
(* of the server and the goroutine in Mariadb.Start share the variable,    *)
(* the ready flag and the socket, and no lock.                             *)
(***************************************************************************)

VARIABLES
  addr,     \* EDB_INTERNAL_ADDR is set and not empty
  ready,    \* edgeless_listen_internal_ready
  server,   \* where the thread of the server is
  pending,  \* the connection in the backlog: from getConfigFromSQL, the last Dial, or none
  session   \* a pool thread serves the SQL connection

listenVars == <<addr, ready, server, pending, session>>

ServerLabels == {"off", "open", "bind", "listen", "accept", "check", "close", "ssl", "running"}

\* A connect to the internal address succeeds: the kernel puts it into the backlog.
Listening == server \in {"listen", "accept", "check", "close"}

ListenInit ==
  /\ addr = FALSE /\ ready = FALSE /\ server = "off"
  /\ pending = "none" /\ session = FALSE

\* The process ends: nothing of this is kept.
ListenReset ==
  /\ addr' = FALSE /\ ready' = FALSE /\ server' = "off"
  /\ pending' = "none" /\ session' = FALSE

\* Start sets the variable and calls mariadbd.Main in a goroutine.
MainStarts == addr' = TRUE /\ server' = "open" /\ UNCHANGED <<ready, pending, session>>

\* socket, bind and listen.
Listen ==
  /\ server = "bind" /\ addr
  /\ server' = "listen"
  /\ UNCHANGED <<addr, ready, pending, session>>

SetReady ==
  /\ server = "listen"
  /\ ready' = TRUE
  /\ server' = "accept"
  /\ UNCHANGED <<addr, pending, session>>

\* accept and handle_accepted_socket, which hands the connection to the thread pool.
Accept ==
  /\ server = "accept" /\ pending # "none"
  /\ session' = (session \/ pending = "sql")
  /\ pending' = "none"
  /\ server' = "check"
  /\ UNCHANGED <<addr, ready>>

\* Mutant: the loop ends after the first connection.
AcceptOnce ==
  /\ server = "check"
  /\ server' = "close"
  /\ UNCHANGED <<addr, ready, pending, session>>

\* The condition of the loop.
CheckAddr ==
  /\ server = "check"
  /\ server' = IF addr THEN "accept" ELSE "close"
  /\ UNCHANGED <<addr, ready, pending, session>>

\* The socket is closed; a connection in the backlog is reset.
CloseSocket ==
  /\ server = "close"
  /\ server' = "ssl"
  /\ pending' = "none"
  /\ UNCHANGED <<addr, ready, session>>

\* The rest of the server's start-up: TLS, access control, mysqld_server_started.
FinishStartup ==
  /\ server = "ssl"
  /\ server' = "running"
  /\ UNCHANGED <<addr, ready, pending, session>>

ListenStep == Listen \/ SetReady \/ Accept \/ CheckAddr \/ CloseSocket \/ FinishStartup

\* A connect by the goroutine in Start.
Connect(kind) == Listening /\ pending' = kind /\ UNCHANGED <<addr, ready, server, session>>
=============================================================================
