------------------------------- MODULE Startup -------------------------------
(***************************************************************************)
(* main, from the configuration file to serving: validation, the database  *)
(* and its migrations, Server::new and bind; with crashes, failing I/O and *)
(* restarts.  What happens while the server serves is module Supervisor's. *)
(*                                                                         *)
(* sea-orm-migration is external: up runs the pending migrations in order, *)
(* each followed by its record, and is atomic per migration only on        *)
(* backends for which it opens a transaction.                              *)
(***************************************************************************)
EXTENDS Naturals, Sequences

CONSTANTS
  Configs,        \* configurations the operator may provide
  Databases,      \* the database kinds the operator may choose from
  MaxFaults       \* crashes and failures of I/O

\* A text is what validation sees of it: its trimmed bytes and whether it has CR or LF.
Text(bytes, delimited) == [bytes |-> bytes, delimited |-> delimited]

\* ProtocolDialect and ListenerConfig: what the file of the operator deserialises to.
u16 == 0 .. 65535
ProtocolDialect == {"Classic", "Vatsim", "AsterV1"}
ListenerConfig ==
  [name : STRING, protocol : ProtocolDialect, address : STRING, port : u16,
   max_frame_bytes : Nat, idle_timeout_seconds : Nat]

Listener(name, protocol, address, port, max_frame_bytes, idle_timeout_seconds) ==
  [name |-> name, protocol |-> protocol, address |-> address, port |-> port,
   max_frame_bytes |-> max_frame_bytes, idle_timeout_seconds |-> idle_timeout_seconds]

\* Config::default
DefaultConfig ==
  [name |-> Text(8, FALSE), product_message |-> Text(14, FALSE), motd |-> <<>>,
   logging_level |-> Text(4, FALSE), max_clients |-> 1000, mailbox_capacity |-> 256,
   wind_delta_interval_seconds |-> 70,
   listeners |-> <<Listener("classic", "Classic", "0.0.0.0", 6809, 511, 500)>>,
   max_connections |-> 100, min_connections |-> 5]

ASSUME StartupAssumption ==
  /\ Databases \subseteq {"postgres", "sqlite"} /\ MaxFaults \in Nat
  /\ DefaultConfig \in Configs
  /\ \A c \in Configs : DOMAIN c = DOMAIN DefaultConfig /\ c.listeners \in Seq(ListenerConfig)

VARIABLES
  step,    \* how far main is; "down" before it runs, "exited" after an error
  config,  \* the loaded configuration
  database,  \* its kind, which an installation does not change
  schema,  \* durable: tables, seeded rows and recorded migrations
  work,    \* the schema as the migration under way sees it
  todo,    \* statements left of that migration
  bound,   \* listeners bound
  cause,   \* what main returned with
  faults   \* faults so far

vars == <<step, config, database, schema, work, todo, bound, cause, faults>>

Running == {"loaded", "validated", "connected", "migrated", "built", "serving"}

Init ==
  /\ step = "down" /\ config = DefaultConfig /\ database \in Databases
  /\ schema = [tables |-> {}, seeded |-> 0, recorded |-> {}]
  /\ work = schema /\ todo = <<>> /\ bound = 0
  /\ cause = "none" /\ faults = 0

\* main returns: what it held is dropped, an open transaction is rolled back.
exit(why) ==
  /\ step' = "exited" /\ cause' = why
  /\ bound' = 0 /\ todo' = <<>> /\ work' = schema
  /\ UNCHANGED <<config, database, schema>>

fault == faults < MaxFaults /\ faults' = faults + 1
-----------------------------------------------------------------------------
(***************************************************************************)
(* Configuration.                                                          *)
(***************************************************************************)
\* config.toml if there is one, and the defaults otherwise.
load(c) ==
  /\ step = "down"
  /\ step' = "loaded" /\ config' = c
  /\ UNCHANGED <<database, schema, work, todo, bound, cause, faults>>

load_fails == step = "down" /\ fault /\ exit("file")

ListenerErrors(l) ==
  {e \in {"InvalidListenerLimit", "ClassicFrameLimit"} :
     \/ e = "InvalidListenerLimit" /\ 0 \in {l.max_frame_bytes, l.idle_timeout_seconds}
     \/ e = "ClassicFrameLimit" /\ l.protocol = "Classic" /\ l.max_frame_bytes > 511}

duplicate_listener(listeners) ==
  \E i, j \in 1 .. Len(listeners) :
    /\ i < j
    /\ \/ listeners[i].name = listeners[j].name
       \/ /\ listeners[i].address = listeners[j].address
          /\ listeners[i].port = listeners[j].port

ServerErrors(c) ==
  {e \in {"EmptyServerName", "InvalidProductMessage", "EmptyLoggingLevel", "InvalidServerLimit",
          "NoListeners", "DuplicateListener", "InvalidDatabasePool"} :
     \/ e = "EmptyServerName" /\ c.name.bytes = 0
     \/ e = "InvalidProductMessage" /\ (c.product_message.bytes = 0 \/ c.product_message.delimited)
     \/ e = "EmptyLoggingLevel" /\ c.logging_level.bytes = 0
     \/ /\ e = "InvalidServerLimit"
        /\ 0 \in {c.max_clients, c.mailbox_capacity, c.wind_delta_interval_seconds}
     \/ e = "NoListeners" /\ c.listeners = <<>>
     \/ e = "DuplicateListener" /\ duplicate_listener(c.listeners)
     \/ /\ e = "InvalidDatabasePool"
        /\ (0 \in {c.min_connections, c.max_connections} \/ c.min_connections > c.max_connections)}

\* The errors that apply; validate returns the first it meets.
ConfigErrors(c) ==
  ServerErrors(c) \cup UNION {ListenerErrors(c.listeners[i]) : i \in 1 .. Len(c.listeners)}

\* Mutants of is_valid: listeners are not looked at; the limit itself is refused.
is_valid_server(c) ==
  c.listeners # <<>> /\ ConfigErrors(c) \subseteq {"InvalidListenerLimit", "DuplicateListener"}
is_valid_below_limit(c) ==
  ConfigErrors(c) = {} /\ \A i \in 1 .. Len(c.listeners) : c.listeners[i].max_frame_bytes < 511

is_valid(c) == ConfigErrors(c) = {}

validate ==
  /\ step = "loaded"
  /\ \/ /\ is_valid(config) /\ step' = "validated"
        /\ UNCHANGED <<config, database, schema, work, todo, bound, cause>>
     \/ ~ is_valid(config) /\ exit("config")
  /\ UNCHANGED faults
-----------------------------------------------------------------------------
(***************************************************************************)
(* connect: the pool, and Migrator::up.                                    *)
(***************************************************************************)
Migrations ==
  << [name |-> "create_users", statements |-> <<"create users">>],
     [name |-> "create_client_whitelist", statements |-> <<"create client_whitelist", "insert">>] >>

Table ==
  [s \in {"create users", "create client_whitelist"} |->
     IF s = "create users" THEN "users" ELSE "client_whitelist"]

connect ==
  /\ step = "validated"
  /\ step' = "connected" /\ work' = schema
  /\ UNCHANGED <<config, database, schema, todo, bound, cause, faults>>

connect_fails == step \in {"validated", "connected"} /\ fault /\ exit("database")

\* Mutant of pending: only the first migration is registered.
pending_users == {i \in {1} : Migrations[i].name \notin schema.recorded}

pending == {i \in 1 .. Len(Migrations) : Migrations[i].name \notin schema.recorded}

First(set) == CHOOSE i \in set : \A j \in set : i <= j

begin_migration ==
  /\ step = "connected" /\ todo = <<>> /\ pending # {}
  /\ todo' = Append(Migrations[First(pending)].statements, "record")
  /\ work' = schema
  /\ UNCHANGED <<step, config, database, schema, bound, cause, faults>>

\* Whether a migration and its record are one transaction.
Transactional == database = "postgres"

\* Without a transaction every statement is durable at once.
apply(result) ==
  /\ work' = result
  /\ schema' = IF Transactional /\ Len(todo) > 1 THEN schema ELSE result
  /\ todo' = Tail(todo)
  /\ UNCHANGED <<step, config, database, bound, cause, faults>>

create_table ==
  /\ step = "connected" /\ todo # <<>> /\ Head(todo) \in DOMAIN Table
  /\ apply([work EXCEPT !.tables = @ \cup {Table[Head(todo)]}])

insert_conflicts == work.seeded > 0

\* The default clients; their ids are unique.
insert_clients ==
  /\ step = "connected" /\ todo # <<>> /\ Head(todo) = "insert"
  /\ \/ ~ insert_conflicts /\ apply([work EXCEPT !.seeded = @ + 1])
     \/ insert_conflicts /\ exit("database") /\ UNCHANGED faults

record ==
  /\ step = "connected" /\ todo # <<>> /\ Head(todo) = "record"
  /\ apply([work EXCEPT !.recorded = @ \cup {Migrations[First(pending)].name}])

connected ==
  /\ step = "connected" /\ todo = <<>> /\ pending = {}
  /\ step' = "migrated"
  /\ UNCHANGED <<config, database, schema, work, todo, bound, cause, faults>>
-----------------------------------------------------------------------------
(***************************************************************************)
(* Server::new, bind and serve.                                            *)
(***************************************************************************)
Backends == {"Classic", "Vatsim", "AsterV1"}

server_new ==
  LET accepts == /\ config.mailbox_capacity # 0 /\ config.listeners # <<>>
                 /\ config.wind_delta_interval_seconds # 0
                 /\ \A i \in 1 .. Len(config.listeners) : config.listeners[i].idle_timeout_seconds # 0
  IN  /\ step = "migrated"
      /\ IF accepts
         THEN step' = "built" /\ UNCHANGED <<config, database, schema, work, todo, bound, cause>>
         ELSE exit("server")
      /\ UNCHANGED faults

bind ==
  /\ step = "built" /\ bound < Len(config.listeners)
  /\ IF config.listeners[bound + 1].protocol \in Backends
     THEN bound' = bound + 1 /\ UNCHANGED <<step, config, database, schema, work, todo, cause>>
     ELSE exit("backend")
  /\ UNCHANGED faults

bind_fails ==
  /\ step = "built" /\ bound < Len(config.listeners)
  /\ fault /\ exit("listener")

serve ==
  /\ step = "built" /\ bound = Len(config.listeners)
  /\ step' = "serving"
  /\ UNCHANGED <<config, database, schema, work, todo, bound, cause, faults>>

\* serve returned, or the process died: memory and open transactions are gone.
Down ==
  /\ step' = "down" /\ cause' = "none"
  /\ bound' = 0 /\ todo' = <<>> /\ work' = schema
  /\ UNCHANGED <<config, database, schema>>

stop == step = "serving" /\ Down /\ UNCHANGED faults
crash == step \in Running /\ fault /\ Down
restart == step = "exited" /\ Down /\ UNCHANGED faults

Progress ==
  \/ \E c \in Configs : load(c)
  \/ validate \/ connect \/ begin_migration \/ create_table \/ insert_clients \/ record \/ connected
  \/ server_new \/ bind \/ serve \/ restart

Next ==
  \/ Progress
  \/ load_fails \/ connect_fails \/ bind_fails \/ stop \/ crash

\* main never waits for anything but its own steps, and a service that exits is
\* started again by whoever operates it.
Spec == Init /\ [][Next]_vars /\ WF_vars(Progress)
-----------------------------------------------------------------------------
(***************************************************************************)
(* Properties.                                                             *)
(***************************************************************************)
\* Validation is the only judge of a configuration: what it accepts is refused neither
\* by Server::new nor for want of a backend, no codec of a connection is built with
\* the limit FsdFrameCodec::new refuses, and no two listeners want one address.
ValidatedIsAccepted ==
  /\ cause \notin {"server", "backend"}
  /\ step = "serving" =>
       /\ \A i \in 1 .. Len(config.listeners) : config.listeners[i].max_frame_bytes > 0
       /\ ~ duplicate_listener(config.listeners)

\* The server serves only when all of it is there: both tables, the default clients, and
\* every configured listener; also after a crash in the middle of a migration.
ServesComplete ==
  step = "serving" =>
    /\ schema.tables = {"users", "client_whitelist"} /\ schema.seeded = 1
    /\ \A i \in 1 .. Len(Migrations) : Migrations[i].name \in schema.recorded
    /\ bound = Len(config.listeners)

\* The default clients are there and their migration is not on record: with the unique
\* key, no later run of it can succeed.
HalfMigrated == schema.seeded = 1 /\ "create_client_whitelist" \notin schema.recorded

\* Once the faults are over the service comes up, whatever they interrupted, as long as it
\* is given sound configurations.  One interruption is not recovered from: on a database
\* without transactional migrations, a crash after the insert and before its record.
RestartsRecover ==
  \/ []<>(step = "serving")
  \/ []<>(ConfigErrors(config) # {})
  \/ ~ Transactional /\ <>[]HalfMigrated
=============================================================================
