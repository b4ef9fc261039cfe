---------------------------- MODULE StartupProofs ----------------------------
(***************************************************************************)
(* For every set of configurations, every database and every number of     *)
(* faults: a server that serves is complete, and a configuration that      *)
(* passed validation is refused by nothing after it.                       *)
(***************************************************************************)
EXTENDS Startup, SequenceTheorems, TLAPS

Names == {"create_users", "create_client_whitelist"}
Schema == [tables : SUBSET {"users", "client_whitelist"}, seeded : {0, 1}, recorded : SUBSET Names]

\* The migration under way is the first one that is not on record.
Current == First(pending)

\* What a migration leaves behind, statement by statement.
UsersDone(s) == "users" \in s.tables
WhitelistDone(s) == "client_whitelist" \in s.tables
ClientsDone(s) == s.seeded = 1

\* A migration on record was carried out in full.
RecordIsTrue(s) ==
  /\ "create_users" \in s.recorded => UsersDone(s)
  /\ "create_client_whitelist" \in s.recorded => WhitelistDone(s) /\ ClientsDone(s)

\* How far the migration under way is, and what it has done by then.
UsersUnderWay ==
  \/ todo = <<"create users", "record">>
  \/ todo = <<"record">> /\ UsersDone(work)
WhitelistUnderWay ==
  \/ todo = <<"create client_whitelist", "insert", "record">>
  \/ todo = <<"insert", "record">> /\ WhitelistDone(work)
  \/ todo = <<"record">> /\ WhitelistDone(work) /\ ClientsDone(work)

UnderWay ==
  /\ step = "connected" /\ pending # {}
  /\ Current = 1 => UsersUnderWay
  /\ Current = 2 => WhitelistUnderWay

\* The schema and what the migration under way sees of it.  Only a transaction sets the
\* two apart, and never in what is on record.
MigrationsSound ==
  /\ schema \in Schema /\ work \in Schema
  /\ RecordIsTrue(schema) /\ RecordIsTrue(work)
  /\ work.recorded = schema.recorded
  /\ todo # <<>> => UnderWay
  /\ step \in {"migrated", "built", "serving"} => pending = {}

\* Validation comes before everything that relies on it.
ConfigSound ==
  /\ step \in Running \cup {"down", "exited"}
  /\ config \in Configs
  /\ step \in Running \ {"loaded"} => is_valid(config)
  /\ cause \notin {"server", "backend"}

ListenersSound ==
  /\ bound \in Nat
  /\ step = "serving" => bound = Len(config.listeners)

StartupSound == ConfigSound /\ MigrationsSound /\ ListenersSound
-----------------------------------------------------------------------------
(***************************************************************************)
(* What validation promises about a configuration.                         *)
(***************************************************************************)
\* Every listener of a valid configuration has positive limits and a known dialect.
LEMMA ValidListeners ==
  ASSUME NEW c \in Configs, is_valid(c), NEW i \in 1 .. Len(c.listeners)
  PROVE  /\ c.listeners[i].max_frame_bytes > 0
         /\ c.listeners[i].idle_timeout_seconds # 0
         /\ c.listeners[i].protocol \in Backends
<1>1. c.listeners \in Seq(ListenerConfig)
  BY StartupAssumption
<1>2. c.listeners[i] \in ListenerConfig
  BY <1>1
<1>3. ListenerErrors(c.listeners[i]) = {}
  BY DEF is_valid, ConfigErrors
<1>4. "InvalidListenerLimit" \notin ListenerErrors(c.listeners[i])
  BY <1>3
<1>5. c.listeners[i].max_frame_bytes # 0 /\ c.listeners[i].idle_timeout_seconds # 0
  BY <1>4 DEF ListenerErrors
<1>6. /\ c.listeners[i].max_frame_bytes \in Nat
      /\ c.listeners[i].protocol \in ProtocolDialect
  <2>1. \A l \in ListenerConfig : l.max_frame_bytes \in Nat /\ l.protocol \in ProtocolDialect
    BY DEF ListenerConfig
  <2> QED
    BY <1>2, <2>1
<1> QED
  BY <1>5, <1>6 DEF ProtocolDialect, Backends

\* The rest of what Server::new and bind rely on.
LEMMA ValidServer ==
  ASSUME NEW c \in Configs, is_valid(c)
  PROVE  /\ c.mailbox_capacity # 0 /\ c.wind_delta_interval_seconds # 0
         /\ c.listeners # <<>> /\ ~ duplicate_listener(c.listeners)
<1>1. ServerErrors(c) = {}
  BY DEF is_valid, ConfigErrors
<1>2. /\ "InvalidServerLimit" \notin ServerErrors(c)
      /\ "NoListeners" \notin ServerErrors(c)
      /\ "DuplicateListener" \notin ServerErrors(c)
  BY <1>1
<1>3. 0 \notin {c.max_clients, c.mailbox_capacity, c.wind_delta_interval_seconds}
  BY <1>2 DEF ServerErrors
<1>4. c.listeners # <<>>
  BY <1>2, Zenon DEF ServerErrors
<1>5. ~ duplicate_listener(c.listeners)
  BY <1>2, Zenon DEF ServerErrors
<1> QED
  BY <1>3, <1>4, <1>5
-----------------------------------------------------------------------------
(***************************************************************************)
(* The migrations.                                                         *)
(***************************************************************************)
\* There are two of them, and the one under way is not on record.
LEMMA CurrentIsPending ==
  ASSUME pending # {}
  PROVE  /\ Current \in {1, 2}
         /\ Current = 1 => Migrations[Current].name = "create_users"
         /\ Current = 2 => Migrations[Current].name = "create_client_whitelist"
<1>1. pending \subseteq {1, 2}
  <2>1. Len(Migrations) = 2
    BY DEF Migrations
  <2> QED
    BY <2>1 DEF pending
<1>2. \E i \in pending : \A j \in pending : i <= j
  <2>1. CASE 1 \in pending
    BY <1>1, <2>1
  <2>2. CASE 1 \notin pending
    <3>1. \A j \in pending : j = 2
      BY <1>1, <2>2
    <3> QED
      BY <3>1
  <2> QED
    BY <2>1, <2>2
<1>3. Current \in pending
  BY <1>2 DEF Current, First
<1>4. Current \in {1, 2}
  BY <1>1, <1>3
<1>5. Migrations[1].name = "create_users" /\ Migrations[2].name = "create_client_whitelist"
  BY DEF Migrations
<1> QED
  BY <1>4, <1>5

\* What is pending depends only on what is on record.
LEMMA PendingUnchanged ==
  ASSUME schema'.recorded = schema.recorded
  PROVE  pending' = pending /\ Current' = Current
<1>1. pending' = pending
  BY DEF pending
<1> QED
  BY <1>1 DEF Current, First
-----------------------------------------------------------------------------
(***************************************************************************)
(* The steps, grouped by what they do to the three parts of StartupSound.  *)
(***************************************************************************)
\* Dropping what main held leaves only the schema, which is sound by itself.
LEMMA ResetSound ==
  ASSUME StartupSound, step' \in {"exited", "down"},
         bound' = 0, todo' = <<>>, work' = schema, UNCHANGED <<config, schema>>,
         cause' \notin {"server", "backend"}
  PROVE  StartupSound'
<1>1. ConfigSound'
  BY DEF StartupSound, ConfigSound, Running
<1>2. MigrationsSound'
  BY DEF StartupSound, MigrationsSound, RecordIsTrue, UsersDone, WhitelistDone, ClientsDone
<1>3. ListenersSound'
  BY DEF ListenersSound
<1> QED
  BY <1>1, <1>2, <1>3 DEF StartupSound

\* Steps that end main or restart it.
LEMMA EndStep ==
  ASSUME StartupSound,
         \/ load_fails \/ connect_fails \/ bind_fails \/ stop \/ crash \/ restart
         \/ (~ is_valid(config) /\ exit("config"))
  PROVE  StartupSound'
<1>1. \/ \E why \in {"file", "database", "listener", "config"} : exit(why)
      \/ Down
  BY DEF load_fails, connect_fails, bind_fails, stop, crash, restart
<1>2. ASSUME NEW why \in {"file", "database", "listener", "config"}, exit(why) PROVE StartupSound'
  BY <1>2, ResetSound DEF exit
<1>3. CASE Down
  BY <1>3, ResetSound DEF Down
<1> QED
  BY <1>1, <1>2, <1>3

\* Reading and judging the configuration touches nothing else.
LEMMA ConfigStep ==
  ASSUME StartupSound, (\E c \in Configs : load(c)) \/ validate
  PROVE  StartupSound'
<1>1. CASE validate /\ exit("config")
  BY <1>1, EndStep DEF validate, exit
<1>2. ASSUME NEW c \in Configs, load(c) PROVE StartupSound'
  <2>1. ConfigSound'
    BY <1>2 DEF load, StartupSound, ConfigSound, Running
  <2>2. MigrationsSound'
    BY <1>2, PendingUnchanged DEF load, StartupSound, MigrationsSound, RecordIsTrue, UsersDone,
       WhitelistDone, ClientsDone, UnderWay
  <2>3. ListenersSound'
    BY <1>2 DEF load, StartupSound, ListenersSound
  <2> QED
    BY <2>1, <2>2, <2>3 DEF StartupSound
<1>3. CASE validate /\ step' = "validated"
  <2>0. is_valid(config) /\ step = "loaded" /\ UNCHANGED <<config, schema, work, todo, bound, cause>>
    BY <1>3 DEF validate, exit
  <2>1. ConfigSound'
    BY <1>3, <2>0 DEF StartupSound, ConfigSound, Running, is_valid
  <2>2. MigrationsSound'
    BY <1>3, <2>0, PendingUnchanged DEF StartupSound, MigrationsSound, RecordIsTrue, UsersDone,
       WhitelistDone, ClientsDone, UnderWay
  <2>3. ListenersSound'
    BY <1>3, <2>0 DEF StartupSound, ListenersSound
  <2> QED
    BY <2>1, <2>2, <2>3 DEF StartupSound
<1> QED
  BY <1>1, <1>2, <1>3 DEF validate
-----------------------------------------------------------------------------
\* connect begins with nothing under way, and leaves only when nothing is pending.
LEMMA ConnectStep ==
  ASSUME StartupSound, connect \/ connected
  PROVE  StartupSound'
<1>0. /\ step \in {"validated", "connected"} /\ step' \in {"connected", "migrated"}
      /\ step' = "migrated" => pending = {}
      /\ todo = <<>> \/ step = "validated"
      /\ work' \in {schema, work} /\ UNCHANGED <<config, schema, todo, bound, cause>>
  BY DEF connect, connected
<1>1. todo = <<>>
  BY <1>0 DEF StartupSound, MigrationsSound, UnderWay
<1>2. ConfigSound'
  BY <1>0 DEF StartupSound, ConfigSound, Running, is_valid
<1>3. pending' = pending
  BY <1>0, PendingUnchanged
<1>4. MigrationsSound'
  BY <1>0, <1>1, <1>3 DEF StartupSound, MigrationsSound, RecordIsTrue, UsersDone,
     WhitelistDone, ClientsDone
<1>5. ListenersSound'
  BY <1>0 DEF StartupSound, ListenersSound
<1> QED
  BY <1>2, <1>4, <1>5 DEF StartupSound

\* Appending to a list of one and of two statements.
LEMMA AppendToOne ==
  ASSUME NEW a, NEW b
  PROVE  Append(<<a>>, b) = <<a, b>>
<1>1. <<a>> \in Seq({a, b}) /\ <<a, b>> \in Seq({a, b}) /\ Len(<<a>>) = 1 /\ Len(<<a, b>>) = 2
  OBVIOUS
<1>2. /\ Append(<<a>>, b) \in Seq({a, b}) /\ Len(Append(<<a>>, b)) = 2
      /\ Append(<<a>>, b)[1] = a /\ Append(<<a>>, b)[2] = b
  BY <1>1, AppendProperties
<1>3. \A i \in 1 .. 2 : Append(<<a>>, b)[i] = <<a, b>>[i]
  BY <1>2
<1> QED
  BY <1>1, <1>2, <1>3, SeqEqual

LEMMA AppendToTwo ==
  ASSUME NEW a, NEW b, NEW c
  PROVE  Append(<<a, b>>, c) = <<a, b, c>>
<1>1. /\ <<a, b>> \in Seq({a, b, c}) /\ <<a, b, c>> \in Seq({a, b, c})
      /\ Len(<<a, b>>) = 2 /\ Len(<<a, b, c>>) = 3
  OBVIOUS
<1>2. /\ Append(<<a, b>>, c) \in Seq({a, b, c}) /\ Len(Append(<<a, b>>, c)) = 3
      /\ Append(<<a, b>>, c)[1] = a /\ Append(<<a, b>>, c)[2] = b /\ Append(<<a, b>>, c)[3] = c
  BY <1>1, AppendProperties
<1>3. \A i \in 1 .. 3 : Append(<<a, b>>, c)[i] = <<a, b, c>>[i]
  BY <1>2
<1> QED
  BY <1>1, <1>2, <1>3, SeqEqual

\* The statements of the two migrations, as they are worked off.
LEMMA Statements ==
  /\ Append(Migrations[1].statements, "record") = <<"create users", "record">>
  /\ Append(Migrations[2].statements, "record") = <<"create client_whitelist", "insert", "record">>
  /\ Head(<<"create users", "record">>) = "create users"
  /\ Tail(<<"create users", "record">>) = <<"record">>
  /\ Head(<<"create client_whitelist", "insert", "record">>) = "create client_whitelist"
  /\ Tail(<<"create client_whitelist", "insert", "record">>) = <<"insert", "record">>
  /\ Head(<<"insert", "record">>) = "insert"
  /\ Tail(<<"insert", "record">>) = <<"record">>
  /\ Head(<<"record">>) = "record" /\ Tail(<<"record">>) = <<>> /\ Len(<<"record">>) = 1
<1>1. Migrations[1].statements = <<"create users">>
  BY DEF Migrations
<1>2. Migrations[2].statements = <<"create client_whitelist", "insert">>
  BY DEF Migrations
<1>3. Append(<<"create users">>, "record") = <<"create users", "record">>
  BY AppendToOne
<1>4. Append(<<"create client_whitelist", "insert">>, "record")
        = <<"create client_whitelist", "insert", "record">>
  BY AppendToTwo
<1>5. /\ Head(<<"create users", "record">>) = "create users"
      /\ Head(<<"create client_whitelist", "insert", "record">>) = "create client_whitelist"
      /\ Head(<<"insert", "record">>) = "insert"
      /\ Head(<<"record">>) = "record" /\ Len(<<"record">>) = 1
  OBVIOUS
<1>6. Tail(<<"create users", "record">>) = <<"record">>
  OBVIOUS
<1>7. Tail(<<"create client_whitelist", "insert", "record">>) = <<"insert", "record">>
  OBVIOUS
<1>8. Tail(<<"insert", "record">>) = <<"record">>
  OBVIOUS
<1>9. Tail(<<"record">>) = <<>>
  OBVIOUS
<1> QED
  BY <1>1, <1>2, <1>3, <1>4, <1>5, <1>6, <1>7, <1>8, <1>9, Zenon

LEMMA BeginStep ==
  ASSUME StartupSound, begin_migration
  PROVE  StartupSound'
<1>0. /\ step = "connected" /\ pending # {} /\ work' = schema
      /\ todo' = Append(Migrations[Current].statements, "record")
      /\ UNCHANGED <<step, config, schema, bound, cause>>
  BY DEF begin_migration, Current
<1>1. /\ pending' = pending /\ Current' = Current /\ Current \in {1, 2}
  BY <1>0, PendingUnchanged, CurrentIsPending
<1>2. Current = 1 => todo' = <<"create users", "record">>
  BY <1>0, Statements, Zenon
<1>3. Current = 2 => todo' = <<"create client_whitelist", "insert", "record">>
  BY <1>0, Statements, Zenon
<1>4. UnderWay'
  BY <1>0, <1>1, <1>2, <1>3 DEF UnderWay, UsersUnderWay, WhitelistUnderWay
<1>5. MigrationsSound'
  BY <1>0, <1>1, <1>4 DEF StartupSound, MigrationsSound, RecordIsTrue, UsersDone,
     WhitelistDone, ClientsDone
<1>6. ConfigSound'
  BY <1>0 DEF StartupSound, ConfigSound, Running, is_valid
<1>7. ListenersSound'
  BY <1>0 DEF StartupSound, ListenersSound
<1> QED
  BY <1>5, <1>6, <1>7 DEF StartupSound

\* A statement that is not the record: the schema may or may not have it yet, and what is
\* on record stays as it is.
LEMMA StatementStep ==
  ASSUME StartupSound, step = "connected", todo # <<>>, NEW result \in Schema, apply(result),
         RecordIsTrue(result), result.recorded = work.recorded,
         todo' # <<>> => (Current = 1 => UsersUnderWay') /\ (Current = 2 => WhitelistUnderWay')
  PROVE  StartupSound'
<1>0. /\ work' = result /\ schema' \in {schema, result}
      /\ UNCHANGED <<step, config, bound, cause>>
  BY DEF apply
<1>1. work'.recorded = schema'.recorded /\ schema'.recorded = schema.recorded
  BY <1>0 DEF StartupSound, MigrationsSound
<1>2. pending' = pending /\ Current' = Current /\ pending # {}
  BY <1>1, PendingUnchanged DEF StartupSound, MigrationsSound, UnderWay
<1>3. todo' # <<>> => UnderWay'
  BY <1>0, <1>2 DEF UnderWay
<1>4. MigrationsSound'
  BY <1>0, <1>1, <1>2, <1>3 DEF StartupSound, MigrationsSound, RecordIsTrue, UsersDone,
     WhitelistDone, ClientsDone
<1>5. ConfigSound'
  BY <1>0 DEF StartupSound, ConfigSound, Running, is_valid
<1>6. ListenersSound'
  BY <1>0 DEF StartupSound, ListenersSound
<1> QED
  BY <1>4, <1>5, <1>6 DEF StartupSound

LEMMA CreateStep ==
  ASSUME StartupSound, create_table
  PROVE  StartupSound'
<1> DEFINE result == [work EXCEPT !.tables = @ \cup {Table[Head(todo)]}]
<1>0. /\ step = "connected" /\ todo # <<>> /\ apply(result) /\ todo' = Tail(todo) /\ work' = result
      /\ Head(todo) \in {"create users", "create client_whitelist"}
  BY DEF create_table, apply, Table
<1>1. work \in Schema /\ RecordIsTrue(work) /\ UnderWay /\ Current \in {1, 2}
  BY <1>0, CurrentIsPending DEF StartupSound, MigrationsSound, UnderWay
<1>2. /\ Current = 1 => todo = <<"create users", "record">>
      /\ Current = 2 => todo = <<"create client_whitelist", "insert", "record">>
  BY <1>0, <1>1, Statements, Zenon DEF UnderWay, UsersUnderWay, WhitelistUnderWay
<1>3. /\ Current = 1 => Table[Head(todo)] = "users"
      /\ Current = 2 => Table[Head(todo)] = "client_whitelist"
  <2>1. Table["create users"] = "users" /\ Table["create client_whitelist"] = "client_whitelist"
    BY DEF Table
  <2> QED
    BY <1>2, <2>1, Statements, Zenon
<1>4. result \in Schema
  BY <1>1, <1>3 DEF Schema
<1>5. /\ result.tables = work.tables \cup {Table[Head(todo)]}
      /\ result.seeded = work.seeded /\ result.recorded = work.recorded
  BY <1>1 DEF Schema
<1>6. RecordIsTrue(result)
  BY <1>1, <1>5 DEF RecordIsTrue, UsersDone, WhitelistDone, ClientsDone
<1>7. /\ Current = 1 => todo' = <<"record">>
      /\ Current = 2 => todo' = <<"insert", "record">>
  BY <1>0, <1>2, Statements, Zenon
<1>8. /\ Current = 1 => UsersUnderWay'
      /\ Current = 2 => WhitelistUnderWay'
  BY <1>0, <1>3, <1>5, <1>7 DEF UsersUnderWay, WhitelistUnderWay, UsersDone, WhitelistDone
<1> HIDE DEF result
<1> QED
  BY <1>0, <1>4, <1>5, <1>6, <1>8, StatementStep

LEMMA InsertStep ==
  ASSUME StartupSound, insert_clients
  PROVE  StartupSound'
<1>1. CASE insert_conflicts /\ exit("database")
  BY <1>1, ResetSound DEF exit
<1>2. CASE ~ insert_conflicts /\ apply([work EXCEPT !.seeded = @ + 1])
  <2> DEFINE result == [work EXCEPT !.seeded = @ + 1]
  <2>0. /\ step = "connected" /\ todo # <<>> /\ apply(result) /\ todo' = Tail(todo) /\ work' = result
        /\ Head(todo) = "insert" /\ ~ (work.seeded > 0)
    BY <1>2 DEF insert_clients, apply, insert_conflicts
  <2>1. work \in Schema /\ RecordIsTrue(work) /\ UnderWay /\ Current \in {1, 2}
    BY <2>0, CurrentIsPending DEF StartupSound, MigrationsSound, UnderWay
  <2>2. Current = 2 /\ todo = <<"insert", "record">> /\ WhitelistDone(work)
    BY <2>0, <2>1, Statements, Zenon DEF UnderWay, UsersUnderWay, WhitelistUnderWay
  <2>3. work.seeded = 0
    BY <2>0, <2>1 DEF Schema
  <2>4. result \in Schema
    BY <2>1, <2>3 DEF Schema
  <2>5. result.tables = work.tables /\ result.seeded = 1 /\ result.recorded = work.recorded
    BY <2>1, <2>3 DEF Schema
  <2>6. RecordIsTrue(result)
    BY <2>1, <2>5 DEF RecordIsTrue, UsersDone, WhitelistDone, ClientsDone
  <2>7. todo' = <<"record">>
    BY <2>0, <2>2, Statements, Zenon
  <2>8. WhitelistUnderWay'
    BY <2>0, <2>2, <2>5, <2>7 DEF WhitelistUnderWay, WhitelistDone, ClientsDone
  <2> HIDE DEF result
  <2> QED
    BY <2>0, <2>2, <2>4, <2>5, <2>6, <2>8, StatementStep
<1> QED
  BY <1>1, <1>2 DEF insert_clients

\* The record is the last statement: with or without a transaction it is durable, and the
\* migration it speaks of has been carried out.
LEMMA RecordStep ==
  ASSUME StartupSound, record
  PROVE  StartupSound'
<1> DEFINE result == [work EXCEPT !.recorded = @ \cup {Migrations[Current].name}]
<1>0. /\ step = "connected" /\ todo # <<>> /\ Head(todo) = "record" /\ apply(result)
  BY DEF record, Current
<1>1. /\ work \in Schema /\ RecordIsTrue(work) /\ UnderWay /\ Current \in {1, 2}
      /\ Current = 1 => Migrations[Current].name = "create_users"
      /\ Current = 2 => Migrations[Current].name = "create_client_whitelist"
  BY <1>0, CurrentIsPending DEF StartupSound, MigrationsSound, UnderWay
<1>2. /\ todo = <<"record">>
      /\ Current = 1 => UsersDone(work)
      /\ Current = 2 => WhitelistDone(work) /\ ClientsDone(work)
  BY <1>0, <1>1, Statements, Zenon DEF UnderWay, UsersUnderWay, WhitelistUnderWay
<1>3. result \in Schema
  BY <1>1 DEF Schema, Names
<1>4. /\ result.tables = work.tables /\ result.seeded = work.seeded
      /\ result.recorded = work.recorded \cup {Migrations[Current].name}
  BY <1>1 DEF Schema
<1>5. RecordIsTrue(result)
  BY <1>1, <1>2, <1>4 DEF RecordIsTrue, UsersDone, WhitelistDone, ClientsDone
<1>6. Len(todo) = 1 /\ Tail(todo) = <<>>
  BY <1>2, Statements, Zenon
<1> HIDE DEF result
<1>7. /\ work' = result /\ schema' = result /\ todo' = <<>>
      /\ UNCHANGED <<step, config, bound, cause>>
  BY <1>0, <1>6 DEF apply
<1>8. MigrationsSound'
  BY <1>0, <1>3, <1>5, <1>7 DEF MigrationsSound, RecordIsTrue, UsersDone, WhitelistDone, ClientsDone
<1>9. ConfigSound'
  BY <1>7 DEF StartupSound, ConfigSound, Running, is_valid
<1>10. ListenersSound'
  BY <1>7 DEF StartupSound, ListenersSound
<1> QED
  BY <1>8, <1>9, <1>10 DEF StartupSound
-----------------------------------------------------------------------------
\* Server::new and bind accept what validation accepted.
LEMMA ServerStep ==
  ASSUME StartupSound, server_new \/ bind \/ serve
  PROVE  StartupSound'
<1>1. step \in {"migrated", "built"}
  BY DEF server_new, bind, serve
<1>2. is_valid(config) /\ config \in Configs /\ pending = {} /\ todo = <<>> /\ bound \in Nat
  BY <1>1 DEF StartupSound, ConfigSound, MigrationsSound, ListenersSound, UnderWay, Running
<1>3. /\ config.mailbox_capacity # 0 /\ config.wind_delta_interval_seconds # 0
      /\ config.listeners # <<>>
      /\ \A i \in 1 .. Len(config.listeners) :
           config.listeners[i].idle_timeout_seconds # 0 /\ config.listeners[i].protocol \in Backends
  BY <1>2, ValidServer, ValidListeners
<1>4. config.listeners \in Seq(ListenerConfig)
  BY <1>2, StartupAssumption
<1>5. /\ step' \in {"built", "serving"} /\ bound' \in Nat
      /\ step' = "serving" => bound' = Len(config.listeners)
      /\ UNCHANGED <<config, schema, work, todo, cause>>
  <2>1. CASE server_new
    BY <1>2, <1>3, <2>1 DEF server_new
  <2>2. CASE bind
    <3>1. bound < Len(config.listeners) => bound + 1 \in 1 .. Len(config.listeners)
      BY <1>2, <1>4
    <3>2. config.listeners[bound + 1].protocol \in Backends
      BY <1>3, <2>2, <3>1 DEF bind
    <3> QED
      BY <1>2, <2>2, <3>2 DEF bind
  <2>3. CASE serve
    BY <1>2, <2>3 DEF serve
  <2> QED
    BY <2>1, <2>2, <2>3
<1>6. ConfigSound'
  BY <1>2, <1>5 DEF StartupSound, ConfigSound, Running, is_valid
<1>7. pending' = {}
  BY <1>2, <1>5, PendingUnchanged
<1>8. MigrationsSound'
  BY <1>2, <1>5, <1>7 DEF StartupSound, MigrationsSound, RecordIsTrue, UsersDone, WhitelistDone,
     ClientsDone
<1>9. ListenersSound'
  BY <1>5 DEF ListenersSound
<1> QED
  BY <1>6, <1>8, <1>9 DEF StartupSound
-----------------------------------------------------------------------------
(***************************************************************************)
(* Theorems.                                                               *)
(***************************************************************************)
\* StartupSound is inductive: no order of steps, faults and restarts of main leaves it.
THEOREM StartupHolds == Spec => []StartupSound
<1>1. Init => StartupSound
  <2> SUFFICES ASSUME Init PROVE StartupSound
    OBVIOUS
  <2>1. ConfigSound
    BY StartupAssumption DEF Init, ConfigSound, Running
  <2>2. MigrationsSound
    BY DEF Init, MigrationsSound, Schema, Names, RecordIsTrue
  <2>3. ListenersSound
    BY DEF Init, ListenersSound
  <2> QED
    BY <2>1, <2>2, <2>3 DEF StartupSound
<1>2. StartupSound /\ [Next]_vars => StartupSound'
  <2> SUFFICES ASSUME StartupSound, [Next]_vars PROVE StartupSound'
    OBVIOUS
  <2>1. CASE (\E c \in Configs : load(c)) \/ validate
    BY <2>1, ConfigStep
  <2>2. CASE connect \/ connected
    BY <2>2, ConnectStep
  <2>3. CASE begin_migration
    BY <2>3, BeginStep
  <2>4. CASE create_table
    BY <2>4, CreateStep
  <2>5. CASE insert_clients
    BY <2>5, InsertStep
  <2>6. CASE record
    BY <2>6, RecordStep
  <2>7. CASE server_new \/ bind \/ serve
    BY <2>7, ServerStep
  <2>8. CASE load_fails \/ connect_fails \/ bind_fails \/ stop \/ crash \/ restart
    BY <2>8, EndStep
  <2>9. CASE UNCHANGED vars
    BY <2>9 DEF vars, StartupSound, ConfigSound, MigrationsSound, ListenersSound, RecordIsTrue,
       UsersDone, WhitelistDone, ClientsDone, UnderWay, UsersUnderWay, WhitelistUnderWay, Current,
       First, pending, is_valid
  <2> QED
    BY <2>1, <2>2, <2>3, <2>4, <2>5, <2>6, <2>7, <2>8, <2>9 DEF Next, Progress
<1> QED
  BY <1>1, <1>2, PTL DEF Spec

\* Config::validate is the only judge of a configuration, for every set of configurations:
\* Server::new and bind refuse nothing it let through, and the server serves with limits
\* every codec accepts and with no address wanted twice.
THEOREM ValidationSuffices == Spec => []ValidatedIsAccepted
<1>1. StartupSound => ValidatedIsAccepted
  <2> SUFFICES ASSUME StartupSound PROVE ValidatedIsAccepted
    OBVIOUS
  <2>1. cause \notin {"server", "backend"}
    BY DEF StartupSound, ConfigSound
  <2>2. step = "serving" => is_valid(config) /\ config \in Configs
    BY DEF StartupSound, ConfigSound, Running
  <2> QED
    BY <2>1, <2>2, ValidServer, ValidListeners DEF ValidatedIsAccepted
<1> QED
  BY <1>1, StartupHolds, PTL

\* A server that serves has both tables, the default clients once, both migrations on record
\* and every listener bound, whatever crashed before and however often main ran.
THEOREM ServingIsComplete == Spec => []ServesComplete
<1>1. StartupSound => ServesComplete
  <2> SUFFICES ASSUME StartupSound, step = "serving"
               PROVE  /\ schema.tables = {"users", "client_whitelist"} /\ schema.seeded = 1
                      /\ \A i \in 1 .. Len(Migrations) : Migrations[i].name \in schema.recorded
                      /\ bound = Len(config.listeners)
    BY DEF ServesComplete
  <2>1. /\ pending = {} /\ schema \in Schema /\ RecordIsTrue(schema)
        /\ bound = Len(config.listeners)
    BY DEF StartupSound, MigrationsSound, ListenersSound
  <2>2. \A i \in 1 .. Len(Migrations) : Migrations[i].name \in schema.recorded
    BY <2>1 DEF pending
  <2>3. "create_users" \in schema.recorded /\ "create_client_whitelist" \in schema.recorded
    <3>1. /\ Len(Migrations) = 2 /\ Migrations[1].name = "create_users"
          /\ Migrations[2].name = "create_client_whitelist"
      BY DEF Migrations
    <3>2. 1 \in 1 .. Len(Migrations) /\ 2 \in 1 .. Len(Migrations)
      BY <3>1
    <3> QED
      BY <2>2, <3>1, <3>2, Zenon
  <2>4. schema.tables \subseteq {"users", "client_whitelist"}
    BY <2>1 DEF Schema
  <2>5. /\ "users" \in schema.tables /\ "client_whitelist" \in schema.tables /\ schema.seeded = 1
    BY <2>1, <2>3 DEF RecordIsTrue, UsersDone, WhitelistDone, ClientsDone
  <2> QED
    BY <2>1, <2>2, <2>4, <2>5
<1> QED
  BY <1>1, StartupHolds, PTL
=============================================================================
