----------------------------- MODULE Supervisor -----------------------------
(***************************************************************************)
(* Who owns which task: main, BoundServer::serve, the accept loops, their  *)
(* connection tasks, the writers and the maintenance task.                 *)
(*                                                                         *)
(* serve owns the accept loops through a JoinSet and each accept loop its  *)
(* connection tasks through another.  Dropping a JoinSet asks its tasks to *)
(* abort, and they stop at their next await without running the rest of    *)
(* their code.  A writer and the maintenance task are spawned by           *)
(* themselves: when the task that would join them goes away they run on,   *)
(* detached.  Cancelling the root token reaches every loop and task.       *)
(*                                                                         *)
(* What a connection task does in between is module Server's subject; here *)
(* it holds a session and a writer for a while and gives both back.        *)
(***************************************************************************)
EXTENDS FiniteSets

CONSTANTS
  AcceptLoops,  \* the configured listeners
  Connections,  \* connection tasks that may be spawned
  Home          \* the accept loop that accepts each connection

ASSUME SupervisorAssumption ==
  /\ AcceptLoops # {}
  /\ Home \in [Connections -> AcceptLoops]
  /\ AcceptLoops \cap Connections = {}

VARIABLES
  token,        \* the root cancellation token is cancelled
  listener,     \* the state of each accept loop
  task,         \* the state of each connection task
  writer,       \* the state of each writer task
  held,         \* connections whose session is in the network
  maintenance,  \* the wind-delta task
  aborting,     \* tasks asked to abort that have not stopped yet
  serve,        \* where BoundServer::serve is, or what it returned
  joined,       \* accept loops whose outcome serve has taken
  main          \* where main is

tasks == <<task, writer, held>>
vars == <<token, listener, tasks, maintenance, aborting, serve, joined, main>>

Of(l) == {c \in Connections : Home[c] = l}

Running(c) == task[c] = "running"

Looping(l) == listener[l] \in {"select", "draining"}

Init ==
  /\ token = FALSE
  /\ listener = [l \in AcceptLoops |-> "select"]
  /\ task = [c \in Connections |-> "none"]
  /\ writer = [c \in Connections |-> "none"]
  /\ held = {}
  /\ maintenance = "running"
  /\ aborting = {}
  /\ serve = "select"
  /\ joined = {}
  /\ main = "serving"
-----------------------------------------------------------------------------
(***************************************************************************)
(* accept_loop (listener.rs).                                              *)
(***************************************************************************)
Loop(l, from, to) == listener[l] = from /\ listener' = [listener EXCEPT ![l] = to]

\* Mutant of drop_connections: connections that never started are counted in.
drop_every_connection(l) == aborting' = (aborting \ {l}) \cup Of(l)

\* Dropping the loop's JoinSet aborts the connection tasks it still owns.
drop_connections(l) == aborting' = (aborting \ {l}) \cup {c \in Of(l) : Running(c)}

accept(l, c) ==
  /\ listener[l] = "select"
  /\ c \in Of(l) /\ task[c] = "none"
  /\ task' = [task EXCEPT ![c] = "running"]
  /\ UNCHANGED <<token, listener, writer, held, maintenance, aborting, serve, joined, main>>

accept_failed(l) ==
  /\ Loop(l, "select", "error")
  /\ drop_connections(l)
  /\ UNCHANGED <<token, tasks, maintenance, serve, joined, main>>

\* select! sees the token; every connection task has a child of it.
stop_accepting(l) ==
  /\ token
  /\ Loop(l, "select", "draining")
  /\ UNCHANGED <<token, tasks, maintenance, aborting, serve, joined, main>>

\* Mutant of loop_returned: the loop does not wait for its connections.
loop_returned_early(l) ==
  /\ Loop(l, "draining", "ok")
  /\ aborting' = aborting \ {l}
  /\ UNCHANGED <<token, tasks, maintenance, serve, joined, main>>

\* Every connection task of the loop is joined.
loop_returned(l) ==
  /\ \A c \in Of(l) : ~ Running(c)
  /\ Loop(l, "draining", "ok")
  /\ aborting' = aborting \ {l}
  /\ UNCHANGED <<token, tasks, maintenance, serve, joined, main>>

loop_panicked(l) ==
  /\ Looping(l)
  /\ listener' = [listener EXCEPT ![l] = "panicked"]
  /\ drop_connections(l)
  /\ UNCHANGED <<token, tasks, maintenance, serve, joined, main>>

loop_aborted(l) ==
  /\ l \in aborting /\ Looping(l)
  /\ listener' = [listener EXCEPT ![l] = "aborted"]
  /\ drop_connections(l)
  /\ UNCHANGED <<token, tasks, maintenance, serve, joined, main>>
-----------------------------------------------------------------------------
(***************************************************************************)
(* handle_connection (connection/mod.rs), as its owner sees it.            *)
(***************************************************************************)
register_connection(c) ==
  /\ Running(c) /\ c \notin held
  /\ held' = held \cup {c}
  /\ UNCHANGED <<token, listener, task, writer, maintenance, aborting, serve, joined, main>>

spawn_writer(c) ==
  /\ Running(c) /\ writer[c] = "none"
  /\ writer' = [writer EXCEPT ![c] = "running"]
  /\ UNCHANGED <<token, listener, task, held, maintenance, aborting, serve, joined, main>>

\* By the connection's own teardown, its logoff or another client's kill.
disconnect(c) ==
  /\ c \in held
  /\ held' = held \ {c}
  /\ UNCHANGED <<token, listener, task, writer, maintenance, aborting, serve, joined, main>>

writer_ended(c) ==
  /\ writer[c] = "running"
  /\ writer' = [writer EXCEPT ![c] = "done"]
  /\ UNCHANGED <<token, listener, task, held, maintenance, aborting, serve, joined, main>>

\* The task returns after its disconnect and after joining its writer.
connection_ended(c) ==
  /\ Running(c) /\ c \notin held /\ writer[c] # "running"
  /\ task' = [task EXCEPT ![c] = "ended"]
  /\ aborting' = aborting \ {c}
  /\ UNCHANGED <<token, listener, writer, held, maintenance, serve, joined, main>>

\* A panic ends the task where it is; the accept loop logs it and goes on.
connection_panicked(c) ==
  /\ Running(c)
  /\ task' = [task EXCEPT ![c] = "panicked"]
  /\ aborting' = aborting \ {c}
  /\ UNCHANGED <<token, listener, writer, held, maintenance, serve, joined, main>>

connection_aborted(c) ==
  /\ c \in aborting /\ Running(c)
  /\ task' = [task EXCEPT ![c] = "aborted"]
  /\ aborting' = aborting \ {c}
  /\ UNCHANGED <<token, listener, writer, held, maintenance, serve, joined, main>>
-----------------------------------------------------------------------------
(***************************************************************************)
(* run_maintenance (runtime.rs), BoundServer::serve (server.rs) and main.  *)
(***************************************************************************)
maintenance_stopped ==
  /\ token /\ maintenance = "running"
  /\ maintenance' = "ended"
  /\ UNCHANGED <<token, listener, tasks, aborting, serve, joined, main>>

maintenance_panicked ==
  /\ maintenance = "running"
  /\ maintenance' = "panicked"
  /\ UNCHANGED <<token, listener, tasks, aborting, serve, joined, main>>

Finished(l) == ~ Looping(l) /\ l \notin joined

\* An error return drops the JoinSet, and with it aborts the loops still in it.
return_error ==
  /\ serve' = "error"
  /\ aborting' = aborting \cup {l \in AcceptLoops : Looping(l)}
  /\ UNCHANGED token

\* Mutant of take_outcome: the first loop to fail is noticed, later ones are not.
take_first_outcome(l, at) ==
  /\ serve = at /\ Finished(l)
  /\ joined' = joined \cup {l}
  /\ \/ /\ listener[l] = "ok" \/ at = "draining"
        /\ serve' = "draining" /\ token' = TRUE /\ UNCHANGED aborting
     \/ /\ listener[l] # "ok" /\ at = "select"
        /\ return_error
  /\ UNCHANGED <<listener, tasks, maintenance, main>>

\* An aborted loop is no failure while the others are drained; before, any JoinError is one.
EndedWell(l, at) == listener[l] = "ok" \/ (listener[l] = "aborted" /\ at = "draining")

\* The outcome of an accept loop, in the first select or in the drain loop.
take_outcome(l, at) ==
  /\ serve = at /\ Finished(l)
  /\ joined' = joined \cup {l}
  /\ \/ /\ EndedWell(l, at)
        /\ serve' = "draining" /\ token' = TRUE /\ UNCHANGED aborting
     \/ /\ ~ EndedWell(l, at)
        /\ return_error
  /\ UNCHANGED <<listener, tasks, maintenance, main>>

serve_cancelled ==
  /\ serve = "select" /\ token
  /\ serve' = "draining"
  /\ UNCHANGED <<token, listener, tasks, maintenance, aborting, joined, main>>

\* All loops are joined; the maintenance task is awaited last.
join_maintenance ==
  /\ serve = "draining" /\ joined = AcceptLoops
  /\ maintenance # "running"
  /\ serve' = IF maintenance = "ended" THEN "ok" ELSE "error"
  /\ UNCHANGED <<token, listener, tasks, maintenance, aborting, joined, main>>

\* The signal task of main.
ctrl_c ==
  /\ main = "serving" /\ ~ token
  /\ token' = TRUE
  /\ UNCHANGED <<listener, tasks, maintenance, aborting, serve, joined, main>>

\* Mutant of main_cancels: main goes on without cancelling the token.
main_forgets_to_cancel ==
  /\ main = "serving" /\ serve \in {"ok", "error"}
  /\ main' = "leaving"
  /\ UNCHANGED <<token, listener, tasks, maintenance, aborting, serve, joined>>

main_cancels ==
  /\ main = "serving" /\ serve \in {"ok", "error"}
  /\ main' = "leaving" /\ token' = TRUE
  /\ UNCHANGED <<listener, tasks, maintenance, aborting, serve, joined>>

\* The runtime is dropped with main, and every task with it.
main_returns ==
  /\ main = "leaving"
  /\ main' = "returned"
  /\ listener' = [l \in AcceptLoops |-> IF Looping(l) THEN "aborted" ELSE listener[l]]
  /\ task' = [c \in Connections |-> IF Running(c) THEN "aborted" ELSE task[c]]
  /\ writer' = [c \in Connections |-> IF writer[c] = "running" THEN "done" ELSE writer[c]]
  /\ maintenance' = IF maintenance = "running" THEN "ended" ELSE maintenance
  /\ held' = {} /\ aborting' = {}
  /\ UNCHANGED <<token, serve, joined>>

exited == main = "returned" /\ UNCHANGED vars

LoopStep(l) ==
  \/ \E c \in Connections : accept(l, c)
  \/ accept_failed(l) \/ stop_accepting(l) \/ loop_returned(l)
  \/ loop_panicked(l) \/ loop_aborted(l)

ConnectionStep(c) ==
  \/ register_connection(c) \/ spawn_writer(c) \/ disconnect(c) \/ writer_ended(c)
  \/ connection_ended(c) \/ connection_panicked(c) \/ connection_aborted(c)

ServeStep ==
  \/ \E l \in AcceptLoops, at \in {"select", "draining"} : take_outcome(l, at)
  \/ serve_cancelled \/ join_maintenance

MainStep == ctrl_c \/ main_cancels \/ main_returns

Next ==
  \/ \E l \in AcceptLoops : LoopStep(l)
  \/ \E c \in Connections : ConnectionStep(c)
  \/ maintenance_stopped \/ maintenance_panicked
  \/ ServeStep \/ MainStep \/ exited

Supervision == Init /\ [][Next]_vars

(***************************************************************************)
(* Fairness.  A woken task is polled, and a task asked to abort is dropped *)
(* at its next await.  select! chooses among ready branches at random, so  *)
(* a cancelled token is not passed over for ever.  Nothing is assumed of a *)
(* connection task: its peer may hold it up.  main may take its time to    *)
(* return, so that nothing below rests on the end of the process.          *)
(***************************************************************************)
Fairness ==
  /\ \A l \in AcceptLoops :
       /\ SF_vars(stop_accepting(l))
       /\ WF_vars(loop_returned(l))
       /\ WF_vars(loop_aborted(l))
  /\ \A c \in Connections : WF_vars(connection_aborted(c))
  /\ SF_vars(maintenance_stopped)
  /\ WF_vars(ServeStep)
  /\ WF_vars(main_cancels)

Spec == Supervision /\ Fairness
-----------------------------------------------------------------------------
(***************************************************************************)
(* Properties.                                                             *)
(***************************************************************************)
\* Every variable keeps its type, and only running tasks are asked to abort.
TypeOK ==
  /\ token \in BOOLEAN
  /\ listener \in [AcceptLoops -> {"select", "draining", "ok", "error", "panicked", "aborted"}]
  /\ task \in [Connections -> {"none", "running", "ended", "panicked", "aborted"}]
  /\ writer \in [Connections -> {"none", "running", "done"}]
  /\ held \subseteq Connections
  /\ maintenance \in {"running", "ended", "panicked"}
  /\ aborting \subseteq {l \in AcceptLoops : Looping(l)} \cup {c \in Connections : Running(c)}
  /\ serve \in {"select", "draining", "ok", "error"}
  /\ joined \subseteq AcceptLoops
  /\ main \in {"serving", "leaving", "returned"}

\* A clean return is a clean server: when serve returns Ok every accept loop,
\* connection task and the maintenance task have ended, and only a connection
\* task that panicked can have left a session or a writer behind.
OkMeansEnded ==
  serve = "ok" =>
    /\ \A l \in AcceptLoops : listener[l] = "ok"
    /\ \A c \in Connections : ~ Running(c)
    /\ maintenance = "ended"
    /\ \A c \in Connections :
         c \in held \/ writer[c] = "running" => task[c] = "panicked"

\* A listener that fails is never lost on the operator: its error makes serve
\* return an error, also when it comes during a shutdown or while a connection of
\* another listener is stuck.
ListenerFailureSurfaces ==
  (\E l \in AcceptLoops : listener[l] \in {"error", "panicked"}) ~> (serve = "error")

\* After serve has returned an error, every accept loop, every connection task
\* and the maintenance task come to an end, though nothing joins them.
ErrorStopsEverything ==
  (serve = "error") ~>
     /\ \A l \in AcceptLoops : ~ Looping(l)
     /\ \A c \in Connections : ~ Running(c)
     /\ maintenance # "running"
=============================================================================
