-------------------------- MODULE SupervisorProofs --------------------------
(***************************************************************************)
(* Theorems about task ownership, for every set of listeners and           *)
(* connections.  Fairness plays no part in them.                           *)
(***************************************************************************)
EXTENDS Supervisor, TLAPS

\* The terminal states of an accept loop that dropped its JoinSet.
Dropped == {"error", "panicked", "aborted"}

\* While serve has not failed no accept loop is asked to abort or was aborted.
LoopsUndisturbed ==
  serve # "error" => \A l \in AcceptLoops : listener[l] # "aborted" /\ l \notin aborting

\* A joined loop has ended, and cleanly unless serve returned an error.
JoinedEnded ==
  \A l \in joined : ~ Looping(l) /\ (serve # "error" => listener[l] = "ok")

\* A loop that returned Ok has joined every connection task it owned.
OkLoopsAreEmpty ==
  \A c \in Connections : listener[Home[c]] = "ok" => ~ Running(c)

\* Only a task that runs, panicked or was aborted holds a session or a writer.
EndedHoldNothing ==
  \A c \in Connections :
    /\ task[c] = "none" => c \notin held /\ writer[c] = "none"
    /\ task[c] = "ended" => c \notin held /\ writer[c] # "running"

\* A connection task is aborted only after its accept loop dropped its JoinSet.
AbortsFollowDrops ==
  \A c \in Connections :
    task[c] = "aborted" \/ c \in aborting => listener[Home[c]] \in Dropped

\* Ok is returned only when everything is joined; main leaves only after serve.
ServeReturned ==
  /\ serve = "ok" => joined = AcceptLoops /\ maintenance = "ended"
  /\ main # "serving" => serve \in {"ok", "error"}

\* The inductive invariant.
Owned ==
  /\ TypeOK
  /\ LoopsUndisturbed
  /\ JoinedEnded
  /\ OkLoopsAreEmpty
  /\ EndedHoldNothing
  /\ AbortsFollowDrops
  /\ ServeReturned

-----------------------------------------------------------------------------

\* The steps of an accept loop.
LEMMA LoopStepOwned ==
  ASSUME Owned, NEW l \in AcceptLoops, LoopStep(l)
  PROVE  Owned'
  <1> USE SupervisorAssumption DEF Owned, TypeOK, LoopsUndisturbed, JoinedEnded, OkLoopsAreEmpty,
        EndedHoldNothing, AbortsFollowDrops, ServeReturned, Looping, Running, Dropped
  <1>1. ASSUME NEW c \in Connections, accept(l, c)
        PROVE  Owned'
    BY <1>1 DEF accept, Of
  <1>2. CASE accept_failed(l)
    BY <1>2 DEF accept_failed, Loop, drop_connections, tasks, Of
  <1>3. CASE stop_accepting(l)
    BY <1>3 DEF stop_accepting, Loop, tasks
  <1>4. CASE loop_returned(l)
    BY <1>4 DEF loop_returned, Loop, tasks, Of
  <1>5. CASE loop_panicked(l)
    BY <1>5 DEF loop_panicked, drop_connections, tasks, Of
  <1>6. CASE loop_aborted(l)
    BY <1>6 DEF loop_aborted, drop_connections, tasks, Of
  <1> QED BY <1>1, <1>2, <1>3, <1>4, <1>5, <1>6 DEF LoopStep

\* The steps of a connection task and its writer.
LEMMA ConnectionStepOwned ==
  ASSUME Owned, NEW c \in Connections, ConnectionStep(c)
  PROVE  Owned'
  <1> USE SupervisorAssumption DEF Owned, TypeOK, LoopsUndisturbed, JoinedEnded, OkLoopsAreEmpty,
        EndedHoldNothing, AbortsFollowDrops, ServeReturned, Looping, Running, Dropped
  <1>1. CASE register_connection(c)
    BY <1>1 DEF register_connection
  <1>2. CASE spawn_writer(c)
    BY <1>2 DEF spawn_writer
  <1>3. CASE disconnect(c)
    BY <1>3 DEF disconnect
  <1>4. CASE writer_ended(c)
    BY <1>4 DEF writer_ended
  <1>5. CASE connection_ended(c)
    BY <1>5 DEF connection_ended
  <1>6. CASE connection_panicked(c)
    BY <1>6 DEF connection_panicked
  <1>7. CASE connection_aborted(c)
    BY <1>7 DEF connection_aborted
  <1> QED BY <1>1, <1>2, <1>3, <1>4, <1>5, <1>6, <1>7 DEF ConnectionStep

\* The steps of serve.
LEMMA ServeStepOwned ==
  ASSUME Owned, ServeStep
  PROVE  Owned'
  <1> USE SupervisorAssumption DEF Owned, TypeOK, LoopsUndisturbed, JoinedEnded, OkLoopsAreEmpty,
        EndedHoldNothing, AbortsFollowDrops, ServeReturned, Looping, Running, Dropped
  <1>1. ASSUME NEW l \in AcceptLoops, NEW at \in {"select", "draining"}, take_outcome(l, at)
        PROVE  Owned'
    BY <1>1, ZenonT(60) DEF take_outcome, EndedWell, Finished, return_error, tasks
  <1>2. CASE serve_cancelled
    BY <1>2 DEF serve_cancelled, tasks
  <1>3. CASE join_maintenance
    BY <1>3 DEF join_maintenance, tasks
  <1> QED BY <1>1, <1>2, <1>3 DEF ServeStep

\* The steps of main and of the maintenance task.
LEMMA MainStepOwned ==
  ASSUME Owned, MainStep \/ maintenance_stopped \/ maintenance_panicked \/ exited
  PROVE  Owned'
  <1> USE SupervisorAssumption DEF Owned, TypeOK, LoopsUndisturbed, JoinedEnded, OkLoopsAreEmpty,
        EndedHoldNothing, AbortsFollowDrops, ServeReturned, Looping, Running, Dropped
  <1>1. CASE ctrl_c
    BY <1>1 DEF ctrl_c, tasks
  <1>2. CASE main_cancels
    BY <1>2 DEF main_cancels, tasks
  <1>3. CASE main_returns
    BY <1>3 DEF main_returns, tasks
  <1>4. CASE maintenance_stopped
    BY <1>4 DEF maintenance_stopped, tasks
  <1>5. CASE maintenance_panicked
    BY <1>5 DEF maintenance_panicked, tasks
  <1>6. CASE exited
    BY <1>6 DEF exited, vars, tasks
  <1> QED BY <1>1, <1>2, <1>3, <1>4, <1>5, <1>6 DEF MainStep

-----------------------------------------------------------------------------
\* Every step keeps the inductive invariant.
LEMMA StepOwned ==
  ASSUME Owned, [Next]_vars
  PROVE  Owned'
  <1>1. CASE UNCHANGED vars
    BY <1>1 DEF vars, tasks, Owned, TypeOK, LoopsUndisturbed, JoinedEnded, OkLoopsAreEmpty,
                EndedHoldNothing, AbortsFollowDrops, ServeReturned, Looping, Running, Dropped
  <1> QED BY <1>1, LoopStepOwned, ConnectionStepOwned, ServeStepOwned, MainStepOwned DEF Next

\* Loops, tasks and what they own stay related as Owned says, whichever tasks
\* fail, panic or are aborted and in whichever order.
THEOREM OwnershipHolds == Spec => []Owned
  <1>1. Init => Owned
    BY SupervisorAssumption
       DEF Init, Owned, TypeOK, LoopsUndisturbed, JoinedEnded, OkLoopsAreEmpty,
           EndedHoldNothing, AbortsFollowDrops, ServeReturned, Looping, Running
  <1>2. Owned /\ [Next]_vars => Owned'
    BY StepOwned
  <1> QED BY <1>1, <1>2, PTL DEF Spec, Supervision

\* Every variable keeps its type, and only running tasks are asked to abort.
THEOREM SupervisorTypeCorrect == Spec => []TypeOK
  <1>1. Owned => TypeOK
    BY DEF Owned
  <1> QED BY <1>1, OwnershipHolds, PTL

\* A clean return of serve is a clean server.
THEOREM CleanReturn == Spec => []OkMeansEnded
  <1>1. Owned => OkMeansEnded
    <2> SUFFICES ASSUME Owned, serve = "ok"
                 PROVE  /\ \A l \in AcceptLoops : listener[l] = "ok"
                        /\ \A c \in Connections : ~ Running(c)
                        /\ maintenance = "ended"
                        /\ \A c \in Connections :
                             c \in held \/ writer[c] = "running" => task[c] = "panicked"
      BY DEF OkMeansEnded
    <2>1. joined = AcceptLoops /\ maintenance = "ended"
      BY DEF Owned, ServeReturned
    <2>2. \A l \in AcceptLoops : listener[l] = "ok"
      BY <2>1 DEF Owned, JoinedEnded
    <2>3. \A c \in Connections : listener[Home[c]] = "ok"
      BY <2>2, SupervisorAssumption
    <2>4. \A c \in Connections : ~ Running(c)
      BY <2>3 DEF Owned, OkLoopsAreEmpty
    <2>5. \A c \in Connections : task[c] # "aborted"
      BY <2>3 DEF Owned, AbortsFollowDrops, Dropped
    <2>6. \A c \in Connections : task[c] \in {"none", "ended", "panicked"}
      BY <2>4, <2>5 DEF Owned, TypeOK, Running
    <2>7. \A c \in Connections : c \in held \/ writer[c] = "running" => task[c] = "panicked"
      BY <2>6 DEF Owned, EndedHoldNothing
    <2> QED BY <2>1, <2>2, <2>4, <2>7
  <1> QED BY <1>1, OwnershipHolds, PTL
=============================================================================
