------------------------------- MODULE Server -------------------------------
(***************************************************************************)
(* The transport around the network core: aster_fsd_server/src.            *)
(*                                                                         *)
(* handle_connection runs one task per accepted socket (stage[c] is where  *)
(* it is) and one writer task behind a bounded mailbox.  The core returns  *)
(* Effects after its lock is released, and the task then dispatches them:  *)
(* one delivery after the other, one recipient at a time, in no particular *)
(* order of recipients.  The dispatches of several tasks interleave.       *)
(*                                                                         *)
(* A peer that does not read is a writer step that is never taken: no      *)
(* fairness is assumed of the steps a peer controls.                       *)
(***************************************************************************)
EXTENDS Network, ProtocolErrors

CONSTANTS
  Maintenance,      \* the wind-delta task
  MailboxCapacity,  \* ServerConfig::mailbox_capacity
  DecodeErrors,     \* protocol errors that frames may raise: [kind, code]
  Encoded(_),       \* what the frames of an event tell their reader apart by
  Unencodable,      \* frames that may exceed the frame limit
  WindTicks         \* FALSE: the wind-delta interval does not elapse (a bound)

VARIABLES
  stage,      \* where each connection task, and the maintenance task, is
  handles,    \* the keys of Runtime::connections
  mailbox,    \* the outbound channel of each connection
  writer,     \* state of each writer task
  cancelled,  \* the cancellation token of each connection
  pending,    \* what each task has still to dispatch
  listening,  \* the accept loop is running
  shutdown    \* the server-wide cancellation token

network == <<sessions, callsigns, registered, calls>>
transport == <<handles, mailbox, writer, cancelled>>
serverVars == <<vars, transport, stage, pending, listening, shutdown>>

Dispatchers == ConnectionIds \cup {Maintenance}

Frames == {Encoded(event) : event \in Event}

Close == [kind |-> "Close", about |-> None]

ASSUME ServerAssumption ==
  /\ Tasks = ConnectionIds
  /\ Maintenance \notin ConnectionIds
  /\ MailboxCapacity \in Nat \ {0}
  /\ DecodeErrors \subseteq [kind : ProtocolErrorKind, code : ErrorCode]
  /\ Unencodable \subseteq Frames
  /\ WindTicks \in BOOLEAN
  /\ Close \notin Frames
  /\ None \notin Frames

ServerInit ==
  /\ Init
  /\ stage = [d \in Dispatchers |-> IF d = Maintenance THEN "select" ELSE "new"]
  /\ handles = {}
  /\ mailbox = [c \in ConnectionIds |-> <<>>]
  /\ writer = [c \in ConnectionIds |-> "none"]
  /\ cancelled = [c \in ConnectionIds |-> FALSE]
  /\ pending = [d \in Dispatchers |-> None]
  /\ listening = TRUE
  /\ shutdown = FALSE
-----------------------------------------------------------------------------
(***************************************************************************)
(* Runtime::dispatch (runtime.rs).                                         *)
(***************************************************************************)
Goto(d, from, to) == stage[d] = from /\ stage' = [stage EXCEPT ![d] = to]

\* The task takes the effects its call has just returned; `then` is where it
\* goes on once they are dispatched.
begin_dispatch(d, then) ==
  LET wire == [i \in DOMAIN effects'.deliveries |->
                 [recipients |-> effects'.deliveries[i].recipients,
                  frames |-> Encoded(effects'.deliveries[i].event)]]
  IN  pending' = [pending EXCEPT ![d] =
        [deliveries |-> wire, close |-> effects'.close,
         held |-> None, frames |-> None, then |-> then]]

Dispatching(d) == stage[d] = "dispatch" /\ pending[d] # None

\* Clone the recipient's handle out of the connection map; skip it if absent.
dispatch_lookup(d) ==
  LET p == pending[d]
      now == Head(p.deliveries)
  IN  /\ Dispatching(d)
      /\ p.held = None
      /\ p.deliveries # <<>>
      /\ \E r \in now.recipients :
           LET others == now.recipients \ {r}
               rest == IF others = {} THEN Tail(p.deliveries)
                       ELSE [p.deliveries EXCEPT ![1].recipients = others]
               held == IF r \in handles THEN r ELSE None
           IN  pending' = [pending EXCEPT ![d] =
                             [p EXCEPT !.deliveries = rest, !.held = held,
                                       !.frames = IF held = None THEN None ELSE now.frames]]
      /\ effects' = Nothing
      /\ UNCHANGED <<network, transport, stage, listening, shutdown>>

\* Mutants of HasRoom: one slot too many, one too few.
HasRoomPastEnd(c) == writer[c] # "done" /\ Len(mailbox[c]) <= MailboxCapacity

HasRoomLess(c) == writer[c] # "done" /\ Len(mailbox[c]) < MailboxCapacity - 1

\* mpsc try_send succeeds iff the receiver lives and a slot is free.
HasRoom(c) == writer[c] # "done" /\ Len(mailbox[c]) < MailboxCapacity

\* Mutant of post: what does not fit is dropped and the recipient lives on.
post_or_drop(c, message, encoded) ==
  /\ mailbox' = IF encoded /\ HasRoom(c) THEN [mailbox EXCEPT ![c] = Append(@, message)]
                ELSE mailbox
  /\ UNCHANGED cancelled

\* Mutant of post: send().await instead of try_send.
post_blocking(c, message, encoded) ==
  /\ Len(mailbox[c]) < MailboxCapacity \/ writer[c] = "done"
  /\ mailbox' = IF writer[c] = "done" THEN mailbox ELSE [mailbox EXCEPT ![c] = Append(@, message)]
  /\ UNCHANGED cancelled

post(c, message, encoded) ==
  IF encoded /\ HasRoom(c)
  THEN /\ mailbox' = [mailbox EXCEPT ![c] = Append(@, message)]
       /\ UNCHANGED cancelled
  ELSE /\ cancelled' = [cancelled EXCEPT ![c] = TRUE]
       /\ UNCHANGED mailbox

\* Snapshot the recipient, encode for its dialect, try_send.  A full or closed
\* mailbox, or an encoding error, cancels the recipient's connection.
dispatch_send(d) ==
  LET p == pending[d]
  IN  /\ Dispatching(d)
      /\ p.held # None
      /\ \E encoded \in (IF p.frames \in Unencodable THEN BOOLEAN ELSE {TRUE}) :
           post(p.held, p.frames, encoded)
      /\ pending' = [pending EXCEPT ![d] = [p EXCEPT !.held = None, !.frames = None]]
      /\ effects' = Nothing
      /\ UNCHANGED <<network, handles, writer, stage, listening, shutdown>>

\* The close request of the effects comes last.  The dispatch that ends a
\* connection is followed by close.cancel().
dispatch_finish(d) ==
  LET p == pending[d]
  IN  /\ Dispatching(d)
      /\ p.held = None
      /\ p.deliveries = <<>>
      /\ \/ /\ p.close \in handles
            /\ post(p.close, Close, TRUE)
         \/ /\ p.close \notin handles
            /\ cancelled' = IF p.then = "join" THEN [cancelled EXCEPT ![d] = TRUE] ELSE cancelled
            /\ UNCHANGED mailbox
      /\ pending' = [pending EXCEPT ![d] = None]
      /\ Goto(d, "dispatch", p.then)
      /\ effects' = Nothing
      /\ UNCHANGED <<network, handles, writer, listening, shutdown>>
-----------------------------------------------------------------------------
(***************************************************************************)
(* handle_connection, register_connection, send_handshake (connection/).   *)
(***************************************************************************)
accept(c) ==
  /\ listening
  /\ Goto(c, "new", "accepted")
  /\ effects' = Nothing
  /\ UNCHANGED <<network, transport, pending, listening, shutdown>>

register_connection(c) ==
  /\ \E dialect \in Listeners : register(c, dialect)
  /\ Goto(c, "accepted", IF sessions'[c].phase = "Closed" THEN "refused" ELSE "handshake")
  /\ UNCHANGED <<transport, pending, listening, shutdown>>

\* The ServerFull error is written to the socket directly; its outcome is ignored.
refused(c) ==
  /\ Goto(c, "refused", "done")
  /\ effects' = Nothing
  /\ UNCHANGED <<network, transport, pending, listening, shutdown>>

\* The initial frames are out (Classic has none): publish the handle, start the
\* writer and enter the read loop.
start_reading(c) ==
  /\ Goto(c, "handshake", "select")
  /\ handles' = handles \cup {c}
  /\ writer' = [writer EXCEPT ![c] = "idle"]
  /\ effects' = Nothing
  /\ UNCHANGED <<network, mailbox, cancelled, pending, listening, shutdown>>

\* Mutant of handshake_failed: the session is not disconnected.
handshake_abandoned(c) ==
  /\ Goto(c, "handshake", "done")
  /\ effects' = Nothing
  /\ UNCHANGED <<network, transport, pending, listening, shutdown>>

handshake_failed(c) ==
  /\ Goto(c, "handshake", "dispatch")
  /\ sessions[c].dialect # "Classic"
  /\ disconnect(c)
  /\ begin_dispatch(c, "done")
  /\ UNCHANGED <<transport, listening, shutdown>>

remove_handle(c) ==
  /\ Goto(c, "leave", "removed")
  /\ handles' = handles \ {c}
  /\ effects' = Nothing
  /\ UNCHANGED <<network, mailbox, writer, cancelled, pending, listening, shutdown>>

\* Mutant of final_disconnect: the task only waits for its writer.
no_final_disconnect(c) ==
  /\ Goto(c, "removed", "join")
  /\ effects' = Nothing
  /\ UNCHANGED <<network, transport, pending, listening, shutdown>>

final_disconnect(c) ==
  /\ Goto(c, "removed", "dispatch")
  /\ disconnect(c)
  /\ begin_dispatch(c, "join")
  /\ UNCHANGED <<transport, listening, shutdown>>

join_writer(c) ==
  /\ writer[c] = "done"
  /\ Goto(c, "join", "done")
  /\ effects' = Nothing
  /\ UNCHANGED <<network, transport, pending, listening, shutdown>>
-----------------------------------------------------------------------------
(***************************************************************************)
(* read_connection and process_frame (connection/reader.rs).               *)
(***************************************************************************)
\* A frame decodes to a command.  Decoding does not depend on the snapshot, so
\* it is one step with the first critical section of execute.
process_command(c) ==
  /\ stage[c] = "select"
  /\ Execute(c) \/ AsyncCall(c, c)
  /\ \/ /\ calls'[c] = None
        /\ Goto(c, "select", "dispatch")
        /\ begin_dispatch(c, "select")
     \/ /\ calls'[c] # None
        /\ Goto(c, "select", "execute")
        /\ UNCHANGED pending
  /\ UNCHANGED <<transport, listening, shutdown>>

command_returned(c) ==
  /\ Goto(c, "execute", "dispatch")
  /\ AsyncReturn(c)
  /\ begin_dispatch(c, "select")
  /\ UNCHANGED <<transport, listening, shutdown>>

decode_failed(c) ==
  /\ Goto(c, "select", "dispatch")
  /\ \E error \in DecodeErrors :
       /\ effects' = error_effect(c, error.code)
       /\ begin_dispatch(c, IF closes_connection(sessions[c].phase, error)
                            THEN "leave" ELSE "select")
  /\ UNCHANGED <<network, transport, listening, shutdown>>

\* Mutants of token_cancelled: one of the two tokens is not watched.
own_token_cancelled(c) ==
  /\ cancelled[c]
  /\ Goto(c, "select", "leave")
  /\ effects' = Nothing
  /\ UNCHANGED <<network, transport, pending, listening, shutdown>>

server_token_cancelled(c) ==
  /\ shutdown
  /\ Goto(c, "select", "leave")
  /\ effects' = Nothing
  /\ UNCHANGED <<network, transport, pending, listening, shutdown>>

\* select! leaves the loop on a cancelled token ...
token_cancelled(c) ==
  /\ shutdown \/ cancelled[c]
  /\ Goto(c, "select", "leave")
  /\ effects' = Nothing
  /\ UNCHANGED <<network, transport, pending, listening, shutdown>>

\* ... on end of stream, a framing error or the idle timeout.
peer_gone(c) ==
  /\ Goto(c, "select", "leave")
  /\ effects' = Nothing
  /\ UNCHANGED <<network, transport, pending, listening, shutdown>>
-----------------------------------------------------------------------------
(***************************************************************************)
(* run_writer (connection/writer.rs).  The writer never looks at the       *)
(* cancellation token.                                                     *)
(***************************************************************************)
WriterStep(c, from, to) ==
  /\ writer[c] = from
  /\ writer' = [writer EXCEPT ![c] = to]
  /\ effects' = Nothing
  /\ UNCHANGED <<network, handles, stage, pending, listening, shutdown>>

writer_recv(c) ==
  /\ mailbox[c] # <<>>
  /\ WriterStep(c, "idle", IF Head(mailbox[c]) = Close THEN "closing" ELSE "sending")
  /\ mailbox' = [mailbox EXCEPT ![c] = Tail(@)]
  /\ UNCHANGED cancelled

\* The peer takes the frames of the batch.
writer_sent(c) ==
  /\ WriterStep(c, "sending", "idle")
  /\ UNCHANGED <<mailbox, cancelled>>

writer_return(c, from) ==
  /\ WriterStep(c, from, "done")
  /\ mailbox' = [mailbox EXCEPT ![c] = <<>>]
  /\ cancelled' = [cancelled EXCEPT ![c] = TRUE]

writer_failed(c) == writer_return(c, "sending")

writer_closed(c) == writer_return(c, "closing")

\* recv() returns None: every sender is dropped and the channel is empty.
writer_drained(c) ==
  /\ mailbox[c] = <<>>
  /\ c \notin handles
  /\ \A d \in Dispatchers : pending[d] # None => pending[d].held # c
  /\ writer_return(c, "idle")
-----------------------------------------------------------------------------
(***************************************************************************)
(* run_maintenance (runtime.rs), accept_loop (listener.rs) and the         *)
(* shutdown of serve (server.rs).                                          *)
(***************************************************************************)
maintenance_tick ==
  /\ WindTicks
  /\ Goto(Maintenance, "select", "dispatch")
  /\ broadcast
  /\ begin_dispatch(Maintenance, "select")
  /\ UNCHANGED <<transport, listening, shutdown>>

maintenance_stops ==
  /\ shutdown
  /\ Goto(Maintenance, "select", "done")
  /\ effects' = Nothing
  /\ UNCHANGED <<network, transport, pending, listening, shutdown>>

stop_listening ==
  /\ shutdown /\ listening
  /\ listening' = FALSE
  /\ effects' = Nothing
  /\ UNCHANGED <<network, transport, stage, pending, shutdown>>

begin_shutdown ==
  /\ ~ shutdown
  /\ shutdown' = TRUE
  /\ effects' = Nothing
  /\ UNCHANGED <<network, transport, stage, pending, listening>>

Converged ==
  /\ ~ listening
  /\ stage[Maintenance] = "done"
  /\ \A c \in ConnectionIds : stage[c] \in {"new", "done"}

stopped == Converged /\ UNCHANGED serverVars

TaskStep(c) ==
  \/ accept(c) \/ register_connection(c) \/ refused(c)
  \/ start_reading(c) \/ handshake_failed(c)
  \/ process_command(c) \/ command_returned(c) \/ decode_failed(c)
  \/ token_cancelled(c) \/ peer_gone(c)
  \/ remove_handle(c) \/ final_disconnect(c) \/ join_writer(c)

DispatchStep(d) == dispatch_lookup(d) \/ dispatch_send(d) \/ dispatch_finish(d)

WriterTaskStep(c) ==
  writer_recv(c) \/ writer_sent(c) \/ writer_failed(c) \/ writer_closed(c) \/ writer_drained(c)

ServerNext ==
  \/ \E c \in ConnectionIds : TaskStep(c) \/ WriterTaskStep(c)
  \/ \E d \in Dispatchers : DispatchStep(d)
  \/ maintenance_tick \/ maintenance_stops
  \/ stop_listening \/ begin_shutdown \/ stopped

(***************************************************************************)
(* Fairness.  The runtime polls every woken task, and the authenticator    *)
(* and the weather provider answer.  select! picks among its ready         *)
(* branches at random, so a cancelled token is not passed over for ever    *)
(* even while frames keep arriving (strong fairness).  Nothing is assumed  *)
(* of the peer: sending frames to it, the handshake included, may never    *)
(* complete.                                                               *)
(***************************************************************************)
Fairness ==
  /\ \A c \in ConnectionIds :
       /\ WF_serverVars(register_connection(c))
       /\ WF_serverVars(sessions[c].dialect = "Classic" /\ start_reading(c))
       /\ WF_serverVars(command_returned(c))
       /\ SF_serverVars(token_cancelled(c))
       /\ WF_serverVars(remove_handle(c) \/ final_disconnect(c) \/ join_writer(c))
       /\ WF_serverVars(writer_recv(c) \/ writer_closed(c) \/ writer_drained(c))
  /\ \A d \in Dispatchers : WF_serverVars(DispatchStep(d))
  /\ SF_serverVars(maintenance_stops)
  /\ SF_serverVars(stop_listening)

ServerSafety == ServerInit /\ [][ServerNext]_serverVars

ServerSpec == ServerSafety /\ Fairness

(***************************************************************************)
(* What the owner of the tasks sees of them: this module, with one accept  *)
(* loop and no task that fails, implements Supervisor.  serve is seen in   *)
(* its first select throughout.                                            *)
(***************************************************************************)
Ownership == INSTANCE Supervisor WITH
  AcceptLoops <- {"accept_loop"},
  Connections <- ConnectionIds,
  Home <- [c \in ConnectionIds |-> "accept_loop"],
  token <- shutdown,
  listener <- [l \in {"accept_loop"} |-> IF listening THEN "select" ELSE "draining"],
  task <- [c \in ConnectionIds |->
             IF stage[c] = "new" THEN "none" ELSE IF stage[c] = "done" THEN "ended" ELSE "running"],
  writer <- [c \in ConnectionIds |->
               IF writer[c] \in {"none", "done"} THEN writer[c] ELSE "running"],
  held <- {c \in ConnectionIds : sessions[c].phase # "Closed"},
  maintenance <- IF stage[Maintenance] = "done" THEN "ended" ELSE "running",
  aborting <- {}, serve <- "select", joined <- {}, main <- "serving"

\* Peers that do read, as an assumption of properties: every socket write ends, well
\* or badly.
PeersRead ==
  \A c \in ConnectionIds :
    /\ WF_serverVars(writer_sent(c) \/ writer_failed(c))
    /\ WF_serverVars(start_reading(c) \/ handshake_failed(c))
    /\ WF_serverVars(refused(c))
-----------------------------------------------------------------------------
(***************************************************************************)
(* Properties.                                                             *)
(***************************************************************************)
Stage ==
  {"new", "accepted", "handshake", "refused", "select", "execute", "dispatch",
   "leave", "removed", "join", "done"}

Pending ==
  [deliveries : Seq([recipients : SUBSET ConnectionIds, frames : Frames]),
   close : ConnectionIds \cup {None},
   held : ConnectionIds \cup {None}, frames : Frames \cup {None},
   then : {"select", "leave", "join", "done"}]

ASSUME PendingAssumption == None \notin Pending

Outbound == Frames \cup {Close}

\* Every variable of the transport keeps its type; a mailbox never holds more
\* than its capacity.
ServerTypeOK ==
  /\ TypeOK
  /\ stage \in [Dispatchers -> Stage]
  /\ handles \subseteq ConnectionIds
  /\ mailbox \in [ConnectionIds -> Seq(Outbound)]
  /\ \A c \in ConnectionIds : Len(mailbox[c]) <= MailboxCapacity
  /\ writer \in [ConnectionIds -> {"none", "idle", "sending", "closing", "done"}]
  /\ cancelled \in [ConnectionIds -> BOOLEAN]
  /\ pending \in [Dispatchers -> Pending \cup {None}]
  /\ listening \in BOOLEAN
  /\ shutdown \in BOOLEAN

\* A connection task that has ended leaves nothing behind, whichever way it
\* ended (refusal, failed handshake, peer gone, kill, cancellation, shutdown): no
\* session, no callsign, no suspended call, no handle, no writer.
NoOrphan ==
  \A c \in ConnectionIds :
    stage[c] = "done" =>
      /\ sessions[c] = NoSession
      /\ \A cs \in Callsigns : callsigns[cs] # c
      /\ calls[c] = None
      /\ c \notin handles
      /\ writer[c] \in {"none", "done"}

\* A connection task keeps the discipline its owner relies on: it is spawned only
\* by an accept loop that has not seen the shutdown, holds its session and its
\* writer only while it runs, and has given both back when it ends.
SupervisionSpec == Ownership!Supervision

\* How many events task d has still to hand to connection r.
Owed(d, r) ==
  IF pending[d] = None THEN 0
  ELSE Cardinality({i \in DOMAIN pending[d].deliveries : r \in pending[d].deliveries[i].recipients})
         + (IF pending[d].held = r THEN 1 ELSE 0)

\* The task of connection r has left its read loop for good.
HasLeft(r) ==
  \/ stage[r] \in {"removed", "join", "done"}
  \/ stage[r] = "dispatch" /\ pending[r].then \in {"join", "done"}

\* No client is left with a silent gap: when a dispatch drops an event that was
\* addressed to a connection (mailbox full or closed, encoding failed, or no
\* handle published), that connection is cancelled or has left its read loop.
NoSilentGap ==
  [][\A d \in Dispatchers, r \in ConnectionIds :
       mailbox'[r] = mailbox[r] /\ ~ cancelled'[r] /\ ~ HasLeft(r)
         => Owed(d, r)' >= Owed(d, r)
    ]_serverVars

\* A connection is cancelled only through its own mailbox, its own writer or its
\* own teardown: whatever one task dispatches, the token of a connection that has
\* room in its mailbox, and whose frames can be encoded, stays untouched.
OnlyTheSlowIsCancelled ==
  [][\A c \in ConnectionIds :
       ~ cancelled[c] /\ cancelled'[c] =>
         \/ Len(mailbox[c]) = MailboxCapacity
         \/ writer'[c] = "done"
         \/ stage'[c] = "join"
         \/ \E d \in Dispatchers :
              pending[d] # None /\ pending[d].held = c /\ pending[d].frames \in Unencodable
    ]_serverVars

\* A dispatch always ends: a peer that never reads cannot hold up the task that
\* sends to it, nor the other recipients behind it.
DispatchFinishes ==
  \A d \in Dispatchers : pending[d] # None ~> pending[d] = None

\* A cancelled connection gives up its session and its callsign, even when its
\* peer has stopped reading and its writer is stuck in a send.
CancelledIsReleased ==
  \A c \in ConnectionIds : cancelled[c] ~> sessions[c].phase = "Closed"

\* After a shutdown request every session and every callsign is given up for good,
\* stalled peers or not.  Only a connection whose peer does not read its handshake,
\* and which has no callsign yet, may keep its session.
ShutdownReleases == shutdown ~> [](\A c \in live : stage[c] = "handshake")

\* A close that the core asks for (a refused login, a kill, a logoff) takes
\* effect: the Close message may wait behind frames or find the mailbox full, and
\* the connection gives up its session all the same, if writes to its socket end.
CloseTakesEffect ==
  PeersRead =>
    \A d \in Dispatchers, c \in ConnectionIds :
      (pending[d] # None /\ pending[d].close = c) ~> (sessions[c].phase = "Closed")

\* The whole server winds down after a shutdown request: the listener, the
\* maintenance task and every connection task end.
ShutdownConverges == shutdown ~> Converged

\* It does so when every socket write ends, well or badly.
ConvergesWhenPeersRead == PeersRead => ShutdownConverges
=============================================================================
