---------------------------- MODULE ServerProofs ----------------------------
(***************************************************************************)
(* Theorems about the transport around the core, for every set of          *)
(* connections, every mailbox capacity and every encoding: types and the   *)
(* bound of the mailboxes, and what a connection task leaves behind.       *)
(***************************************************************************)
EXTENDS Server, NetworkDeliveryProofs

-----------------------------------------------------------------------------
(***************************************************************************)
(* Types.                                                                  *)
(***************************************************************************)
StageType == stage \in [Dispatchers -> Stage]
PendingType == pending \in [Dispatchers -> Pending \cup {None}]
MailboxType ==
  /\ mailbox \in [ConnectionIds -> Seq(Outbound)]
  /\ \A c \in ConnectionIds : Len(mailbox[c]) <= MailboxCapacity
CancelledType == cancelled \in [ConnectionIds -> BOOLEAN]
WriterType == writer \in [ConnectionIds -> {"none", "idle", "sending", "closing", "done"}]

\* A handle that a dispatch holds comes with the frames that are to be sent to it.
HeldHasFrames ==
  \A d \in Dispatchers : pending[d] # None /\ pending[d].held # None => pending[d].frames # None

\* A jump of a task keeps the types and touches no other task.
LEMMA GotoType ==
  ASSUME StageType, NEW d \in Dispatchers, NEW from, NEW to \in Stage, Goto(d, from, to)
  PROVE  /\ StageType'
         /\ stage[d] = from /\ stage'[d] = to
         /\ \A e \in Dispatchers \ {d} : stage'[e] = stage[e]
  BY DEF StageType, Goto

\* begin_dispatch keeps what the core returned, encoded.
LEMMA BeginType ==
  ASSUME PendingType, effects' \in Effects, NEW d \in Dispatchers,
         NEW then \in {"select", "leave", "join", "done"}, begin_dispatch(d, then)
  PROVE  /\ PendingType' /\ pending'[d] \in Pending
         /\ pending'[d].then = then /\ pending'[d].held = None
         /\ pending'[d].close = effects'.close
         /\ DOMAIN pending'[d].deliveries = DOMAIN effects'.deliveries
         /\ \A i \in DOMAIN effects'.deliveries :
              pending'[d].deliveries[i].recipients = effects'.deliveries[i].recipients
         /\ \A e \in Dispatchers \ {d} : pending'[e] = pending[e]
<1> DEFINE Wire == [recipients : SUBSET ConnectionIds, frames : Frames]
           wire == [i \in DOMAIN effects'.deliveries |->
                      [recipients |-> effects'.deliveries[i].recipients,
                       frames |-> Encoded(effects'.deliveries[i].event)]]
           entry == [deliveries |-> wire, close |-> effects'.close,
                     held |-> None, frames |-> None, then |-> then]
<1>1. effects'.deliveries \in Seq(Delivery) /\ effects'.close \in ConnectionIds \cup {None}
  BY DEF Effects
<1>2. \A i \in DOMAIN effects'.deliveries :
        /\ effects'.deliveries[i].recipients \in SUBSET ConnectionIds
        /\ effects'.deliveries[i].event \in Event
  <2>1. \A i \in DOMAIN effects'.deliveries : effects'.deliveries[i] \in Delivery
    BY <1>1, ElementOfSeq
  <2>2. \A e \in Delivery : e.recipients \in SUBSET ConnectionIds /\ e.event \in Event
    BY DEF Delivery
  <2> QED
    BY <2>1, <2>2, Zenon
<1>3. wire \in Seq(Wire)
  <2>1. \A i \in DOMAIN effects'.deliveries : wire[i] \in Wire
    BY <1>2 DEF Frames
  <2>2. DOMAIN wire = 1 .. Len(effects'.deliveries) /\ Len(effects'.deliveries) \in Nat
    BY <1>1
  <2>3. wire = [i \in DOMAIN wire |-> wire[i]] /\ DOMAIN effects'.deliveries = DOMAIN wire
    OBVIOUS
  <2> HIDE DEF wire, Wire
  <2>4. wire \in [1 .. Len(effects'.deliveries) -> Wire]
    BY <2>1, <2>2, <2>3, Zenon
  <2> QED
    BY <2>2, <2>4, SeqDef
<1>4. entry \in Pending
  <2> HIDE DEF wire
  <2> QED
    BY <1>1, <1>3 DEF Pending
<1>5. pending' = [pending EXCEPT ![d] = entry]
  BY DEF begin_dispatch
<1>6. pending'[d] = entry /\ PendingType' /\ \A e \in Dispatchers \ {d} : pending'[e] = pending[e]
  <2> HIDE DEF entry
  <2> QED
    BY <1>4, <1>5 DEF PendingType
<1> QED
  BY <1>4, <1>6

\* A message goes into a mailbox with room, or its connection is cancelled.
LEMMA PostType ==
  ASSUME MailboxType, CancelledType, NEW c \in ConnectionIds, NEW message \in Outbound,
         NEW encoded, post(c, message, encoded)
  PROVE  MailboxType' /\ CancelledType'
<1>1. CASE encoded /\ HasRoom(c)
  <2>1. mailbox' = [mailbox EXCEPT ![c] = Append(@, message)] /\ UNCHANGED cancelled
    BY <1>1 DEF post
  <2>2. mailbox[c] \in Seq(Outbound) /\ Len(mailbox[c]) < MailboxCapacity
    BY <1>1 DEF MailboxType, HasRoom
  <2>3. Append(mailbox[c], message) \in Seq(Outbound)
        /\ Len(Append(mailbox[c], message)) = Len(mailbox[c]) + 1
    BY <2>2, AppendProperties
  <2>4. Len(mailbox[c]) + 1 <= MailboxCapacity
    BY <2>2, ServerAssumption
  <2> QED
    BY <2>1, <2>3, <2>4 DEF MailboxType, CancelledType
<1>2. CASE ~ (encoded /\ HasRoom(c))
  BY <1>2 DEF post, MailboxType, CancelledType
<1> QED
  BY <1>1, <1>2

\* What a server step is to the core: a step of it, or nothing but new effects.
Idle == UNCHANGED network /\ effects' \in Effects

LEMMA IdleCore ==
  ASSUME TypeOK, Idle
  PROVE  TypeOK' /\ Change
  BY DEF TypeOK, Change, Idle, network

LEMMA CoreCore ==
  ASSUME TypeOK, [Next]_vars
  PROVE  TypeOK' /\ Change
  BY TypeStep, StepIsChange

LEMMA ServerCore ==
  ASSUME TypeOK, [ServerNext]_serverVars
  PROVE  TypeOK' /\ Change
<1>1. ASSUME effects' = Nothing, UNCHANGED network PROVE TypeOK' /\ Change
  BY <1>1, NothingType, IdleCore DEF Idle
<1>2. ASSUME NEW c \in ConnectionIds, TaskStep(c) PROVE TypeOK' /\ Change
  <2>1. CASE register_connection(c)
    BY <2>1, CoreCore DEF register_connection, Lifecycle, Next
  <2>2. CASE handshake_failed(c) \/ final_disconnect(c)
    BY <2>2, CoreCore DEF handshake_failed, final_disconnect, Lifecycle, Next
  <2>3. CASE process_command(c)
    <3>1. Next
      BY <2>3, ServerAssumption DEF process_command, Next
    <3> QED
      BY <3>1, CoreCore
  <2>4. CASE command_returned(c)
    <3>1. Next
      BY <2>4, ServerAssumption DEF command_returned, Next
    <3> QED
      BY <3>1, CoreCore
  <2>5. CASE decode_failed(c)
    <3>1. \E error \in DecodeErrors : effects' = error_effect(c, error.code)
      BY <2>5 DEF decode_failed
    <3>2. \A error \in DecodeErrors : error.code \in ErrorCode
      BY ServerAssumption
    <3>3. effects' \in Effects
      BY <3>1, <3>2, ErrorType
    <3> QED
      BY <2>5, <3>3, IdleCore DEF decode_failed, Idle
  <2>6. CASE accept(c) \/ refused(c) \/ start_reading(c) \/ token_cancelled(c) \/ peer_gone(c)
             \/ remove_handle(c) \/ join_writer(c)
    BY <2>6, <1>1 DEF accept, refused, start_reading, token_cancelled, peer_gone, remove_handle,
       join_writer
  <2> QED
    BY <1>2, <2>1, <2>2, <2>3, <2>4, <2>5, <2>6 DEF TaskStep
<1>3. ASSUME NEW c \in ConnectionIds, WriterTaskStep(c) PROVE TypeOK' /\ Change
  BY <1>1, <1>3 DEF WriterTaskStep, writer_recv, writer_sent, writer_failed, writer_closed,
     writer_drained, writer_return, WriterStep
<1>4. ASSUME NEW d \in Dispatchers, DispatchStep(d) PROVE TypeOK' /\ Change
  BY <1>1, <1>4 DEF DispatchStep, dispatch_lookup, dispatch_send, dispatch_finish
<1>5. CASE maintenance_tick
  BY <1>5, CoreCore DEF maintenance_tick, Next
<1>6. CASE maintenance_stops \/ stop_listening \/ begin_shutdown
  BY <1>1, <1>6 DEF maintenance_stops, stop_listening, begin_shutdown
<1>7. CASE UNCHANGED serverVars
  BY <1>7, CoreCore DEF serverVars
<1> QED
  BY <1>2, <1>3, <1>4, <1>5, <1>6, <1>7 DEF ServerNext, stopped

\* What the transport adds to TypeOK.
TransportType ==
  /\ StageType /\ PendingType /\ MailboxType /\ CancelledType /\ WriterType
  /\ handles \subseteq ConnectionIds
  /\ listening \in BOOLEAN /\ shutdown \in BOOLEAN

LEMMA ServerTypeParts == ServerTypeOK <=> TypeOK /\ TransportType
  BY DEF ServerTypeOK, TransportType, StageType, PendingType, MailboxType, CancelledType, WriterType

\* Every step of a connection task keeps the types of the transport.
LEMMA TaskTypes ==
  ASSUME TypeOK', TransportType, HeldHasFrames, NEW c \in ConnectionIds, TaskStep(c)
  PROVE  TransportType' /\ HeldHasFrames'
<1>0. c \in Dispatchers /\ effects' \in Effects
  BY DEF Dispatchers, TypeOK
<1> USE DEF TransportType
<1>1. CASE accept(c) \/ refused(c) \/ token_cancelled(c) \/ peer_gone(c) \/ join_writer(c)
           \/ register_connection(c)
  <2>1. /\ UNCHANGED <<transport, pending, listening, shutdown>>
        /\ \E from \in Stage, to \in Stage : Goto(c, from, to)
    BY <1>1 DEF accept, refused, token_cancelled, peer_gone, join_writer, register_connection, Stage
  <2>2. StageType'
    BY <1>0, <2>1, GotoType
  <2> QED
    BY <2>1, <2>2 DEF transport, PendingType, MailboxType, CancelledType, WriterType, HeldHasFrames
<1>2. CASE start_reading(c)
  <2>1. StageType'
    BY <1>0, <1>2, GotoType DEF start_reading, Stage
  <2>2. WriterType' /\ handles' \subseteq ConnectionIds
    BY <1>2 DEF start_reading, WriterType
  <2> QED
    BY <1>2, <2>1, <2>2 DEF start_reading, PendingType, MailboxType, CancelledType, HeldHasFrames
<1>3. CASE remove_handle(c)
  <2>1. StageType'
    BY <1>0, <1>3, GotoType DEF remove_handle, Stage
  <2> QED
    BY <1>3, <2>1 DEF remove_handle, PendingType, MailboxType, CancelledType, WriterType,
       HeldHasFrames
<1>4. ASSUME NEW from \in Stage, NEW then \in {"select", "leave", "join", "done"},
             Goto(c, from, "dispatch"), begin_dispatch(c, then),
             UNCHANGED <<transport, listening, shutdown>>
      PROVE  TransportType' /\ HeldHasFrames'
  <2>1. StageType'
    BY <1>0, <1>4, GotoType DEF Stage
  <2>2. /\ PendingType' /\ pending'[c].held = None
        /\ \A e \in Dispatchers \ {c} : pending'[e] = pending[e]
    BY <1>0, <1>4, BeginType
  <2>3. HeldHasFrames'
    BY <2>2 DEF HeldHasFrames
  <2> QED
    BY <1>4, <2>1, <2>2, <2>3 DEF transport, MailboxType, CancelledType, WriterType
<1>5. CASE handshake_failed(c) \/ final_disconnect(c) \/ command_returned(c) \/ decode_failed(c)
  BY <1>4, <1>5 DEF handshake_failed, final_disconnect, command_returned, decode_failed, Stage
<1>6. CASE process_command(c)
  <2>1. CASE begin_dispatch(c, "select") /\ Goto(c, "select", "dispatch")
    BY <1>4, <1>6, <2>1 DEF process_command, Stage
  <2>2. CASE UNCHANGED pending /\ Goto(c, "select", "execute")
    <3>1. StageType'
      BY <1>0, <2>2, GotoType DEF Stage
    <3> QED
      BY <1>6, <2>2, <3>1 DEF process_command, transport, PendingType, MailboxType, CancelledType,
         WriterType, HeldHasFrames
  <2> QED
    BY <1>6, <2>1, <2>2 DEF process_command
<1> QED
  BY <1>1, <1>2, <1>3, <1>5, <1>6 DEF TaskStep

\* So does every step of a writer.
LEMMA WriterTypes ==
  ASSUME TransportType, HeldHasFrames, NEW c \in ConnectionIds, WriterTaskStep(c)
  PROVE  TransportType' /\ HeldHasFrames'
<1> USE DEF TransportType
<1>1. /\ UNCHANGED <<handles, stage, pending, listening, shutdown>>
      /\ \E from, to \in {"idle", "sending", "closing", "done"} : writer' = [writer EXCEPT ![c] = to]
  BY DEF WriterTaskStep, writer_recv, writer_sent, writer_failed, writer_closed, writer_drained,
     writer_return, WriterStep
<1>2. WriterType'
  BY <1>1 DEF WriterType
<1>3. MailboxType' /\ CancelledType'
  <2>1. CASE writer_recv(c)
    <3>1. mailbox[c] \in Seq(Outbound) /\ mailbox[c] # <<>> /\ Len(mailbox[c]) <= MailboxCapacity
      BY <2>1 DEF writer_recv, MailboxType
    <3>2. Tail(mailbox[c]) \in Seq(Outbound) /\ Len(Tail(mailbox[c])) <= MailboxCapacity
      BY <3>1, ServerAssumption, HeadTailProperties
    <3> QED
      BY <2>1, <3>2 DEF writer_recv, MailboxType, CancelledType
  <2>2. CASE writer_sent(c)
    BY <2>2 DEF writer_sent, MailboxType, CancelledType
  <2>3. ASSUME mailbox' = [mailbox EXCEPT ![c] = <<>>], cancelled' = [cancelled EXCEPT ![c] = TRUE]
        PROVE  MailboxType' /\ CancelledType'
    <3>1. <<>> \in Seq(Outbound) /\ Len(<<>>) <= MailboxCapacity
      BY ServerAssumption
    <3> QED
      BY <2>3, <3>1 DEF MailboxType, CancelledType
  <2> QED
    BY <2>1, <2>2, <2>3 DEF WriterTaskStep, writer_failed, writer_closed, writer_drained,
       writer_return
<1> QED
  BY <1>1, <1>2, <1>3 DEF StageType, PendingType, HeldHasFrames

\* What a lookup leaves of the deliveries, once r has been taken from the first one.
Rest(deliveries, r) ==
  IF deliveries[1].recipients \ {r} = {} THEN Tail(deliveries)
  ELSE [deliveries EXCEPT ![1].recipients = deliveries[1].recipients \ {r}]

Wire == [recipients : SUBSET ConnectionIds, frames : Frames]

\* One lookup takes one recipient out of the first delivery and holds its handle, if any.
LEMMA LookupStep ==
  ASSUME TransportType, NEW d \in Dispatchers, dispatch_lookup(d)
  PROVE  /\ pending[d] \in Pending /\ pending[d].held = None
         /\ pending[d].deliveries \in Seq(Wire) /\ pending[d].deliveries # <<>>
         /\ \E r \in pending[d].deliveries[1].recipients :
              /\ pending'[d].deliveries = Rest(pending[d].deliveries, r)
              /\ pending'[d].deliveries \in Seq(Wire)
              /\ pending'[d].held = (IF r \in handles THEN r ELSE None)
              /\ pending'[d].held # None => pending'[d].frames \in Frames
         /\ pending'[d].then = pending[d].then /\ pending'[d].close = pending[d].close
         /\ pending' = [pending EXCEPT ![d] = pending'[d]] /\ pending'[d] \in Pending
<1>1. pending[d] \in Pending /\ pending[d].held = None /\ pending[d].deliveries # <<>>
  BY DEF dispatch_lookup, Dispatching, TransportType, PendingType
<1>2. pending[d].deliveries \in Seq(Wire)
  BY <1>1 DEF Pending, Wire
<1>3. /\ Head(pending[d].deliveries) = pending[d].deliveries[1]
      /\ pending[d].deliveries[1] \in Wire
  BY <1>1, <1>2
<1>4. PICK r \in pending[d].deliveries[1].recipients :
        pending' = [pending EXCEPT ![d] =
          [pending[d] EXCEPT
             !.deliveries = Rest(pending[d].deliveries, r),
             !.held = IF r \in handles THEN r ELSE None,
             !.frames = IF (IF r \in handles THEN r ELSE None) = None THEN None
                        ELSE pending[d].deliveries[1].frames]]
  BY <1>3 DEF dispatch_lookup, Rest
<1>5. r \in ConnectionIds /\ r # None /\ pending[d].deliveries[1].frames \in Frames
  BY <1>3, NoneAssumption DEF Wire
<1>6. Rest(pending[d].deliveries, r) \in Seq(Wire)
  <2>1. Tail(pending[d].deliveries) \in Seq(Wire)
    BY <1>1, <1>2
  <2>2. [pending[d].deliveries[1] EXCEPT !.recipients = @ \ {r}] \in Wire
    BY <1>3 DEF Wire
  <2>3. [pending[d].deliveries EXCEPT ![1].recipients = pending[d].deliveries[1].recipients \ {r}]
          \in Seq(Wire)
    BY <1>1, <1>2, <2>2
  <2> QED
    BY <2>1, <2>3 DEF Rest
<1> DEFINE entry == [pending[d] EXCEPT
                       !.deliveries = Rest(pending[d].deliveries, r),
                       !.held = IF r \in handles THEN r ELSE None,
                       !.frames = IF (IF r \in handles THEN r ELSE None) = None THEN None
                                  ELSE pending[d].deliveries[1].frames]
<1>7. /\ entry \in Pending
      /\ entry.deliveries = Rest(pending[d].deliveries, r)
      /\ entry.held = (IF r \in handles THEN r ELSE None)
      /\ entry.held # None => entry.frames \in Frames
      /\ entry.then = pending[d].then /\ entry.close = pending[d].close
  BY <1>1, <1>5, <1>6 DEF Pending, Wire
<1> HIDE DEF entry
<1>8. pending' = [pending EXCEPT ![d] = entry] /\ pending'[d] = entry
  BY <1>4 DEF entry, TransportType, PendingType
<1> QED
  BY <1>1, <1>2, <1>4, <1>6, <1>7, <1>8

\* A send uses up the handle that was held.
LEMMA SendStep ==
  ASSUME TransportType, HeldHasFrames, NEW d \in Dispatchers, dispatch_send(d)
  PROVE  /\ pending[d] \in Pending
         /\ pending[d].held \in ConnectionIds /\ pending[d].frames \in Frames
         /\ \E encoded \in BOOLEAN :
              /\ post(pending[d].held, pending[d].frames, encoded)
              /\ ~ encoded => pending[d].frames \in Unencodable
         /\ pending'[d].held = None
         /\ pending'[d].deliveries = pending[d].deliveries
         /\ pending'[d].then = pending[d].then /\ pending'[d].close = pending[d].close
         /\ pending' = [pending EXCEPT ![d] = pending'[d]] /\ pending'[d] \in Pending
<1>1. pending[d] \in Pending /\ pending[d].held # None /\ pending[d] # None
  BY DEF dispatch_send, Dispatching, TransportType, PendingType
<1>2. pending[d].held \in ConnectionIds /\ pending[d].frames \in Frames
  BY <1>1 DEF Pending, HeldHasFrames
<1>3. \E encoded \in BOOLEAN :
        /\ post(pending[d].held, pending[d].frames, encoded)
        /\ ~ encoded => pending[d].frames \in Unencodable
  <2>1. PICK encoded \in (IF pending[d].frames \in Unencodable THEN BOOLEAN ELSE {TRUE}) :
          post(pending[d].held, pending[d].frames, encoded)
    BY DEF dispatch_send
  <2>2. encoded \in BOOLEAN /\ (~ encoded => pending[d].frames \in Unencodable)
    BY Zenon
  <2> QED
    BY <2>1, <2>2, Zenon
<1> DEFINE entry == [pending[d] EXCEPT !.held = None, !.frames = None]
<1>4. /\ entry \in Pending /\ entry.held = None /\ entry.deliveries = pending[d].deliveries
      /\ entry.then = pending[d].then /\ entry.close = pending[d].close
  BY <1>1 DEF Pending
<1>5. pending' = [pending EXCEPT ![d] = entry]
  BY DEF dispatch_send
<1> HIDE DEF entry
<1>6. pending'[d] = entry
  BY <1>5 DEF TransportType, PendingType
<1> QED
  BY <1>1, <1>2, <1>3, <1>4, <1>5, <1>6

LEMMA DispatchTypes ==
  ASSUME TransportType, HeldHasFrames, NEW d \in Dispatchers, DispatchStep(d)
  PROVE  TransportType' /\ HeldHasFrames'
<1>1. CASE dispatch_lookup(d)
  <2>1. /\ pending' = [pending EXCEPT ![d] = pending'[d]] /\ pending'[d] \in Pending
        /\ pending'[d].held # None => pending'[d].frames \in Frames
    BY <1>1, LookupStep
  <2>2. HeldHasFrames' /\ PendingType'
    BY <2>1, ServerAssumption DEF TransportType, PendingType, HeldHasFrames
  <2> QED
    BY <1>1, <2>2 DEF dispatch_lookup, transport, TransportType, StageType, MailboxType,
       CancelledType, WriterType
<1>2. CASE dispatch_send(d)
  <2>1. /\ pending' = [pending EXCEPT ![d] = pending'[d]] /\ pending'[d] \in Pending
        /\ pending'[d].held = None
        /\ pending[d].held \in ConnectionIds /\ pending[d].frames \in Outbound
        /\ \E encoded \in BOOLEAN : post(pending[d].held, pending[d].frames, encoded)
    BY <1>2, SendStep DEF Outbound
  <2>2. HeldHasFrames' /\ PendingType'
    BY <2>1 DEF TransportType, PendingType, HeldHasFrames
  <2>3. MailboxType' /\ CancelledType'
    BY <2>1, PostType DEF TransportType
  <2> QED
    BY <1>2, <2>2, <2>3 DEF dispatch_send, TransportType, StageType, WriterType
<1>3. CASE dispatch_finish(d)
  <2>1. pending[d] \in Pending /\ pending[d].then \in Stage
    BY <1>3 DEF dispatch_finish, Dispatching, TransportType, PendingType, Pending, Stage
  <2>2. StageType'
    BY <1>3, <2>1, GotoType DEF dispatch_finish, TransportType
  <2>3. pending' = [pending EXCEPT ![d] = None]
    BY <1>3 DEF dispatch_finish
  <2>4. HeldHasFrames' /\ PendingType'
    BY <2>3 DEF TransportType, PendingType, HeldHasFrames
  <2>5. MailboxType' /\ CancelledType'
    <3>1. CASE pending[d].close \in handles /\ post(pending[d].close, Close, TRUE)
      BY <3>1, PostType DEF TransportType, Outbound
    <3>2. CASE UNCHANGED mailbox
               /\ cancelled' = IF pending[d].then = "join" THEN [cancelled EXCEPT ![d] = TRUE]
                               ELSE cancelled
      BY <3>2 DEF TransportType, MailboxType, CancelledType
    <3> QED
      BY <1>3, <3>1, <3>2 DEF dispatch_finish
  <2> QED
    BY <1>3, <2>2, <2>4, <2>5 DEF dispatch_finish, TransportType, WriterType
<1> QED
  BY <1>1, <1>2, <1>3 DEF DispatchStep

\* Every step of the server keeps the types.
LEMMA ServerTypeStep ==
  ASSUME ServerTypeOK, HeldHasFrames, [ServerNext]_serverVars
  PROVE  ServerTypeOK' /\ HeldHasFrames'
<1>0. TypeOK' /\ TransportType' => ServerTypeOK'
  BY DEF ServerTypeOK, TransportType, StageType, PendingType, MailboxType, CancelledType, WriterType
<1>1. TypeOK /\ TransportType /\ TypeOK'
  BY ServerTypeParts, ServerCore
<1>2. CASE \E c \in ConnectionIds : TaskStep(c) \/ WriterTaskStep(c)
  BY <1>0, <1>1, <1>2, TaskTypes, WriterTypes
<1>3. CASE \E d \in Dispatchers : DispatchStep(d)
  BY <1>0, <1>1, <1>3, DispatchTypes
<1>4. CASE maintenance_tick
  <2>0. Maintenance \in Dispatchers /\ effects' \in Effects
    BY <1>1 DEF Dispatchers, TypeOK
  <2>1. StageType'
    BY <1>1, <1>4, <2>0, GotoType DEF maintenance_tick, TransportType, Stage
  <2>2. /\ PendingType' /\ pending'[Maintenance].held = None
        /\ \A e \in Dispatchers \ {Maintenance} : pending'[e] = pending[e]
    BY <1>1, <1>4, <2>0, BeginType DEF maintenance_tick, TransportType
  <2>3. HeldHasFrames'
    BY <2>2 DEF HeldHasFrames
  <2>4. TransportType'
    BY <1>1, <1>4, <2>1, <2>2 DEF maintenance_tick, transport, TransportType, MailboxType,
       CancelledType, WriterType
  <2> QED
    BY <1>0, <1>1, <2>3, <2>4
<1>5. CASE maintenance_stops \/ stop_listening \/ begin_shutdown \/ UNCHANGED serverVars
  <2>0. Maintenance \in Dispatchers
    BY DEF Dispatchers
  <2>1. StageType'
    <3>1. CASE maintenance_stops
      BY <1>1, <2>0, <3>1, GotoType DEF maintenance_stops, TransportType, Stage
    <3>2. CASE UNCHANGED stage
      BY <1>1, <3>2 DEF TransportType, StageType
    <3> QED
      BY <1>5, <3>1, <3>2 DEF stop_listening, begin_shutdown, serverVars
  <2>2. TransportType' /\ HeldHasFrames'
    BY <1>1, <1>5, <2>1 DEF maintenance_stops, stop_listening, begin_shutdown, serverVars, transport,
       TransportType, PendingType, MailboxType, CancelledType, WriterType, HeldHasFrames
  <2> QED
    BY <1>0, <1>1, <2>2
<1> QED
  BY <1>2, <1>3, <1>4, <1>5 DEF ServerNext, stopped
-----------------------------------------------------------------------------
(***************************************************************************)
(* The life of a connection task.                                          *)
(***************************************************************************)
\* Before and after its life in the core a task has no session there.
Outside(c) ==
  \/ stage[c] \in {"new", "accepted", "refused", "join", "done"}
  \/ stage[c] = "dispatch" /\ pending[c].then \in {"join", "done"}

\* The task is in its read loop, or on its way out with its handle still published.
Serving(c) ==
  \/ stage[c] \in {"select", "execute", "leave"}
  \/ stage[c] = "dispatch" /\ pending[c].then \in {"select", "leave"}

\* The task has started its writer.
Spawned(c) ==
  \/ stage[c] \in {"select", "execute", "leave", "removed", "join", "done"}
  \/ stage[c] = "dispatch" /\ pending[c].then \in {"select", "leave", "join"}

\* What a task holds at each stage of its life.
Disciplined(c) ==
  /\ Outside(c) => sessions[c] = NoSession
  /\ stage[c] \notin {"new", "accepted"} => c \in registered
  /\ calls[c] # None => stage[c] = "execute"
  /\ c \in handles <=> Serving(c)
  /\ writer[c] # "none" => Spawned(c)
  /\ stage[c] = "done" => writer[c] \in {"none", "done"}
  /\ stage[c] = "dispatch" => pending[c] \in Pending

\* Every connection task holds what its stage says, and no dispatch outlives its stage.
Discipline ==
  /\ \A c \in ConnectionIds : Disciplined(c)
  /\ \A d \in Dispatchers : pending[d] # None => stage[d] = "dispatch"
  /\ stage[Maintenance] \in {"select", "dispatch", "done"}
  /\ stage[Maintenance] = "dispatch" => pending[Maintenance].then = "select"

ServerInv == ServerTypeOK /\ HeldHasFrames /\ SessionShape /\ CallsignIndexExact /\ Discipline
-----------------------------------------------------------------------------
\* A session that is gone stays so, unless the step registers its connection.
LEMMA GoneStays ==
  ASSUME TypeOK, SessionShape, Change, NEW c \in ConnectionIds, sessions[c] = NoSession,
         c \in registered \/ c \notin registered'
  PROVE  sessions'[c] = NoSession
<1>1. SessionShape'
  BY ShapeStep
<1>2. CASE c \notin registered'
  BY <1>1, <1>2 DEF SessionShape
<1>3. CASE c \in registered
  <2>1. sessions[c].phase = "Closed"
    BY DEF NoSession
  <2>2. sessions'[c].phase = "Closed"
    BY <1>3, <2>1, SessionsAdvance
  <2> QED
    BY <1>1, <2>2 DEF SessionShape
<1> QED
  BY <1>2, <1>3

\* A task that takes no part in a step keeps its discipline.
LEMMA BystanderDisciplined ==
  ASSUME NEW c \in ConnectionIds, Disciplined(c),
         stage'[c] = stage[c], calls'[c] = calls[c],
         pending'[c] = pending[c] \/ (pending'[c] \in Pending /\ pending'[c].then = pending[c].then),
         c \in handles' <=> c \in handles,
         writer'[c] = writer[c] \/ (writer[c] \notin {"none", "done"} /\ writer'[c] # "none"),
         registered \subseteq registered',
         sessions[c] = NoSession => sessions'[c] = NoSession
  PROVE  Disciplined(c)'
<1>1. /\ Outside(c)' <=> Outside(c)
      /\ Serving(c)' <=> Serving(c)
      /\ Spawned(c)' <=> Spawned(c)
  BY DEF Outside, Serving, Spawned
<1> QED
  BY <1>1 DEF Disciplined

\* What the operations of the core do to the suspended calls and to the spent ids.
LEMMA CoreFrame ==
  ASSUME TypeOK, NEW c \in ConnectionIds
  PROVE  /\ Execute(c) => UNCHANGED <<calls, registered>>
         /\ AsyncCall(c, c) =>
              UNCHANGED registered /\ \A e \in ConnectionIds \ {c} : calls'[e] = calls[e]
         /\ AsyncReturn(c) =>
              UNCHANGED registered /\ calls' = [calls EXCEPT ![c] = None]
         /\ disconnect(c) => UNCHANGED <<calls, registered>> /\ sessions'[c] = NoSession
         /\ \A dialect \in Listeners : register(c, dialect) =>
              /\ UNCHANGED calls /\ registered' = registered \cup {c} /\ c \notin registered
              /\ \A e \in ConnectionIds \ {c} : sessions'[e] = sessions[e]
<1>0. calls \in [ConnectionIds -> Call \cup {None}] /\ sessions \in [ConnectionIds -> Session]
  BY ServerAssumption DEF TypeOK
<1>1. ASSUME Execute(c) PROVE UNCHANGED <<calls, registered>>
  BY <1>1, Zenon DEF Execute, execute_rejected, logoff, update_position, file_flight_plan, route,
     query_flight_plan, kill, disconnect_locked
<1>2. ASSUME AsyncCall(c, c)
      PROVE  UNCHANGED registered /\ \A e \in ConnectionIds \ {c} : calls'[e] = calls[e]
  BY <1>0, <1>2 DEF AsyncCall, identify, login, weather_request, Suspend
<1>3. ASSUME AsyncReturn(c) PROVE UNCHANGED registered /\ calls' = [calls EXCEPT ![c] = None]
  BY <1>3 DEF AsyncReturn, identify_unauthorized, identify_authorized, login_unauthenticated,
     login_authenticated, weather_answered, Resume
<1>4. ASSUME disconnect(c) PROVE UNCHANGED <<calls, registered>> /\ sessions'[c] = NoSession
  BY <1>0, <1>4 DEF disconnect, disconnect_locked
<1>5. ASSUME NEW dialect \in Listeners, register(c, dialect)
      PROVE  /\ UNCHANGED calls /\ registered' = registered \cup {c} /\ c \notin registered
             /\ \A e \in ConnectionIds \ {c} : sessions'[e] = sessions[e]
  BY <1>0, <1>5 DEF register
<1> QED
  BY <1>1, <1>2, <1>3, <1>4, <1>5

\* A task touches nothing that belongs to another task.
LEMMA TaskFrame ==
  ASSUME TypeOK, TypeOK', TransportType, NEW c \in ConnectionIds, TaskStep(c)
  PROVE  /\ \A e \in Dispatchers \ {c} : stage'[e] = stage[e] /\ pending'[e] = pending[e]
         /\ \A e \in ConnectionIds \ {c} :
              /\ calls'[e] = calls[e] /\ writer'[e] = writer[e]
              /\ e \in handles' <=> e \in handles
         /\ registered \subseteq registered' /\ registered' \subseteq registered \cup {c}
<1>0. c \in Dispatchers /\ effects' \in Effects /\ StageType /\ PendingType
  BY DEF Dispatchers, TypeOK, TransportType
<1>1. \A e \in Dispatchers \ {c} : stage'[e] = stage[e]
  <2>1. \E from \in Stage, to \in Stage : Goto(c, from, to)
    <3>1. CASE accept(c) \/ refused(c) \/ token_cancelled(c) \/ peer_gone(c) \/ join_writer(c)
               \/ start_reading(c) \/ remove_handle(c)
      BY <3>1 DEF accept, refused, token_cancelled, peer_gone, join_writer, start_reading,
         remove_handle, Stage
    <3>2. CASE handshake_failed(c) \/ final_disconnect(c) \/ command_returned(c) \/ decode_failed(c)
      BY <3>2 DEF handshake_failed, final_disconnect, command_returned, decode_failed, Stage
    <3>3. CASE process_command(c) \/ register_connection(c)
      BY <3>3 DEF process_command, register_connection, Stage
    <3> QED
      BY <3>1, <3>2, <3>3 DEF TaskStep
  <2> QED
    BY <1>0, <2>1, GotoType
<1>2. \A e \in Dispatchers \ {c} : pending'[e] = pending[e]
  <2>1. \/ UNCHANGED pending
        \/ \E then \in {"select", "leave", "join", "done"} : begin_dispatch(c, then)
    <3>1. CASE accept(c) \/ refused(c) \/ token_cancelled(c) \/ peer_gone(c) \/ join_writer(c)
               \/ start_reading(c) \/ remove_handle(c) \/ register_connection(c)
      BY <3>1 DEF accept, refused, token_cancelled, peer_gone, join_writer, start_reading,
         remove_handle, register_connection
    <3>2. CASE handshake_failed(c) \/ final_disconnect(c) \/ command_returned(c) \/ decode_failed(c)
      BY <3>2 DEF handshake_failed, final_disconnect, command_returned, decode_failed
    <3>3. CASE process_command(c)
      BY <3>3 DEF process_command
    <3> QED
      BY <3>1, <3>2, <3>3 DEF TaskStep
  <2> QED
    BY <1>0, <2>1, BeginType
<1>3. \A e \in ConnectionIds \ {c} : writer'[e] = writer[e] /\ (e \in handles' <=> e \in handles)
  <2>1. CASE start_reading(c)
    BY <2>1 DEF start_reading, TransportType, WriterType
  <2>2. CASE remove_handle(c)
    BY <2>2 DEF remove_handle
  <2>3. CASE UNCHANGED transport
    BY <2>3 DEF transport
  <2>4. start_reading(c) \/ remove_handle(c) \/ UNCHANGED transport
    BY DEF TaskStep, accept, refused, token_cancelled, peer_gone, join_writer, register_connection,
       handshake_failed, final_disconnect, command_returned, decode_failed, process_command
  <2> QED
    BY <2>1, <2>2, <2>3, <2>4
<1>4. /\ \A e \in ConnectionIds \ {c} : calls'[e] = calls[e]
      /\ registered \subseteq registered' /\ registered' \subseteq registered \cup {c}
  <2>0. calls \in [ConnectionIds -> Call \cup {None}]
    BY ServerAssumption DEF TypeOK
  <2>1. CASE register_connection(c)
    BY <2>1, CoreFrame DEF register_connection
  <2>2. CASE handshake_failed(c) \/ final_disconnect(c)
    BY <2>2, CoreFrame DEF handshake_failed, final_disconnect
  <2>3. CASE process_command(c)
    BY <2>3, CoreFrame DEF process_command
  <2>4. CASE command_returned(c)
    BY <2>0, <2>4, CoreFrame DEF command_returned
  <2>5. CASE UNCHANGED network
    BY <2>5 DEF network
  <2> QED
    BY <2>1, <2>2, <2>3, <2>4, <2>5 DEF TaskStep, accept, refused, token_cancelled, peer_gone,
       join_writer, start_reading, remove_handle, decode_failed
<1> QED
  BY <1>1, <1>2, <1>3, <1>4

\* A task keeps its own discipline, step by step from its accept to its end.
LEMMA ActorDisciplined ==
  ASSUME TypeOK, TypeOK', Change, SessionShape, TransportType, NEW c \in ConnectionIds,
         Disciplined(c), TaskStep(c)
  PROVE  Disciplined(c)'
<1>0. /\ c \in Dispatchers /\ effects' \in Effects /\ StageType /\ PendingType
      /\ calls \in [ConnectionIds -> Call \cup {None}] /\ WriterType
  BY ServerAssumption DEF Dispatchers, TypeOK, TransportType
<1>1. ASSUME NEW from, NEW to \in Stage, Goto(c, from, to) PROVE stage[c] = from /\ stage'[c] = to
  BY <1>0, <1>1, GotoType
<1>2. ASSUME NEW then \in {"select", "leave", "join", "done"}, begin_dispatch(c, then)
      PROVE  pending'[c].then = then /\ (pending'[c] \in Pending)
  BY <1>0, <1>2, BeginType
<1>3. CASE accept(c)
  <2>1. /\ stage[c] = "new" /\ stage'[c] = "accepted"
        /\ UNCHANGED <<sessions, registered, calls, handles, writer>>
    BY <1>1, <1>3 DEF accept, network, transport, Stage
  <2> QED
    BY <2>1 DEF Disciplined, Outside, Serving, Spawned
<1>4. CASE register_connection(c)
  <2>1. /\ stage[c] = "accepted"
        /\ stage'[c] = (IF sessions'[c].phase = "Closed" THEN "refused" ELSE "handshake")
        /\ UNCHANGED <<calls, handles, writer>> /\ registered' = registered \cup {c}
    BY <1>1, <1>4, CoreFrame DEF register_connection, transport, Stage
  <2>2. SessionShape'
    BY ShapeStep
  <2>3. sessions'[c].phase = "Closed" => sessions'[c] = NoSession
    BY <2>2 DEF SessionShape
  <2> QED
    BY <2>1, <2>3 DEF Disciplined, Outside, Serving, Spawned
<1>5. CASE refused(c)
  <2>1. /\ stage[c] = "refused" /\ stage'[c] = "done"
        /\ UNCHANGED <<sessions, registered, calls, handles, writer>>
    BY <1>1, <1>5 DEF refused, network, transport, Stage
  <2> QED
    BY <2>1 DEF Disciplined, Outside, Serving, Spawned
<1>6. CASE start_reading(c)
  <2>1. /\ stage[c] = "handshake" /\ stage'[c] = "select"
        /\ handles' = handles \cup {c} /\ writer'[c] = "idle"
        /\ UNCHANGED <<sessions, registered, calls>>
    BY <1>0, <1>1, <1>6 DEF start_reading, network, Stage, WriterType
  <2> QED
    BY <2>1 DEF Disciplined, Outside, Serving, Spawned
<1>7. CASE handshake_failed(c)
  <2>1. /\ stage[c] = "handshake" /\ stage'[c] = "dispatch" /\ pending'[c].then = "done"
        /\ pending'[c] \in Pending
        /\ UNCHANGED <<registered, calls, handles, writer>> /\ sessions'[c] = NoSession
    BY <1>1, <1>2, <1>7, CoreFrame DEF handshake_failed, transport, Stage
  <2> QED
    BY <2>1 DEF Disciplined, Outside, Serving, Spawned
<1>8. CASE process_command(c)
  <2>1. UNCHANGED <<registered, handles, writer>> /\ stage[c] = "select"
    BY <1>8, CoreFrame DEF process_command, transport
  <2>2. CASE calls'[c] = None /\ Goto(c, "select", "dispatch") /\ begin_dispatch(c, "select")
    <3>1. stage'[c] = "dispatch" /\ pending'[c].then = "select" /\ pending'[c] \in Pending
      BY <1>1, <1>2, <2>2 DEF Stage
    <3> QED
      BY <2>1, <2>2, <3>1 DEF Disciplined, Outside, Serving, Spawned
  <2>3. CASE calls'[c] # None /\ Goto(c, "select", "execute")
    <3>1. stage'[c] = "execute"
      BY <1>1, <2>3 DEF Stage
    <3> QED
      BY <2>1, <3>1 DEF Disciplined, Outside, Serving, Spawned
  <2> QED
    BY <1>8, <2>2, <2>3 DEF process_command
<1>9. CASE command_returned(c)
  <2>1. /\ stage[c] = "execute" /\ stage'[c] = "dispatch" /\ pending'[c].then = "select"
        /\ pending'[c] \in Pending
        /\ UNCHANGED <<registered, handles, writer>> /\ calls'[c] = None
    BY <1>0, <1>1, <1>2, <1>9, CoreFrame DEF command_returned, transport, Stage
  <2> QED
    BY <2>1 DEF Disciplined, Outside, Serving, Spawned
<1>10. CASE decode_failed(c)
  <2>1. /\ stage[c] = "select" /\ stage'[c] = "dispatch" /\ pending'[c].then \in {"select", "leave"}
        /\ pending'[c] \in Pending
        /\ UNCHANGED <<sessions, registered, calls, handles, writer>>
    BY <1>1, <1>2, <1>10 DEF decode_failed, network, transport, Stage
  <2> QED
    BY <2>1 DEF Disciplined, Outside, Serving, Spawned
<1>11. CASE token_cancelled(c) \/ peer_gone(c)
  <2>1. /\ stage[c] = "select" /\ stage'[c] = "leave"
        /\ UNCHANGED <<sessions, registered, calls, handles, writer>>
    BY <1>1, <1>11 DEF token_cancelled, peer_gone, network, transport, Stage
  <2> QED
    BY <2>1 DEF Disciplined, Outside, Serving, Spawned
<1>12. CASE remove_handle(c)
  <2>1. /\ stage[c] = "leave" /\ stage'[c] = "removed" /\ handles' = handles \ {c}
        /\ UNCHANGED <<sessions, registered, calls, writer>>
    BY <1>1, <1>12 DEF remove_handle, network, Stage
  <2> QED
    BY <2>1 DEF Disciplined, Outside, Serving, Spawned
<1>13. CASE final_disconnect(c)
  <2>1. /\ stage[c] = "removed" /\ stage'[c] = "dispatch" /\ pending'[c].then = "join"
        /\ pending'[c] \in Pending
        /\ UNCHANGED <<registered, calls, handles, writer>> /\ sessions'[c] = NoSession
    BY <1>1, <1>2, <1>13, CoreFrame DEF final_disconnect, transport, Stage
  <2> QED
    BY <2>1 DEF Disciplined, Outside, Serving, Spawned
<1>14. CASE join_writer(c)
  <2>1. /\ stage[c] = "join" /\ stage'[c] = "done" /\ writer[c] = "done"
        /\ UNCHANGED <<sessions, registered, calls, handles, writer>>
    BY <1>1, <1>14 DEF join_writer, network, transport, Stage
  <2> QED
    BY <2>1 DEF Disciplined, Outside, Serving, Spawned
<1> QED
  BY <1>3, <1>4, <1>5, <1>6, <1>7, <1>8, <1>9, <1>10, <1>11, <1>12, <1>13, <1>14 DEF TaskStep

\* Discipline is kept by every step, of whichever task.
LEMMA DisciplineStep ==
  ASSUME ServerInv, [ServerNext]_serverVars
  PROVE  Discipline'
<1>0. /\ TypeOK /\ TransportType /\ HeldHasFrames /\ SessionShape /\ Discipline
      /\ TypeOK' /\ Change
  BY ServerTypeParts, ServerCore DEF ServerInv
<1>8. StageType /\ PendingType /\ WriterType /\ handles \subseteq ConnectionIds
      /\ Maintenance \in Dispatchers /\ ConnectionIds \subseteq Dispatchers
      /\ Maintenance \notin ConnectionIds
  BY <1>0, ServerAssumption DEF TransportType, Dispatchers
<1>1. ASSUME NEW c \in ConnectionIds, TaskStep(c) PROVE Discipline'
  <2>0. /\ \A e \in Dispatchers \ {c} : stage'[e] = stage[e] /\ pending'[e] = pending[e]
        /\ \A e \in ConnectionIds \ {c} :
             /\ calls'[e] = calls[e] /\ writer'[e] = writer[e]
             /\ e \in handles' <=> e \in handles
        /\ registered \subseteq registered' /\ registered' \subseteq registered \cup {c}
    BY <1>0, <1>1, TaskFrame
  <2>1. ASSUME NEW e \in ConnectionIds \ {c} PROVE Disciplined(e)'
    <3>1. sessions[e] = NoSession => sessions'[e] = NoSession
      BY <1>0, <2>0, GoneStays
    <3> QED
      BY <1>0, <1>8, <2>0, <3>1, BystanderDisciplined DEF Discipline
  <2>2. Disciplined(c)'
    BY <1>0, <1>1, ActorDisciplined DEF Discipline
  <2>3. pending'[c] # None => stage'[c] = "dispatch"
    <3>1. CASE UNCHANGED pending
      <4>1. stage[c] # "dispatch"
        BY <1>1, <3>1 DEF TaskStep, accept, register_connection, refused, start_reading,
           handshake_failed, process_command, command_returned, decode_failed, token_cancelled,
           peer_gone, remove_handle, final_disconnect, join_writer, Goto
      <4> QED
        BY <1>0, <1>8, <3>1, <4>1 DEF Discipline
    <3>2. CASE \E from : Goto(c, from, "dispatch")
      BY <1>8, <3>2, GotoType DEF Stage
    <3> QED
      BY <1>1, <3>1, <3>2 DEF TaskStep, accept, register_connection, refused, start_reading,
         handshake_failed, process_command, command_returned, decode_failed, token_cancelled,
         peer_gone, remove_handle, final_disconnect, join_writer
  <2> QED
    BY <1>0, <1>8, <2>0, <2>1, <2>2, <2>3 DEF Discipline
<1>2. ASSUME NEW c \in ConnectionIds, WriterTaskStep(c) PROVE Discipline'
  <2>0. /\ UNCHANGED <<network, handles, stage, pending>>
        /\ writer[c] \in {"idle", "sending", "closing"} /\ writer'[c] # "none"
        /\ \A e \in ConnectionIds \ {c} : writer'[e] = writer[e]
    BY <1>2, <1>8 DEF WriterTaskStep, writer_recv, writer_sent, writer_failed, writer_closed,
       writer_drained, writer_return, WriterStep, WriterType
  <2>1. ASSUME NEW e \in ConnectionIds PROVE Disciplined(e)'
    BY <1>0, <2>0, BystanderDisciplined DEF Discipline, network
  <2> QED
    BY <1>0, <2>0, <2>1 DEF Discipline
<1>3. ASSUME NEW d \in Dispatchers, dispatch_lookup(d) \/ dispatch_send(d) PROVE Discipline'
  <2>0. /\ UNCHANGED <<network, handles, writer, stage>> /\ stage[d] = "dispatch"
    BY <1>3 DEF dispatch_lookup, dispatch_send, Dispatching, transport
  <2>1. /\ pending' = [pending EXCEPT ![d] = pending'[d]]
        /\ pending'[d] \in Pending /\ pending'[d].then = pending[d].then
    BY <1>0, <1>3, LookupStep, SendStep
  <2>2. \A e \in Dispatchers \ {d} : pending'[e] = pending[e]
    BY <1>8, <2>1 DEF PendingType
  <2>3. ASSUME NEW e \in ConnectionIds PROVE Disciplined(e)'
    BY <1>0, <1>8, <2>0, <2>1, <2>2, BystanderDisciplined DEF Discipline, network
  <2> QED
    BY <1>0, <1>8, <2>0, <2>1, <2>2, <2>3 DEF Discipline
<1>4. ASSUME NEW d \in Dispatchers, dispatch_finish(d) PROVE Discipline'
  <2>0. /\ UNCHANGED <<network, handles, writer>> /\ pending[d] \in Pending
        /\ pending' = [pending EXCEPT ![d] = None] /\ Goto(d, "dispatch", pending[d].then)
    BY <1>4, <1>8 DEF dispatch_finish, Dispatching, PendingType
  <2>1. pending[d].then \in {"select", "leave", "join", "done"}
    BY <2>0 DEF Pending
  <2>2. /\ stage[d] = "dispatch" /\ stage'[d] = pending[d].then
        /\ \A e \in Dispatchers \ {d} : stage'[e] = stage[e]
    BY <1>8, <2>0, <2>1, GotoType DEF Stage
  <2>3. pending'[d] = None /\ \A e \in Dispatchers \ {d} : pending'[e] = pending[e]
    BY <1>8, <2>0 DEF PendingType
  <2>4. ASSUME NEW e \in ConnectionIds \ {d} PROVE Disciplined(e)'
    BY <1>0, <1>8, <2>0, <2>2, <2>3, BystanderDisciplined DEF Discipline, network
  <2>5. ASSUME d \in ConnectionIds PROVE Disciplined(d)'
    <3>1. Disciplined(d)
      BY <1>0, <2>5 DEF Discipline
    <3>2. /\ Outside(d)' <=> Outside(d)
          /\ Serving(d)' <=> Serving(d)
          /\ Spawned(d)' => Spawned(d) \/ stage'[d] = "done"
          /\ Spawned(d) => Spawned(d)'
      BY <2>1, <2>2 DEF Outside, Serving, Spawned
    <3>3. stage'[d] = "done" => writer[d] = "none"
      BY <2>2, <3>1 DEF Disciplined, Spawned
    <3> QED
      BY <2>0, <2>1, <2>2, <3>1, <3>2, <3>3 DEF Disciplined, network
  <2>6. d = Maintenance => stage'[Maintenance] = "select"
    BY <1>0, <2>2 DEF Discipline
  <2> QED
    BY <1>0, <1>8, <2>2, <2>3, <2>4, <2>5, <2>6 DEF Discipline
<1>5. CASE maintenance_tick
  <2>0. effects' \in Effects
    BY <1>0 DEF TypeOK
  <2>1. /\ stage'[Maintenance] = "dispatch"
        /\ \A e \in Dispatchers \ {Maintenance} : stage'[e] = stage[e]
    BY <1>5, <1>8, GotoType DEF maintenance_tick, Stage
  <2>2. /\ pending'[Maintenance].then = "select"
        /\ \A e \in Dispatchers \ {Maintenance} : pending'[e] = pending[e]
    BY <1>5, <1>8, <2>0, BeginType DEF maintenance_tick
  <2>3. UNCHANGED <<sessions, registered, calls, handles, writer>>
    BY <1>5 DEF maintenance_tick, broadcast, transport
  <2>4. ASSUME NEW e \in ConnectionIds PROVE Disciplined(e)'
    BY <1>0, <1>8, <2>1, <2>2, <2>3, BystanderDisciplined DEF Discipline
  <2> QED
    BY <1>0, <2>1, <2>2, <2>4 DEF Discipline
<1>6. CASE maintenance_stops
  <2>1. /\ stage[Maintenance] = "select" /\ stage'[Maintenance] = "done"
        /\ \A e \in Dispatchers \ {Maintenance} : stage'[e] = stage[e]
    BY <1>6, <1>8, GotoType DEF maintenance_stops, Stage
  <2>2. UNCHANGED <<sessions, registered, calls, handles, writer, pending>>
    BY <1>6 DEF maintenance_stops, network, transport
  <2>3. ASSUME NEW e \in ConnectionIds PROVE Disciplined(e)'
    BY <1>0, <1>8, <2>1, <2>2, BystanderDisciplined DEF Discipline
  <2> QED
    BY <1>0, <1>8, <2>1, <2>2, <2>3 DEF Discipline
<1>7. CASE stop_listening \/ begin_shutdown \/ UNCHANGED serverVars
  <2>1. UNCHANGED <<sessions, registered, calls, handles, writer, pending, stage>>
    BY <1>7 DEF stop_listening, begin_shutdown, serverVars, network, transport, vars
  <2>2. ASSUME NEW e \in ConnectionIds PROVE Disciplined(e)'
    BY <1>0, <2>1, BystanderDisciplined DEF Discipline
  <2> QED
    BY <1>0, <2>1, <2>2 DEF Discipline
<1> QED
  BY <1>1, <1>2, <1>3, <1>4, <1>5, <1>6, <1>7 DEF ServerNext, DispatchStep, stopped
-----------------------------------------------------------------------------
(***************************************************************************)
(* Theorems.                                                               *)
(***************************************************************************)
\* The inductive invariant of the server: types, the two indexes of the core, and the
\* discipline of every task.
THEOREM ServerInvHolds == ServerSafety => []ServerInv
<1>1. ServerInit => ServerInv
  <2> SUFFICES ASSUME ServerInit PROVE ServerInv
    OBVIOUS
  <2>1. Init /\ TypeOK
    BY InitType DEF ServerInit
  <2>2. /\ sessions = [c \in ConnectionIds |-> NoSession] /\ calls = [c \in ConnectionIds |-> None]
        /\ callsigns = [cs \in Callsigns |-> None]
    BY <2>1, ServerAssumption DEF Init
  <2>3. SessionShape
    BY <2>2 DEF SessionShape, NoSession
  <2>4. CallsignIndexExact
    BY <2>2, NoneAssumption DEF CallsignIndexExact, NoSession
  <2>5. TransportType
    <3>1. <<>> \in Seq(Outbound) /\ Len(<<>>) <= MailboxCapacity
      BY ServerAssumption
    <3> QED
      BY <3>1 DEF ServerInit, TransportType, StageType, Stage, PendingType, MailboxType,
         CancelledType, WriterType
  <2>6. HeldHasFrames
    BY DEF ServerInit, HeldHasFrames
  <2>7. Discipline
    <3>1. ASSUME NEW c \in ConnectionIds PROVE Disciplined(c)
      <4>1. /\ stage[c] = "new" /\ c \notin handles /\ writer[c] = "none"
        BY ServerAssumption DEF ServerInit, Dispatchers
      <4> QED
        BY <2>2, <4>1 DEF Disciplined, Outside, Serving, Spawned
    <3> QED
      BY <3>1 DEF ServerInit, Discipline, Dispatchers
  <2> QED
    BY <2>1, <2>3, <2>4, <2>5, <2>6, <2>7, ServerTypeParts DEF ServerInv
<1>2. ServerInv /\ [ServerNext]_serverVars => ServerInv'
  <2> SUFFICES ASSUME ServerInv, [ServerNext]_serverVars PROVE ServerInv'
    OBVIOUS
  <2>1. TypeOK /\ Change
    BY ServerTypeParts, ServerCore DEF ServerInv
  <2>2. ServerTypeOK' /\ HeldHasFrames'
    BY ServerTypeStep DEF ServerInv
  <2>3. SessionShape' /\ CallsignIndexExact'
    BY <2>1, ShapeStep, IndexStep DEF ServerInv
  <2> QED
    BY <2>2, <2>3, DisciplineStep DEF ServerInv
<1> QED
  BY <1>1, <1>2, PTL DEF ServerSafety

\* Every variable of the server keeps its type, and no mailbox ever holds more than its
\* capacity, for every capacity and however the dispatches interleave.
THEOREM ServerTypeCorrect == ServerSafety => []ServerTypeOK
<1>1. ServerInv => ServerTypeOK
  BY DEF ServerInv
<1> QED
  BY <1>1, ServerInvHolds, PTL

\* A connection task that has ended, in whichever way, has left no session, callsign,
\* suspended call, handle or running writer behind.
THEOREM NothingLeftBehind == ServerSafety => []NoOrphan
<1>1. ServerInv => NoOrphan
  <2> SUFFICES ASSUME ServerInv, NEW c \in ConnectionIds, stage[c] = "done"
               PROVE  /\ sessions[c] = NoSession
                      /\ \A cs \in Callsigns : callsigns[cs] # c
                      /\ calls[c] = None
                      /\ c \notin handles
                      /\ writer[c] \in {"none", "done"}
    BY DEF NoOrphan
  <2>1. Disciplined(c) /\ CallsignIndexExact
    BY DEF ServerInv, Discipline
  <2>2. sessions[c] = NoSession
    BY <2>1 DEF Disciplined, Outside
  <2>3. \A cs \in Callsigns : callsigns[cs] # c
    BY <2>1, <2>2 DEF CallsignIndexExact, NoSession
  <2> QED
    BY <2>1, <2>2, <2>3 DEF Disciplined, Serving
<1> QED
  BY <1>1, ServerInvHolds, PTL

\* A connection is cancelled only for its own sake: its mailbox is full, its writer is done,
\* it is leaving, or frames meant for it cannot be encoded.
THEOREM CancelsOnlyTheSlow == ServerSafety => OnlyTheSlowIsCancelled
<1>1. ServerInv /\ [ServerNext]_serverVars =>
        \A c \in ConnectionIds :
          ~ cancelled[c] /\ cancelled'[c] =>
            \/ Len(mailbox[c]) = MailboxCapacity
            \/ writer'[c] = "done"
            \/ stage'[c] = "join"
            \/ \E d \in Dispatchers :
                 pending[d] # None /\ pending[d].held = c /\ pending[d].frames \in Unencodable
  <2> SUFFICES ASSUME ServerInv, [ServerNext]_serverVars, NEW c \in ConnectionIds,
                      ~ cancelled[c], cancelled'[c], writer'[c] # "done", stage'[c] # "join",
                      Len(mailbox[c]) # MailboxCapacity
               PROVE  \E d \in Dispatchers :
                        pending[d] # None /\ pending[d].held = c /\ pending[d].frames \in Unencodable
    OBVIOUS
  <2>1. TransportType /\ HeldHasFrames /\ CancelledType /\ MailboxType /\ WriterType
    BY ServerTypeParts DEF ServerInv, TransportType
  <2>2. Len(mailbox[c]) < MailboxCapacity
    BY <2>1, ServerAssumption DEF MailboxType
  <2>3. ASSUME NEW r \in ConnectionIds, NEW message, NEW encoded, post(r, message, encoded),
               UNCHANGED writer
        PROVE  r = c /\ ~ encoded
    <3>1. ~ (encoded /\ HasRoom(r)) /\ cancelled' = [cancelled EXCEPT ![r] = TRUE]
      BY <2>3 DEF post
    <3>2. r = c
      BY <2>1, <3>1 DEF CancelledType
    <3> QED
      BY <2>2, <2>3, <3>1, <3>2 DEF HasRoom
  <2>4. ASSUME NEW d \in Dispatchers, dispatch_send(d)
        PROVE  pending[d] # None /\ pending[d].held = c /\ pending[d].frames \in Unencodable
    BY <2>1, <2>3, <2>4, SendStep DEF dispatch_send, Dispatching
  <2>5. ASSUME NEW d \in Dispatchers, dispatch_finish(d) PROVE FALSE
    <3>1. CASE pending[d].close \in handles /\ post(pending[d].close, Close, TRUE)
      BY <2>1, <2>3, <2>5, <3>1 DEF dispatch_finish, TransportType
    <3>2. CASE cancelled' = IF pending[d].then = "join" THEN [cancelled EXCEPT ![d] = TRUE]
                            ELSE cancelled
      <4>1. pending[d].then = "join" /\ d = c
        BY <2>1, <3>2 DEF CancelledType
      <4>2. stage' = [stage EXCEPT ![d] = "join"]
        BY <2>5, <4>1 DEF dispatch_finish, Goto
      <4> QED
        BY <2>1, <4>1, <4>2 DEF TransportType, StageType
    <3> QED
      BY <2>5, <3>1, <3>2 DEF dispatch_finish
  <2>6. ASSUME NEW r \in ConnectionIds, WriterTaskStep(r) PROVE FALSE
    <3>1. /\ writer' = [writer EXCEPT ![r] = "done"]
          /\ cancelled' = [cancelled EXCEPT ![r] = TRUE]
      BY <2>6 DEF WriterTaskStep, writer_recv, writer_sent, writer_failed, writer_closed,
         writer_drained, writer_return, WriterStep
    <3> QED
      BY <2>1, <3>1 DEF CancelledType, WriterType
  <2>7. ASSUME NEW r \in ConnectionIds, TaskStep(r) PROVE UNCHANGED cancelled
    BY <2>7 DEF TaskStep, accept, register_connection, refused, start_reading, handshake_failed,
       process_command, command_returned, decode_failed, token_cancelled, peer_gone, remove_handle,
       final_disconnect, join_writer, transport
  <2>8. ASSUME NEW d \in Dispatchers, dispatch_lookup(d) PROVE UNCHANGED cancelled
    BY <2>8 DEF dispatch_lookup, transport
  <2>9. ASSUME maintenance_tick \/ maintenance_stops \/ stop_listening \/ begin_shutdown
               \/ UNCHANGED serverVars
        PROVE  UNCHANGED cancelled
    BY <2>9 DEF maintenance_tick, maintenance_stops, stop_listening, begin_shutdown, serverVars,
       transport
  <2> QED
    BY <2>4, <2>5, <2>6, <2>7, <2>8, <2>9 DEF ServerNext, DispatchStep, stopped
<1> QED
  BY <1>1, ServerInvHolds, PTL DEF ServerSafety, OnlyTheSlowIsCancelled
-----------------------------------------------------------------------------
(***************************************************************************)
(* The server implements Supervisor.                                       *)
(***************************************************************************)
\* What the owner sees of a connection task, of its writer and of the wind-delta task.
TaskSeen(s) == IF s = "new" THEN "none" ELSE IF s = "done" THEN "ended" ELSE "running"
WriterSeen(w) == IF w \in {"none", "done"} THEN w ELSE "running"
TasksSeen == [c \in ConnectionIds |-> TaskSeen(stage[c])]
WritersSeen == [c \in ConnectionIds |-> WriterSeen(writer[c])]
MaintenanceSeen == IF stage[Maintenance] = "done" THEN "ended" ELSE "running"

\* Only register adds a session; every other change keeps all of them but one.
LEMMA LiveLoses ==
  ASSUME TypeOK, SessionShape, Change, UNCHANGED registered
  PROVE  live' = live \/ \E c \in live : live' = live \ {c}
<1>0. sessions \in [ConnectionIds -> Session]
  BY DEF TypeOK
<1>1. ASSUME NEW c \in ConnectionIds, Opened(c) PROVE FALSE
  BY <1>1 DEF Opened
<1>2. ASSUME NEW c \in ConnectionIds, Removed(c) PROVE live' = live \ {c}
  BY <1>0, <1>2 DEF Removed, live, NoSession
<1>3. ASSUME NEW c \in ConnectionIds, NEW command \in Identification, Identified(c, command)
      PROVE  live' = live
  BY <1>0, <1>3 DEF Identified, live, Session
<1>4. ASSUME NEW c \in ConnectionIds, NEW command \in LoginCommand, NEW g \in Nat,
             Activated(c, command, g)
      PROVE  live' = live
  <2>1. /\ sessions[c].phase \in {"Connected", "Identified"}
        /\ \A d \in ConnectionIds \ {c} : sessions'[d] = sessions[d]
    BY <1>4, ActivatedFields
  <2>2. sessions'[c].phase = "Active"
    BY <1>0, <1>4 DEF Activated, Session
  <2> QED
    BY <2>1, <2>2 DEF live
<1>5. ASSUME NEW c \in ConnectionIds,
             \/ \E position \in Position : Positioned(c, position)
             \/ \E plan \in FlightPlan : Filed(c, plan)
      PROVE  live' = live
  BY <1>0, <1>5 DEF Positioned, Filed, live, Session
<1>6. CASE UNCHANGED <<sessions, callsigns, registered>>
  BY <1>6 DEF live
<1> QED
  BY <1>1, <1>2, <1>3, <1>4, <1>5, <1>6 DEF Change

\* One step of the server is one step of Supervisor, or none.
LEMMA SupervisedStep ==
  ASSUME ServerInv, [ServerNext]_serverVars
  PROVE  [Ownership!Next]_(Ownership!vars)
<1>0. /\ TypeOK /\ TransportType /\ SessionShape /\ Discipline /\ TypeOK' /\ Change
      /\ StageType /\ WriterType /\ PendingType
  BY ServerTypeParts, ServerCore DEF ServerInv, TransportType
<1>1. /\ Maintenance \in Dispatchers /\ ConnectionIds \subseteq Dispatchers
      /\ Maintenance \notin ConnectionIds
  BY ServerAssumption DEF Dispatchers
<1> DEFINE Still == UNCHANGED <<shutdown, listening, TasksSeen, WritersSeen, MaintenanceSeen>>
<1>2. ASSUME Still, live' = live PROVE UNCHANGED Ownership!vars
  BY <1>2 DEF Ownership!vars, Ownership!tasks, TasksSeen, WritersSeen, MaintenanceSeen, TaskSeen,
     WriterSeen, live
<1>3. ASSUME Still, NEW c \in live, live' = live \ {c} PROVE Ownership!disconnect(c)
  BY <1>3 DEF Ownership!disconnect, TasksSeen, WritersSeen, MaintenanceSeen, TaskSeen,
     WriterSeen, live
<1> DEFINE Middle == Stage \ {"new", "done"}
           Stutter == UNCHANGED Ownership!vars
<1>4. ASSUME NEW d \in Dispatchers, NEW from \in Middle, NEW to \in Middle, Goto(d, from, to)
      PROVE  UNCHANGED <<TasksSeen, MaintenanceSeen>>
  <2>1. /\ stage[d] = from /\ stage'[d] = to
        /\ \A e \in Dispatchers \ {d} : stage'[e] = stage[e]
    BY <1>0, <1>4, GotoType
  <2>2. \A e \in Dispatchers :
          /\ stage'[e] = "new" <=> stage[e] = "new"
          /\ stage'[e] = "done" <=> stage[e] = "done"
    BY <1>4, <2>1
  <2> QED
    BY <1>1, <2>2 DEF TasksSeen, MaintenanceSeen, TaskSeen
<1>5. UNCHANGED network => live' = live
  BY DEF network, live
<1>6. ASSUME NEW c \in ConnectionIds, accept(c) PROVE Ownership!accept("accept_loop", c)
  <2>1. /\ listening /\ stage[c] = "new" /\ stage' = [stage EXCEPT ![c] = "accepted"]
        /\ UNCHANGED <<network, writer, listening, shutdown>>
    BY <1>6 DEF accept, Goto, transport
  <2>2. stage'[c] = "accepted" /\ \A e \in Dispatchers \ {c} : stage'[e] = stage[e]
    BY <1>0, <1>1, <2>1 DEF StageType
  <2> QED
    BY <1>1, <1>5, <2>1, <2>2 DEF Ownership!accept, Ownership!Of, live
<1>7. ASSUME NEW c \in ConnectionIds, register_connection(c)
      PROVE  Ownership!register_connection(c) \/ Stutter
  <2>1. PICK dialect \in Listeners : register(c, dialect)
    BY <1>7 DEF register_connection
  <2>2. sessions[c] = NoSession /\ stage[c] = "accepted"
    BY <1>0, <1>7 DEF register_connection, Goto, Discipline, Disciplined, Outside
  <2>3. \A e \in ConnectionIds \ {c} : sessions'[e] = sessions[e]
    BY <1>0, <2>1, CoreFrame
  <2>4. UNCHANGED <<TasksSeen, MaintenanceSeen>>
    BY <1>1, <1>4, <1>7 DEF register_connection, Stage
  <2>5. Still
    BY <1>7, <2>4 DEF register_connection, transport, WritersSeen
  <2>6. CASE sessions'[c].phase = "Closed"
    <3>1. live' = live
      BY <2>2, <2>3, <2>6 DEF live, NoSession
    <3> QED
      BY <1>2, <2>5, <3>1
  <2>7. CASE sessions'[c].phase # "Closed"
    <3>1. live' = live \cup {c} /\ c \notin live
      BY <2>2, <2>3, <2>7 DEF live, NoSession
    <3> QED
      BY <2>2, <2>5, <3>1 DEF Ownership!register_connection, Ownership!Running, TasksSeen,
         WritersSeen, MaintenanceSeen, TaskSeen, WriterSeen, live
  <2> QED
    BY <2>6, <2>7
<1>8. ASSUME NEW c \in ConnectionIds, start_reading(c) PROVE Ownership!spawn_writer(c)
  <2>1. /\ stage[c] = "handshake" /\ writer' = [writer EXCEPT ![c] = "idle"]
        /\ UNCHANGED <<network, listening, shutdown>>
    BY <1>8 DEF start_reading, Goto
  <2>2. writer[c] = "none"
    BY <1>0, <2>1 DEF Discipline, Disciplined, Spawned
  <2>3. writer'[c] = "idle" /\ \A e \in ConnectionIds \ {c} : writer'[e] = writer[e]
    BY <1>0, <2>1 DEF WriterType
  <2>4. UNCHANGED <<TasksSeen, MaintenanceSeen>>
    BY <1>1, <1>4, <1>8 DEF start_reading, Stage
  <2> QED
    BY <1>5, <2>1, <2>2, <2>3, <2>4, ZenonT(60) DEF Ownership!spawn_writer, Ownership!Running, TasksSeen,
       MaintenanceSeen, TaskSeen, live
<1>9. ASSUME NEW c \in ConnectionIds,
             handshake_failed(c) \/ final_disconnect(c) \/ process_command(c) \/ command_returned(c)
      PROVE  Stutter \/ \E e \in ConnectionIds : Ownership!disconnect(e)
  <2>1. UNCHANGED registered
    BY <1>0, <1>9, CoreFrame DEF handshake_failed, final_disconnect, process_command,
       command_returned
  <2>2. live' = live \/ \E e \in live : live' = live \ {e}
    BY <1>0, <2>1, LiveLoses
  <2>3. \E from, to \in Middle : Goto(c, from, to)
    BY <1>9 DEF handshake_failed, final_disconnect, process_command, command_returned, Stage
  <2>4. Still
    BY <1>1, <1>4, <1>9, <2>3 DEF handshake_failed, final_disconnect, process_command,
       command_returned, transport, WritersSeen
  <2>5. live \subseteq ConnectionIds
    BY DEF live
  <2> HIDE DEF Still, Stutter
  <2> QED
    BY <1>2, <1>3, <2>2, <2>4, <2>5 DEF Stutter
<1>10. ASSUME NEW c \in ConnectionIds,
              decode_failed(c) \/ token_cancelled(c) \/ peer_gone(c) \/ remove_handle(c)
       PROVE  Stutter
  <2>1. \E from, to \in Middle : Goto(c, from, to)
    BY <1>10 DEF decode_failed, token_cancelled, peer_gone, remove_handle, Stage
  <2>2. /\ UNCHANGED <<TasksSeen, MaintenanceSeen>>
        /\ UNCHANGED <<network, writer, listening, shutdown>>
    BY <1>1, <1>4, <1>10, <2>1 DEF decode_failed, token_cancelled, peer_gone, remove_handle,
       transport
  <2> QED
    BY <1>2, <1>5, <2>2 DEF WritersSeen
<1>11. ASSUME NEW c \in ConnectionIds, stage[c] \notin {"new", "done"}, Outside(c),
              stage' = [stage EXCEPT ![c] = "done"], writer[c] \in {"none", "done"},
              UNCHANGED <<network, writer, listening, shutdown>>
       PROVE  Ownership!connection_ended(c)
  <2>1. sessions[c].phase = "Closed"
    BY <1>0, <1>11 DEF Discipline, Disciplined, NoSession
  <2>2. stage'[c] = "done" /\ \A e \in Dispatchers \ {c} : stage'[e] = stage[e]
    BY <1>0, <1>1, <1>11 DEF StageType
  <2> QED
    BY <1>1, <1>5, <1>11, <2>1, <2>2 DEF Ownership!connection_ended, Ownership!Running, live
<1>12. ASSUME NEW c \in ConnectionIds, refused(c) \/ join_writer(c)
       PROVE  Ownership!connection_ended(c)
  <2>1. stage[c] = "refused" => writer[c] = "none"
    BY <1>0 DEF Discipline, Disciplined, Spawned
  <2> QED
    BY <1>11, <1>12, <2>1 DEF refused, join_writer, Goto, Outside, transport
<1>13. ASSUME NEW d \in Dispatchers, DispatchStep(d)
       PROVE  Stutter \/ \E c \in ConnectionIds : Ownership!connection_ended(c)
  <2>1. /\ stage[d] = "dispatch" /\ pending[d] \in Pending
        /\ UNCHANGED <<network, writer, listening, shutdown>>
    BY <1>0, <1>13 DEF DispatchStep, dispatch_lookup, dispatch_send, dispatch_finish, Dispatching,
       transport, PendingType
  <2>2. pending[d].then \in {"select", "leave", "join", "done"}
    BY <2>1 DEF Pending
  <2>3. CASE UNCHANGED stage
    BY <1>2, <1>5, <2>1, <2>3 DEF TasksSeen, WritersSeen, MaintenanceSeen
  <2>4. CASE Goto(d, "dispatch", pending[d].then) /\ pending[d].then # "done"
    <3>1. pending[d].then \in Middle /\ "dispatch" \in Middle
      BY <2>2, <2>4 DEF Stage
    <3>2. UNCHANGED <<TasksSeen, MaintenanceSeen>>
      BY <1>4, <2>4, <3>1
    <3> QED
      BY <1>2, <1>5, <2>1, <3>2 DEF WritersSeen
  <2>5. CASE Goto(d, "dispatch", pending[d].then) /\ pending[d].then = "done"
    <3>1. d \in ConnectionIds
      BY <1>0, <2>1, <2>5 DEF Discipline, Dispatchers
    <3>2. writer[d] = "none"
      BY <1>0, <2>1, <2>5, <3>1 DEF Discipline, Disciplined, Spawned
    <3>3. Ownership!connection_ended(d)
      BY <1>11, <2>1, <2>5, <3>1, <3>2 DEF Goto, Outside
    <3> QED
      BY <3>1, <3>3
  <2> QED
    BY <1>13, <2>3, <2>4, <2>5 DEF DispatchStep, dispatch_lookup, dispatch_send, dispatch_finish
<1>14. ASSUME NEW c \in ConnectionIds, WriterTaskStep(c) PROVE Stutter \/ Ownership!writer_ended(c)
  <2>1. UNCHANGED <<network, stage, listening, shutdown>>
    BY <1>14 DEF WriterTaskStep, writer_recv, writer_sent, writer_failed, writer_closed,
       writer_drained, writer_return, WriterStep
  <2>2. \E to \in {"idle", "sending", "closing", "done"} :
          writer[c] \in {"idle", "sending", "closing"} /\ writer' = [writer EXCEPT ![c] = to]
    BY <1>14 DEF WriterTaskStep, writer_recv, writer_sent, writer_failed, writer_closed,
       writer_drained, writer_return, WriterStep
  <2>3. PICK to \in {"idle", "sending", "closing", "done"} :
          writer[c] \in {"idle", "sending", "closing"} /\ writer' = [writer EXCEPT ![c] = to]
    BY <2>2
  <2>4. writer'[c] = to /\ \A e \in ConnectionIds \ {c} : writer'[e] = writer[e]
    BY <1>0, <2>3 DEF WriterType
  <2>5. CASE to # "done"
    BY <1>2, <1>5, <2>1, <2>3, <2>4, <2>5 DEF TasksSeen, WritersSeen, MaintenanceSeen, WriterSeen
  <2>6. CASE to = "done"
    BY <1>5, <2>1, <2>3, <2>4, <2>6 DEF Ownership!writer_ended, live
  <2> QED
    BY <2>5, <2>6
<1>15. CASE maintenance_tick
  <2>1. UNCHANGED <<sessions, writer, listening, shutdown>>
    BY <1>15 DEF maintenance_tick, broadcast, transport
  <2>2. UNCHANGED <<TasksSeen, MaintenanceSeen>>
    BY <1>1, <1>4, <1>15 DEF maintenance_tick, Stage
  <2> QED
    BY <1>2, <2>1, <2>2 DEF WritersSeen, live
<1>16. CASE maintenance_stops
  <2>1. /\ shutdown /\ stage[Maintenance] = "select" /\ stage' = [stage EXCEPT ![Maintenance] = "done"]
        /\ UNCHANGED <<network, writer, listening, shutdown>>
    BY <1>16 DEF maintenance_stops, Goto, transport
  <2>2. stage'[Maintenance] = "done" /\ \A e \in Dispatchers \ {Maintenance} : stage'[e] = stage[e]
    BY <1>0, <1>1, <2>1 DEF StageType
  <2>3. Ownership!maintenance_stopped
    BY <1>1, <1>5, <2>1, <2>2 DEF Ownership!maintenance_stopped, Ownership!tasks, live
  <2> QED
    BY <2>3 DEF Ownership!Next
<1>17. CASE stop_listening
  <2>1. Ownership!stop_accepting("accept_loop")
    BY <1>5, <1>17 DEF stop_listening, Ownership!stop_accepting, Ownership!Loop, Ownership!tasks,
       live, transport
  <2> QED
    BY <2>1 DEF Ownership!Next, Ownership!LoopStep
<1>18. CASE begin_shutdown
  <2>1. Ownership!ctrl_c
    BY <1>5, <1>18 DEF begin_shutdown, Ownership!ctrl_c, Ownership!tasks, live, transport
  <2> QED
    BY <2>1 DEF Ownership!Next, Ownership!MainStep
<1>19. CASE UNCHANGED serverVars
  BY <1>2, <1>19 DEF serverVars, vars, transport, TasksSeen, WritersSeen, MaintenanceSeen, live
<1>20. ASSUME NEW c \in ConnectionIds, TaskStep(c) \/ WriterTaskStep(c)
       PROVE  [Ownership!Next]_(Ownership!vars)
  <2>2. CASE accept(c)
    BY <1>6, <2>2 DEF Ownership!Next, Ownership!LoopStep
  <2>3. CASE register_connection(c)
    BY <1>7, <2>3 DEF Ownership!Next, Ownership!ConnectionStep
  <2>4. CASE start_reading(c)
    BY <1>8, <2>4 DEF Ownership!Next, Ownership!ConnectionStep
  <2>5. CASE handshake_failed(c) \/ final_disconnect(c) \/ process_command(c) \/ command_returned(c)
    BY <1>9, <2>5 DEF Ownership!Next, Ownership!ConnectionStep
  <2>6. CASE decode_failed(c) \/ token_cancelled(c) \/ peer_gone(c) \/ remove_handle(c)
    BY <1>10, <2>6
  <2>7. CASE refused(c) \/ join_writer(c)
    BY <1>12, <2>7 DEF Ownership!Next, Ownership!ConnectionStep
  <2>8. CASE WriterTaskStep(c)
    BY <1>14, <2>8 DEF Ownership!Next, Ownership!ConnectionStep
  <2> QED
    BY <1>20, <2>2, <2>3, <2>4, <2>5, <2>6, <2>7, <2>8 DEF TaskStep
<1>21. ASSUME NEW d \in Dispatchers, DispatchStep(d) PROVE [Ownership!Next]_(Ownership!vars)
  BY <1>13, <1>21 DEF Ownership!Next, Ownership!ConnectionStep
<1> HIDE DEF Still, Stutter
<1> QED
  BY <1>15, <1>16, <1>17, <1>18, <1>19, <1>20, <1>21 DEF ServerNext, stopped

\* The server implements Supervisor: seen from the owner of its tasks, every behaviour of the
\* transport is a behaviour of the ownership specification.
THEOREM ImplementsSupervisor == ServerSafety => SupervisionSpec
<1>1. ServerInit => Ownership!Init
  BY ServerAssumption DEF ServerInit, Init, Ownership!Init, Dispatchers, NoSession
<1>2. ServerInv /\ [ServerNext]_serverVars => [Ownership!Next]_(Ownership!vars)
  BY SupervisedStep
<1> QED
  BY <1>1, <1>2, ServerInvHolds, PTL DEF ServerSafety, SupervisionSpec, Ownership!Supervision
=============================================================================
