-------------------------- MODULE StreamScheduler --------------------------
(***************************************************************************)
(* The streams of one connection in the fiber model: the job scheduler of  *)
(* each stream (stream/fiber_stream_job_scheduler.cc), its Run fiber, and  *)
(* the handler that owns the streams (stream/trpc/trpc_stream_handler.cc). *)
(*                                                                         *)
(* A critical section that takes no other lock is one step that needs the  *)
(* lock to be free. Two sections nest: Stop of the handler holds mutex_    *)
(* and takes stream_mutex_ of each stream; Stop of a stream that does not  *)
(* run holds stream_mutex_ and takes mutex_ in RemoveStream.               *)
(***************************************************************************)
EXTENDS Sequences, Naturals, FiniteSets

CONSTANTS Streams,
          AppStops,   \* the streams whose user may call Stop: Start and Finish
                      \* of a client after a timeout
          Lengthy     \* bound: messages pushed to each stream

Messages == {"data", "close", "reset"}

VARIABLES
    hmutex,     \* mutex_ of the handler is held across steps, by Stop
    connClosed, \* conn_closed_
    streams,    \* streams_
    conn,       \* the connection: "open", "stop", "join", "joined"
    visit,      \* Stop and Join: the streams not yet visited
    smutex,     \* streams whose stream_mutex_ is held across steps, by Stop
    terminate, running, done, \* terminate_, running_, done_
    recvq, sendq,             \* stream_recv_msgs_, stream_send_msgs_
    recv, send,               \* the messages the Run fiber has moved out
    run,        \* where the Run fiber of a stream is; "none": there is none
    pushes,     \* messages that may still be pushed to a stream
    found       \* a frame and the stream that was found for it, not yet pushed

handler == <<hmutex, connClosed, streams, conn, visit>>
flags == <<smutex, terminate, running, done>>
queues == <<recvq, sendq>>
vars == <<handler, flags, queues, recv, send, run, pushes, found>>

RunPlaces == {"none", "lock", "handle", "stop", "fail", "remove", "finish"}

StreamTypeOK ==
    /\ hmutex \in BOOLEAN /\ connClosed \in BOOLEAN
    /\ streams \subseteq Streams /\ visit \subseteq Streams
    /\ smutex \subseteq Streams /\ terminate \subseteq Streams
    /\ running \subseteq Streams /\ done \subseteq Streams
    /\ recvq \in [Streams -> Seq(Messages)] /\ sendq \in [Streams -> Seq(Messages)]
    /\ run \in [Streams -> RunPlaces]

StreamInit ==
    /\ hmutex = FALSE /\ connClosed = FALSE /\ streams = {}
    /\ conn = "open" /\ visit = {}
    /\ smutex = {} /\ terminate = {} /\ running = {} /\ done = {}
    /\ recvq = [s \in Streams |-> <<>>] /\ sendq = [s \in Streams |-> <<>>]
    /\ recv = [s \in Streams |-> <<>>] /\ send = [s \in Streams |-> <<>>]
    /\ run = [s \in Streams |-> "none"]
    /\ pushes = Lengthy
    /\ found = {}

Go(s, l) == run' = [run EXCEPT ![s] = l]
-----------------------------------------------------------------------------
(* The jobs of a stream.                                                   *)
(* The tail of both pushes: a Run fiber is started unless one runs.        *)
Wake(s) ==
    /\ running' = running \cup {s}
    /\ IF s \in running THEN UNCHANGED run ELSE Go(s, "lock")

PushRecvMessage(s, m) ==
    /\ s \notin smutex
    /\ IF s \in terminate THEN UNCHANGED <<recvq, running, run>>
       ELSE recvq' = [recvq EXCEPT ![s] = Append(@, m)] /\ Wake(s)

(* The user writes (front: the feedback of a read), or closes.             *)
PushSendMessage(s, m, front) ==
    /\ s \in streams \cup terminate /\ pushes[s] > 0 /\ s \notin smutex
    /\ pushes' = [pushes EXCEPT ![s] = @ - 1]
    /\ IF s \in terminate THEN UNCHANGED <<sendq, running, run>>
       ELSE /\ sendq' = [sendq EXCEPT ![s] = IF front THEN <<m>> \o @ ELSE Append(@, m)]
            /\ Wake(s)
    /\ UNCHANGED <<handler, smutex, terminate, done, recvq, recv, send, found>>

(* Mutant: an empty queue ends the fiber before running_ is reset.         *)
TakeBatchStaysRunning(s) ==
    /\ run[s] = "lock" /\ s \notin smutex
    /\ IF recvq[s] = <<>> /\ sendq[s] = <<>>
       THEN /\ Go(s, IF s \in terminate THEN "remove" ELSE "none")
            /\ UNCHANGED <<running, queues, recv, send>>
       ELSE /\ recv' = [recv EXCEPT ![s] = recvq[s]] /\ send' = [send EXCEPT ![s] = sendq[s]]
            /\ recvq' = [recvq EXCEPT ![s] = <<>>] /\ sendq' = [sendq EXCEPT ![s] = <<>>]
            /\ Go(s, "handle")
            /\ UNCHANGED running
    /\ UNCHANGED <<handler, smutex, terminate, done, pushes, found>>

(* Run takes all messages, or ends: for good if the stream is terminated.  *)
TakeBatch(s) ==
    /\ run[s] = "lock" /\ s \notin smutex
    /\ IF recvq[s] = <<>> /\ sendq[s] = <<>>
       THEN /\ IF s \in terminate THEN Go(s, "remove") /\ UNCHANGED running
                                  ELSE Go(s, "none") /\ running' = running \ {s}
            /\ UNCHANGED <<queues, recv, send>>
       ELSE /\ recv' = [recv EXCEPT ![s] = recvq[s]] /\ send' = [send EXCEPT ![s] = sendq[s]]
            /\ recvq' = [recvq EXCEPT ![s] = <<>>] /\ sendq' = [sendq EXCEPT ![s] = <<>>]
            /\ Go(s, "handle")
            /\ UNCHANGED running
    /\ UNCHANGED <<handler, smutex, terminate, done, pushes, found>>

(* What handle_recv_ or handle_send_ may return or do, all this module     *)
(* keeps of the message (TrpcStream has the rest): a reset is an error (of *)
(* a stream that is closed, and so terminated, it is none); any other      *)
(* message may be one; a close may make the stream stop itself.            *)
Outcome(s, m) ==
    \/ m # "reset" /\ UNCHANGED run
    \/ m = "close" /\ Go(s, "stop")
    \/ Go(s, "fail")

HandleRecv(s) ==
    /\ run[s] = "handle" /\ recv[s] # <<>>
    /\ recv' = [recv EXCEPT ![s] = Tail(@)]
    /\ Outcome(s, Head(recv[s]))
    /\ UNCHANGED <<handler, flags, queues, send, pushes, found>>

HandleSend(s) ==
    /\ run[s] = "handle" /\ recv[s] = <<>> /\ send[s] # <<>>
    /\ send' = [send EXCEPT ![s] = Tail(@)]
    /\ Outcome(s, Head(send[s]))
    /\ UNCHANGED <<handler, flags, queues, recv, pushes, found>>

BatchDone(s) ==
    /\ run[s] = "handle" /\ recv[s] = <<>> /\ send[s] = <<>>
    /\ Go(s, "lock")
    /\ UNCHANGED <<handler, flags, queues, recv, send, pushes, found>>

(* Mutant: Stop reports the stream as done though its fiber runs.          *)
StopSelfDone(s) ==
    /\ run[s] \in {"stop", "fail"} /\ s \notin smutex
    /\ terminate' = terminate \cup {s} /\ done' = done \cup {s}
    /\ \/ run[s] = "stop" /\ Go(s, "handle") /\ UNCHANGED <<recv, send>>
       \/ /\ run[s] = "fail" /\ Go(s, "remove")
          /\ recv' = [recv EXCEPT ![s] = <<>>] /\ send' = [send EXCEPT ![s] = <<>>]
    /\ UNCHANGED <<handler, smutex, running, queues, pushes, found>>

(* Stop called by the Run fiber itself: running_ is set.                   *)
StopSelf(s) ==
    /\ run[s] \in {"stop", "fail"} /\ s \notin smutex
    /\ terminate' = terminate \cup {s}
    /\ \/ run[s] = "stop" /\ Go(s, "handle") /\ UNCHANGED <<recv, send>>
       \/ /\ run[s] = "fail" /\ Go(s, "remove")
          /\ recv' = [recv EXCEPT ![s] = <<>>] /\ send' = [send EXCEPT ![s] = <<>>]
    /\ UNCHANGED <<handler, smutex, running, done, queues, pushes, found>>

(* RemoveStream: a closed connection keeps the stream for its Join.        *)
RemoveStream(s) == streams' = IF connClosed THEN streams ELSE streams \ {s}

RunRemoves(s) ==
    /\ run[s] = "remove" /\ ~hmutex
    /\ RemoveStream(s)
    /\ Go(s, "finish")
    /\ UNCHANGED <<hmutex, connClosed, conn, visit, flags, queues, recv, send, pushes, found>>

(* Mutant: done_ is not set at the end.                                    *)
RunFinishesSilently(s) ==
    /\ run[s] = "finish" /\ s \notin smutex
    /\ Go(s, "none")
    /\ UNCHANGED <<handler, flags, queues, recv, send, pushes, found>>

RunFinishes(s) ==
    /\ run[s] = "finish" /\ s \notin smutex
    /\ done' = done \cup {s}
    /\ Go(s, "none")
    /\ UNCHANGED <<handler, smutex, terminate, running, queues, recv, send, pushes, found>>

(* Stop called by the user. If no fiber runs the stream is removed here,   *)
(* with stream_mutex_ held.                                                *)
Stop(s) ==
    /\ s \in AppStops /\ s \in streams \cup terminate /\ s \notin smutex
    /\ terminate' = terminate \cup {s}
    /\ IF s \in running THEN UNCHANGED <<smutex, done>>
       ELSE smutex' = smutex \cup {s} /\ done' = done \cup {s}
    /\ UNCHANGED <<handler, running, queues, recv, send, run, pushes, found>>

StopRemoves(s) ==
    /\ s \in smutex /\ ~hmutex
    /\ RemoveStream(s)
    /\ smutex' = smutex \ {s}
    /\ UNCHANGED <<hmutex, connClosed, conn, visit, terminate, running, done, queues, recv, send, run, pushes, found>>
-----------------------------------------------------------------------------
(* The handler.                                                            *)
CreateStream(s) ==
    /\ ~hmutex /\ ~connClosed /\ s \notin streams \cup terminate
    /\ streams' = streams \cup {s}
    /\ UNCHANGED <<hmutex, connClosed, conn, visit, flags, queues, recv, send, run, pushes, found>>

(* PushMessage: the stream of a frame is looked up under mutex_; the frame *)
(* is pushed after.                                                        *)
FindStream(s, m) ==
    /\ ~hmutex /\ s \in streams /\ pushes[s] > 0 /\ found = {}
    /\ found' = {<<s, m>>}
    /\ pushes' = [pushes EXCEPT ![s] = @ - 1]
    /\ UNCHANGED <<handler, flags, queues, recv, send, run>>

PushMessage(s, m) ==
    /\ <<s, m>> \in found
    /\ found' = {}
    /\ PushRecvMessage(s, m)
    /\ UNCHANGED <<handler, smutex, terminate, done, sendq, recv, send, pushes>>

StopHandler ==
    /\ conn = "open" /\ ~hmutex
    /\ hmutex' = TRUE /\ connClosed' = TRUE
    /\ conn' = "stop" /\ visit' = streams
    /\ UNCHANGED <<streams, flags, queues, recv, send, run, pushes, found>>

ResetStream(s) ==
    /\ conn = "stop" /\ s \in visit
    /\ visit' = visit \ {s}
    /\ PushRecvMessage(s, "reset")
    /\ UNCHANGED <<hmutex, connClosed, streams, conn, smutex, terminate, done, sendq, recv, send, pushes, found>>

HandlerStopped ==
    /\ conn = "stop" /\ visit = {}
    /\ hmutex' = FALSE
    /\ conn' = "join" /\ visit' = streams
    /\ UNCHANGED <<connClosed, streams, flags, queues, recv, send, run, pushes, found>>

(* Join, stream by stream: it waits for done_, polling.                    *)
JoinStream(s) ==
    /\ conn = "join" /\ s \in visit /\ s \notin smutex /\ s \in done
    /\ visit' = visit \ {s}
    /\ UNCHANGED <<hmutex, connClosed, streams, conn, flags, queues, recv, send, run, pushes, found>>

Joined ==
    /\ conn = "join" /\ visit = {}
    /\ conn' = "joined" /\ streams' = {}
    /\ UNCHANGED <<hmutex, connClosed, visit, flags, queues, recv, send, run, pushes, found>>
-----------------------------------------------------------------------------
RunStep(s) ==
    \/ TakeBatch(s) \/ HandleRecv(s) \/ HandleSend(s) \/ BatchDone(s) \/ StopSelf(s)
    \/ RunRemoves(s) \/ RunFinishes(s)
HandlerStep == HandlerStopped \/ Joined \/ \E s \in Streams : ResetStream(s) \/ JoinStream(s)
AppStep(s) ==
    \/ \E m \in {"data", "close"}, front \in BOOLEAN : PushSendMessage(s, m, front)
    \/ Stop(s)

StreamNext ==
    \/ \E s \in Streams : RunStep(s) \/ AppStep(s) \/ StopRemoves(s) \/ CreateStream(s)
                          \/ \E m \in Messages : FindStream(s, m) \/ PushMessage(s, m)
    \/ StopHandler \/ HandlerStep

(* Fibers run; a thread that holds a lock goes on; the users, the peer and *)
(* the closing of the connection owe nothing.                              *)
StreamSpec ==
    /\ StreamInit /\ [][StreamNext]_vars
    /\ \A s \in Streams : WF_vars(RunStep(s)) /\ WF_vars(StopRemoves(s))
    /\ WF_vars(HandlerStep)
-----------------------------------------------------------------------------
(* Types; and running_ tells whether there is a Run fiber, until the       *)
(* stream has ended: no push starts a second one.                          *)
StreamInv ==
    /\ StreamTypeOK
    /\ \A s \in Streams : s \in running \ done <=> run[s] # "none"

(* A user is in Stop of a stream while Stop of the handler holds mutex_:   *)
(* each may wait for the lock of the other.                                *)
LockCycle == hmutex /\ smutex # {}

(* A message that was accepted is taken up by Run, unless the stream ends  *)
(* with an error before, or the two kinds of lock are taken in opposite    *)
(* orders. (Of a batch that Run has taken up, what follows an error is not *)
(* handled.)                                                               *)
AcceptedIsTaken == \A s \in Streams :
    []~LockCycle => (recvq[s] \o sendq[s] # <<>> ~> (recvq[s] \o sendq[s] = <<>> \/ s \in done))

(* Closing the connection ends: Stop reaches every stream, and Join        *)
(* returns, whatever the streams are doing, with the same exception.       *)
JoinReturns == []~LockCycle => (conn = "stop" ~> conn = "joined")

(* When Join has returned no message of any stream is handled any more:    *)
(* nothing will be sent on the connection.                                 *)
SilentAfterJoin ==
    conn = "joined" => \A s \in Streams : run[s] \in {"none", "finish"}
=============================================================================
