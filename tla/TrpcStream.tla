----------------------------- MODULE TrpcStream -----------------------------
(***************************************************************************)
(* One tRPC stream between a client and a server in the fiber model:       *)
(* stream/common_stream.cc, stream/trpc/trpc_stream.cc and the two ends,   *)
(* trpc_client_stream.cc and trpc_server_stream.cc, with the users of both *)
(* ends. The windows of flow control are in FlowControl, the Run fiber in  *)
(* detail in StreamScheduler; here a batch is taken in one step and every  *)
(* message of it handled in a step of its own.                             *)
(*                                                                         *)
(* The handlers are functions from an end of the stream to a result: the   *)
(* end after it, the frames it sends and the RetCode.                      *)
(***************************************************************************)
EXTENDS Sequences, Naturals, SequencesExt

CONSTANTS Plans,       \* what may happen, see plan
          Timeouts     \* the ends whose waits may time out

End == {"c", "s"}
Peer(e) == IF e = "c" THEN "s" ELSE "c"
EOF == "eof"
Statuses == {"ok", "user", "framework"}  \* "user": an error of the service's own
Msg(kind, arg) == [kind |-> kind, arg |-> arg]

VARIABLES
    ep,       \* the two stream objects, see Fresh
    net,      \* net[e]: frames on their way to e
    recv, send, \* messages moved out by the Run fiber of an end
    ended,    \* the ends whose Run fiber has ended for good
    app,      \* where the users are, see AppPlaces
    due,      \* the ends whose Read has not pushed its FEEDBACK yet
    written,  \* how many messages the user of an end has written with OK
    got,      \* the messages the user of an end has read with OK
    eof,      \* the ends whose user has read the EOF
    result,   \* what Finish has returned to the client
    outcome,  \* what the service has returned
    last,     \* last[e]: kind and status of the last frame e has sent, not
              \* counting its FEEDBACKs
    fed,      \* how many FEEDBACKs e has sent
    told,     \* the ends that know that the connection is closed
    plan      \* writes: what the user of each end writes, in this order;
              \* feeds: after which of its reads an end owes a FEEDBACK;
              \* faults: bound on the timeouts, frames that cannot be decoded
              \* and closed connections still to come

wire == <<last, fed>>
vars == <<ep, net, recv, send, ended, app, due, written, got, eof, result, outcome, wire, told, plan>>

Fault == plan.faults > 0 /\ plan' = [plan EXCEPT !.faults = @ - 1]

(* "late": a wait has timed out and its lock was released.                 *)
AppPlaces == {"new", "start", "startLate", "startReset", "startStop", "open", "done",
              "finish", "finishLate", "finishStop", "returned"}

(* An end: state_, simple_state, status and reader_msgs of its options,    *)
(* the queues and terminate_ of its job scheduler.                         *)
Fresh ==
    [state |-> "kIdle", simple |-> "NotReady", status |-> "ok", reader |-> <<>>,
     recvq |-> <<>>, sendq |-> <<>>, terminate |-> FALSE]

TypeOK ==
    /\ \A e \in End :
        /\ ep[e].state \in {"kClosed", "kIdle", "kInit", "kOpen", "kLocalClosed", "kRemoteClosed"}
        /\ ep[e].simple \in {"NotReady", "Ready", "Finished", "Error"}
        /\ ep[e].status \in Statuses
    /\ app \in [End -> AppPlaces] /\ fed \in [End -> Nat] /\ due \subseteq End
    /\ ended \subseteq End /\ told \subseteq End /\ eof \subseteq End

StreamPairInit ==
    /\ ep = [e \in End |-> Fresh]
    /\ net = [e \in End |-> <<>>]
    /\ recv = [e \in End |-> <<>>] /\ send = [e \in End |-> <<>>]
    /\ ended = {} /\ told = {} /\ eof = {} /\ plan \in Plans
    /\ app = [e \in End |-> "new"] /\ due = {}
    /\ written = [e \in End |-> 0] /\ got = [e \in End |-> <<>>]
    /\ result = "none" /\ outcome = "none"
    /\ last = [e \in End |-> Msg("none", "ok")] /\ fed = [e \in End |-> 0]
-----------------------------------------------------------------------------
(* What the handlers do to an end.                                         *)
Result(r, out, ok) == [ep |-> r, out |-> out, ok |-> ok]

PushRecv(r, m) == IF r.terminate THEN r ELSE [r EXCEPT !.recvq = Append(@, m)]
(* Mutant: every message is sent like a feedback, before the others.       *)
PushSendFront(r, m) == IF r.terminate THEN r ELSE [r EXCEPT !.sendq = <<m>> \o @]
PushSend(r, m) == IF r.terminate THEN r ELSE [r EXCEPT !.sendq = Append(@, m)]
(* push_front: a FEEDBACK goes before the messages that wait.              *)
PushFeedback(r) == IF r.terminate THEN r ELSE [r EXCEPT !.sendq = <<Msg("feedback", "ok")>> \o @]
Stopped(r) == [r EXCEPT !.terminate = TRUE]

OnReady(r) == [r EXCEPT !.simple = "Ready"]
(* Mutant: the newest message is read first.                               *)
OnDataFront(r, d) == [r EXCEPT !.reader = <<d>> \o @]
OnData(r, d) == [r EXCEPT !.reader = Append(@, d)]
(* Mutant: the EOF goes to the front of the queue.                         *)
OnFinishFront(r, st) ==
    IF r.simple = "Finished" THEN r
    ELSE [r EXCEPT !.reader = <<EOF>> \o @, !.status = st, !.simple = "Finished"]
OnFinish(r, st) ==
    IF r.simple = "Finished" THEN r
    ELSE [r EXCEPT !.reader = Append(@, EOF), !.status = st, !.simple = "Finished"]
OnError(r, st) ==
    IF r.simple = "Error" THEN r ELSE [r EXCEPT !.status = st, !.simple = "Error"]

(* CheckState: the states in which an end may do what.                     *)
ClientAllowed ==
    [HandleInit |-> {"kInit"}, SendInit |-> {"kIdle"},
     HandleData |-> {"kOpen", "kLocalClosed"}, SendData |-> {"kOpen"},
     HandleClose |-> {"kOpen", "kLocalClosed"}, SendClose |-> {"kOpen"}]
ServerAllowed ==
    [HandleInit |-> {"kIdle"}, SendInit |-> {"kInit"},
     HandleData |-> {"kOpen", "kLocalClosed"}, SendData |-> {"kOpen", "kRemoteClosed"},
     HandleClose |-> {"kOpen"}, SendClose |-> {"kOpen", "kRemoteClosed"}]
Allowed(e, action) == IF e = "c" THEN ClientAllowed[action] ELSE ServerAllowed[action]

(* SendReset and OnError, then kError: after a failed CheckState, and when *)
(* a frame cannot be decoded; the reset tells the peer which.              *)
ResetAndFail(r, why) ==
    Result(OnError([r EXCEPT !.state = "kClosed"], "framework"), <<Msg("reset", why)>>, FALSE)
BadState(r) == ResetAndFail(r, "state")
BadFrame(r) == ResetAndFail(r, "decode")

(* Send may fail once the connection is closed.                            *)
Sent(r, m, sent, after) ==
    IF sent THEN Result(after, <<m>>, TRUE) ELSE Result(OnError(r, "framework"), <<>>, FALSE)

(* The server accepts an INIT and has the answer sent; the client gets it. *)
AcceptInit(r, m) == Result(PushSend([r EXCEPT !.state = "kInit"], m), <<>>, TRUE)
HandleInit(e, r, m) ==
    CASE e = "s" -> AcceptInit(r, m)
      [] e = "c" /\ m.arg = "ok" -> Result(OnReady([r EXCEPT !.state = "kOpen"]), <<>>, TRUE)
      [] OTHER -> Result(OnError([r EXCEPT !.state = "kClosed"], m.arg), <<>>, FALSE)

HandleData(e, r, m) == Result(OnData(r, m.arg), <<>>, TRUE)

(* The server's HandleClose of a CLOSE: an EOF for the service.            *)
RemoteClosed(r, m) == Result(OnFinish([r EXCEPT !.state = "kRemoteClosed"], m.arg), <<>>, TRUE)

(* Mutant: the error the service has returned is taken for an EOF.         *)
HandleCloseAnyStatus(e, r, m) ==
    CASE m.kind = "reset" -> Result(OnError([r EXCEPT !.state = "kClosed"], "framework"), <<>>, FALSE)
      [] m.kind = "close" /\ e = "s" -> RemoteClosed(r, m)
      [] OTHER -> Result(Stopped(OnFinish([r EXCEPT !.state = "kClosed"], "ok")), <<>>, TRUE)

(* Mutant: a close does not tell the user.                                 *)
HandleCloseSilent(e, r, m) ==
    CASE m.kind = "reset" -> Result(OnError([r EXCEPT !.state = "kClosed"], "framework"), <<>>, FALSE)
      [] m.kind = "close" /\ e = "s" -> Result([r EXCEPT !.state = "kRemoteClosed"], <<>>, TRUE)
      [] OTHER -> Result(Stopped([r EXCEPT !.state = "kClosed"]), <<>>, TRUE)

HandleClose(e, r, m) ==
    CASE m.kind = "reset" -> Result(OnError([r EXCEPT !.state = "kClosed"], "framework"), <<>>, FALSE)
      [] m.kind = "close" /\ e = "s" -> RemoteClosed(r, m)
      [] m.kind = "close" /\ e = "c" /\ m.arg = "framework" ->
            Result(OnError([r EXCEPT !.state = "kClosed"], m.arg), <<>>, FALSE)
      [] OTHER -> Result(Stopped(OnFinish([r EXCEPT !.state = "kClosed"], m.arg)), <<>>, TRUE)

(* The windows that a FEEDBACK opens are in FlowControl.                   *)
HandleFeedback(r) == Result(r, <<>>, TRUE)

(* CheckState comes before the decoding, except for a close.               *)
HandleRecvMessage(e, r, m, decoded) ==
    CASE m.kind = "init" ->
            IF r.state \notin Allowed(e, "HandleInit") THEN BadState(r)
            ELSE IF decoded THEN HandleInit(e, r, m) ELSE BadFrame(r)
      [] m.kind = "data" ->
            IF r.state \notin Allowed(e, "HandleData") THEN BadState(r)
            ELSE IF decoded THEN HandleData(e, r, m) ELSE BadFrame(r)
      [] m.kind \in {"close", "reset"} ->
            IF r.state = "kClosed" THEN Result(r, <<>>, TRUE)
            ELSE IF ~decoded THEN BadFrame(r)
            ELSE IF m.kind = "reset" \/ r.state \in Allowed(e, "HandleClose") THEN HandleClose(e, r, m)
            ELSE BadState(r)
      [] m.kind = "feedback" -> IF decoded THEN HandleFeedback(r) ELSE BadFrame(r)

(* The server answers an INIT after it has looked up the method: arg.      *)
AnswerInit(r, m, sent) ==
    IF m.arg = "ok" THEN Sent(r, m, sent, OnReady([r EXCEPT !.state = "kOpen"]))
    ELSE [Sent(r, m, sent, [r EXCEPT !.state = "kClosed"]) EXCEPT !.ok = FALSE]
SendInit(e, r, m, sent) ==
    IF e = "c" THEN Sent(r, m, sent, [r EXCEPT !.state = "kInit"]) ELSE AnswerInit(r, m, sent)

SendData(e, r, m, sent) == Sent(r, m, sent, r)

SendClose(e, r, m, sent) ==
    Sent(r, m, sent, IF e = "c" THEN [r EXCEPT !.state = "kLocalClosed"]
                     ELSE Stopped([r EXCEPT !.state = "kClosed"]))

(* No CheckState: a FEEDBACK is sent in whatever state the stream is.      *)
SendFeedback(r, m, sent) == Sent(r, m, sent, r)

(* Close and Reset of a user both push a close message.                    *)
HandleSendMessage(e, r, m, sent) ==
    CASE m.kind = "init" ->
            IF r.state \in Allowed(e, "SendInit") THEN SendInit(e, r, m, sent) ELSE BadState(r)
      [] m.kind = "data" ->
            IF r.state \in Allowed(e, "SendData") THEN SendData(e, r, m, sent) ELSE BadState(r)
      [] m.kind = "feedback" -> SendFeedback(r, m, sent)
      [] m.kind \in {"close", "reset"} ->
            IF r.state \in Allowed(e, "SendClose") THEN SendClose(e, r, m, sent) ELSE BadState(r)
-----------------------------------------------------------------------------
(* The Run fiber of an end.                                                *)
TakeBatch(e) ==
    /\ e \notin ended /\ recv[e] = <<>> /\ send[e] = <<>>
    /\ \/ /\ ep[e].recvq \o ep[e].sendq # <<>>
          /\ recv' = [recv EXCEPT ![e] = ep[e].recvq] /\ send' = [send EXCEPT ![e] = ep[e].sendq]
          /\ ep' = [ep EXCEPT ![e].recvq = <<>>, ![e].sendq = <<>>]
          /\ UNCHANGED ended
       \/ /\ ep[e].recvq \o ep[e].sendq = <<>> /\ ep[e].terminate
          /\ ended' = ended \cup {e}
          /\ UNCHANGED <<ep, recv, send>>
    /\ UNCHANGED <<net, app, due, written, got, eof, result, outcome, wire, told, plan>>

(* A handler has returned x; an error stops the stream and drops the rest. *)
Apply(e, x, recvRest, sendRest) ==
    /\ ep' = [ep EXCEPT ![e] = IF x.ok THEN x.ep ELSE Stopped(x.ep)]
    /\ ended' = IF x.ok THEN ended ELSE ended \cup {e}
    /\ recv' = [recv EXCEPT ![e] = IF x.ok THEN recvRest ELSE <<>>]
    /\ send' = [send EXCEPT ![e] = IF x.ok THEN sendRest ELSE <<>>]
    /\ net' = [net EXCEPT ![Peer(e)] = IF told = {} THEN @ \o x.out ELSE @]
    /\ LET out == {x.out[i] : i \in DOMAIN x.out} IN
        /\ last' = [last EXCEPT ![e] = IF \E m \in out : m.kind # "feedback" THEN x.out[1] ELSE @]
        /\ fed' = [fed EXCEPT ![e] = IF \E m \in out : m.kind = "feedback" THEN @ + 1 ELSE @]

RunRecv(e) ==
    /\ recv[e] # <<>>
    /\ \E decoded \in BOOLEAN :
        /\ \/ decoded /\ UNCHANGED plan
           \/ ~decoded /\ Head(recv[e]) # Msg("reset", "network") /\ Fault
        /\ Apply(e, HandleRecvMessage(e, ep[e], Head(recv[e]), decoded), Tail(recv[e]), send[e])
    /\ UNCHANGED <<app, due, written, got, eof, result, outcome, told>>

(* The INIT answer of the server says whether the method was found; if so  *)
(* the service is started.                                                 *)
RunSend(e) ==
    /\ recv[e] = <<>> /\ send[e] # <<>>
    /\ \E sent \in BOOLEAN, found \in {"ok", "framework"} :
        LET m == Head(send[e])
            answer == e = "s" /\ m.kind = "init"
        IN  /\ ~sent => told # {}
            /\ found = "framework" => answer
            /\ Apply(e, HandleSendMessage(e, ep[e], IF answer THEN Msg("init", found) ELSE m, sent),
                     recv[e], Tail(send[e]))
            /\ app' = IF answer /\ found = "ok" THEN [app EXCEPT ![e] = "start"] ELSE app
    /\ UNCHANGED <<due, written, got, eof, result, outcome, told, plan>>

Deliver(e) ==
    /\ net[e] # <<>>
    /\ net' = [net EXCEPT ![e] = Tail(@)]
    /\ ep' = [ep EXCEPT ![e] = PushRecv(@, Head(net[e]))]
    /\ UNCHANGED <<recv, send, ended, app, due, written, got, eof, result, outcome, wire, told, plan>>

(* The connection is closed: an end finds out, its handler resets the      *)
(* stream. What was on the way is lost.                                    *)
ConnectionClosed(e) ==
    /\ e \notin told
    /\ IF told = {} THEN Fault ELSE UNCHANGED plan
    /\ told' = told \cup {e}
    /\ net' = [d \in End |-> <<>>]
    /\ ep' = [ep EXCEPT ![e] = PushRecv(@, Msg("reset", "network"))]
    /\ UNCHANGED <<recv, send, ended, app, due, written, got, eof, result, outcome, wire>>
-----------------------------------------------------------------------------
(* The users.                                                              *)
ClientStart ==
    /\ app["c"] = "new"
    /\ app' = [app EXCEPT !["c"] = "start"]
    /\ ep' = [ep EXCEPT !["c"] = PushSend(@, Msg("init", "ok"))]
    /\ UNCHANGED <<net, recv, send, ended, due, written, got, eof, result, outcome, wire, told, plan>>

(* Start returns. A service whose Start fails is not called: Reset.        *)
Started(e) ==
    /\ app[e] = "start" /\ ep[e].simple # "NotReady"
    /\ IF ep[e].status = "ok" THEN app' = [app EXCEPT ![e] = "open"] /\ UNCHANGED ep
       ELSE /\ app' = [app EXCEPT ![e] = "returned"]
            /\ ep' = [ep EXCEPT ![e] = IF e = "s" THEN PushSend(@, Msg("reset", "framework")) ELSE @]
    /\ UNCHANGED <<net, recv, send, ended, due, written, got, eof, result, outcome, wire, told, plan>>

(* The wait for OnReady times out. The status is written without the lock; *)
(* Reset and Stop are two pushes to the job scheduler.                     *)
StartExpires(e) ==
    /\ e \in Timeouts /\ app[e] = "start" /\ ep[e].simple = "NotReady"
    /\ Fault
    /\ app' = [app EXCEPT ![e] = "startLate"]
    /\ UNCHANGED <<ep, net, recv, send, ended, due, written, got, eof, result, outcome, wire, told>>

StartGivesUp(e) ==
    /\ \/ /\ app[e] = "startLate" /\ app' = [app EXCEPT ![e] = "startReset"]
          /\ ep' = [ep EXCEPT ![e].status = "framework"]
       \/ /\ app[e] = "startReset" /\ app' = [app EXCEPT ![e] = "startStop"]
          /\ ep' = [ep EXCEPT ![e] = PushSend(@, Msg("reset", "framework"))]
       \/ /\ app[e] = "startStop" /\ app' = [app EXCEPT ![e] = "returned"]
          /\ ep' = [ep EXCEPT ![e] = Stopped(@)]
    /\ UNCHANGED <<net, recv, send, ended, due, written, got, eof, result, outcome, wire, told, plan>>

(* Write: the status is looked at, the message pushed; a refused push is   *)
(* not reported.                                                           *)
Write(e) ==
    /\ e \notin due /\ app[e] = "open" /\ written[e] < Len(plan.writes[e]) /\ ep[e].status = "ok"
    /\ written' = [written EXCEPT ![e] = @ + 1]
    /\ ep' = [ep EXCEPT ![e] = PushSend(@, Msg("data", plan.writes[e][written[e] + 1]))]
    /\ UNCHANGED <<net, recv, send, ended, app, due, got, eof, result, outcome, wire, told, plan>>

(* Read: the first message, with the status of the stream: a caller that   *)
(* gets an error drops the message. The EOF stays in the queue. A message  *)
(* read with OK may be the one for which a FEEDBACK is due: FlowControl.   *)
Read(e) ==
    /\ e \notin due /\ app[e] \in {"open", "done"} /\ ep[e].reader # <<>>
    /\ LET m == Head(ep[e].reader) IN
        \/ /\ m = EOF /\ ep[e].simple # "Error"
           /\ eof' = eof \cup {e}
           /\ UNCHANGED <<ep, got, due>>
        \/ /\ m # EOF
           /\ ep' = [ep EXCEPT ![e].reader = Tail(@)]
           /\ \/ /\ ep[e].status = "ok" /\ got' = [got EXCEPT ![e] = Append(@, m)]
                 /\ due' = IF Len(got'[e]) \in plan.feeds[e] THEN due \cup {e} ELSE due
              \/ ep[e].status # "ok" /\ UNCHANGED <<got, due>>
           /\ UNCHANGED eof
    /\ UNCHANGED <<net, recv, send, ended, app, written, result, outcome, wire, told, plan>>

(* The second half of Read: whatever has become of the stream.             *)
ReadFeedsBack(e) ==
    /\ e \in due
    /\ due' = due \ {e}
    /\ ep' = [ep EXCEPT ![e] = PushFeedback(@)]
    /\ UNCHANGED <<net, recv, send, ended, app, written, got, eof, result, outcome, wire, told, plan>>

WriteDone ==
    /\ app["c"] = "open" /\ "c" \notin due
    /\ app' = [app EXCEPT !["c"] = "done"]
    /\ ep' = [ep EXCEPT !["c"] = IF @.simple = "Error" THEN @ ELSE PushSend(@, Msg("close", "ok"))]
    /\ UNCHANGED <<net, recv, send, ended, due, written, got, eof, result, outcome, wire, told, plan>>

Finish ==
    /\ app["c"] \in {"open", "done"} /\ "c" \notin due
    /\ app' = [app EXCEPT !["c"] = "finish"]
    /\ UNCHANGED <<ep, net, recv, send, ended, due, written, got, eof, result, outcome, wire, told, plan>>

FinishReturns ==
    /\ app["c"] = "finish" /\ ep["c"].simple \in {"Finished", "Error"}
    /\ app' = [app EXCEPT !["c"] = "returned"]
    /\ result' = ep["c"].status
    /\ UNCHANGED <<ep, net, recv, send, ended, due, written, got, eof, outcome, wire, told, plan>>

(* The wait times out; OnError and Stop follow when the lock is released,  *)
(* so that the last frames of the server may come between.                 *)
FinishExpires ==
    /\ "c" \in Timeouts /\ app["c"] = "finish" /\ ep["c"].simple \notin {"Finished", "Error"}
    /\ Fault
    /\ app' = [app EXCEPT !["c"] = "finishLate"]
    /\ UNCHANGED <<ep, net, recv, send, ended, due, written, got, eof, result, outcome, wire, told>>

FinishGivesUp ==
    /\ \/ /\ app["c"] = "finishLate" /\ app' = [app EXCEPT !["c"] = "finishStop"]
          /\ ep' = [ep EXCEPT !["c"] = OnError(@, "framework")]
          /\ UNCHANGED result
       \/ /\ app["c"] = "finishStop" /\ app' = [app EXCEPT !["c"] = "returned"]
          /\ ep' = [ep EXCEPT !["c"] = Stopped(@)]
          /\ result' = "framework"
    /\ UNCHANGED <<net, recv, send, ended, due, written, got, eof, outcome, wire, told, plan>>

(* The service returns and its stream is closed with its status.           *)
ServiceReturns(st) ==
    /\ app["s"] = "open" /\ "s" \notin due
    /\ app' = [app EXCEPT !["s"] = "returned"]
    /\ ep' = [ep EXCEPT !["s"] = PushSend(@, Msg("close", st))]
    /\ outcome' = st
    /\ UNCHANGED <<net, recv, send, ended, due, written, got, eof, result, wire, told, plan>>
-----------------------------------------------------------------------------
RunStep(e) == TakeBatch(e) \/ RunRecv(e) \/ RunSend(e)
Returns(e) ==
    \/ Started(e) \/ StartGivesUp(e) \/ ReadFeedsBack(e)
    \/ e = "c" /\ (FinishReturns \/ FinishGivesUp)

StreamPairNext ==
    \/ \E e \in End :
        \/ RunStep(e) \/ Deliver(e) \/ ConnectionClosed(e)
        \/ Returns(e) \/ StartExpires(e) \/ Write(e) \/ Read(e)
    \/ ClientStart \/ WriteDone \/ Finish \/ FinishExpires
    \/ \E st \in Statuses : ServiceReturns(st)

(* The fibers run, the network delivers, a closed connection is noticed by *)
(* both ends, and the service reads and returns. The client owes nothing.  *)
StreamPairSpec ==
    /\ StreamPairInit /\ [][StreamPairNext]_vars
    /\ \A e \in End : WF_vars(RunStep(e)) /\ WF_vars(Deliver(e)) /\ WF_vars(Returns(e))
    /\ \A e \in End : WF_vars(told # {} /\ ConnectionClosed(e))
    /\ WF_vars(Read("s")) /\ WF_vars(\E st \in Statuses : ServiceReturns(st))
-----------------------------------------------------------------------------
(* Types; and what the users have read came in the order in which it was   *)
(* written, nothing skipped or repeated.                                   *)
InOrder ==
    /\ TypeOK
    /\ \A e \in End : IsPrefix(got[e], SubSeq(plan.writes[Peer(e)], 1, written[Peer(e)]))

(* A user that reads the EOF has read every message that the peer wrote,   *)
(* unless the service has returned an error of its own, which replaces the *)
(* OK with which the messages before it would be read.                     *)
EofComplete ==
    \A e \in eof : outcome # "user" => got[e] = SubSeq(plan.writes[Peer(e)], 1, written[Peer(e)])

(* Finish returns OK only when the service returned OK.                    *)
OkMeansServed == result = "ok" => outcome = "ok"

(* What goes on the wire: an end begins with INIT unless it resets. After  *)
(* its user's Close or Reset the client sends only the FEEDBACKs of its    *)
(* reads, which check no state, and a reset if it cannot decode a frame;   *)
(* the server at most a reset. Nothing at all follows the reset with which *)
(* a stream fails.                                                         *)
Closing(m) == m.kind = "close" \/ m = Msg("reset", "framework")
Failing(m) == m \in {Msg("reset", "state"), Msg("reset", "decode")}
FrameOrder ==
    [][\A e \in End :
        /\ last'[e] # last[e] =>
            /\ last[e].kind = "none" => last'[e].kind \in {"init", "reset"}
            /\ Closing(last[e]) => Failing(last'[e]) /\ (e = "c" => last'[e].arg = "decode")
            /\ ~Failing(last[e])
        /\ fed'[e] # fed[e] =>
            /\ last[e].kind # "none" /\ ~Failing(last[e])
            /\ Closing(last[e]) => e = "c"]_vars

(* Finish returns: the client learns the outcome.                          *)
FinishGetsResult == app["c"] = "finish" ~> app["c"] = "returned"
=============================================================================
