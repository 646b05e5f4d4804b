---------------------------- MODULE FlowControl ----------------------------
(***************************************************************************)
(* Flow control of one direction of a tRPC stream: the sending window of   *)
(* the writer and the feedback of the reader                               *)
(* (stream/trpc/trpc_stream_flow_controller.h, Read, Write, HandleFeedback *)
(* and OnError of stream/trpc/trpc_stream.cc).                             *)
(***************************************************************************)
EXTENDS Integers, Sequences, SequencesExt

CONSTANTS W,          \* the window of the reader
          Sizes,      \* sizes of messages
          MaxWrites   \* bound: writes

ASSUME FlowAssumption == W \in Nat /\ W > 0 /\ Sizes \subseteq Nat \ {0}

VARIABLES
    window,   \* window_ of the send controller
    writer,   \* "idle", "check", "wait", "push"
    size,     \* the size of the message being written
    data,     \* sizes of the messages sent and not yet read
    consumed, \* consumed_ of the receive controller
    feedback, \* increments on their way back
    ended,    \* how the stream has ended for the writer, or "no"
    notify,   \* OnError has set the status and has yet to notify
    free,     \* bytes sent without the window having been reduced
    writes    \* writes begun

vars == <<window, writer, size, data, consumed, feedback, ended, notify, free, writes>>

Bytes(s) == FoldSeq(LAMBDA x, y : x + y, 0, s)

FlowTypeOK ==
    /\ window \in Int /\ consumed \in Nat /\ free \in Nat
    /\ writer \in {"idle", "check", "wait", "push"}
    /\ data \in Seq(Sizes) /\ feedback \in Seq(Nat)
    /\ ended \in {"no", "error", "finish"} /\ notify \in BOOLEAN

FlowInit ==
    /\ window = W /\ writer = "idle" /\ size = 0
    /\ data = <<>> /\ consumed = 0 /\ feedback = <<>>
    /\ ended = "no" /\ notify = FALSE /\ free = 0 /\ writes = 0
-----------------------------------------------------------------------------
(* Write looks at the status; an error is returned at once.                *)
WriteBegin(n) ==
    /\ writer = "idle" /\ writes < MaxWrites /\ ended # "error"
    /\ writes' = writes + 1
    /\ writer' = "check" /\ size' = n
    /\ UNCHANGED <<window, data, consumed, feedback, ended, notify, free>>

(* DecreaseWindow with flow_control_mutex_ held, then the wait.            *)
DecreaseWindow ==
    /\ writer = "check"
    /\ IF window < 0 THEN writer' = "wait" /\ UNCHANGED window
       ELSE window' = window - size /\ writer' = "push"
    /\ free' = IF window < 0 THEN free + size ELSE free
    /\ UNCHANGED <<size, data, consumed, feedback, ended, notify, writes>>

(* CommonStream::Write: an error returns, an ended stream takes no message.*)
Push ==
    /\ writer = "push"
    /\ writer' = "idle" /\ size' = 0
    /\ data' = IF ended = "no" THEN Append(data, size) ELSE data
    /\ UNCHANGED <<window, consumed, feedback, ended, notify, free, writes>>

(* Mutant: the consumed bytes are kept when a feedback is sent.            *)
UpdateConsumeBytesKept(n) ==
    IF consumed + n > W \div 4
    THEN feedback' = Append(feedback, consumed + n) /\ consumed' = n
    ELSE consumed' = consumed + n /\ UNCHANGED feedback

(* Mutant: feedback only after more than the whole window.                 *)
UpdateConsumeBytesLate(n) ==
    IF consumed + n > 2 * W
    THEN feedback' = Append(feedback, consumed + n) /\ consumed' = 0
    ELSE consumed' = consumed + n /\ UNCHANGED feedback

UpdateConsumeBytes(n) ==
    IF consumed + n > W \div 4
    THEN feedback' = Append(feedback, consumed + n) /\ consumed' = 0
    ELSE consumed' = consumed + n /\ UNCHANGED feedback

Read ==
    /\ data # <<>>
    /\ data' = Tail(data)
    /\ UpdateConsumeBytes(Head(data))
    /\ UNCHANGED <<window, writer, size, ended, notify, free, writes>>

(* Notifying wakes the writer if it waits.                                 *)
NotifyAll == writer' = IF writer = "wait" THEN "push" ELSE writer

HandleFeedback ==
    /\ feedback # <<>> /\ ended = "no"
    /\ feedback' = Tail(feedback)
    /\ window' = window + Head(feedback)
    /\ IF window' > 0 THEN NotifyAll ELSE UNCHANGED writer
    /\ UNCHANGED <<size, data, consumed, ended, notify, free, writes>>

(* The stream ends for the writer: an error, or, if the writer is the      *)
(* client, the close of the server. OnError sets the status, then notifies *)
(* without flow_control_mutex_; OnFinish does not notify.                  *)
StreamEnds(how) ==
    /\ ended = "no"
    /\ ended' = how
    /\ notify' = (how = "error")
    /\ UNCHANGED <<window, writer, size, data, consumed, feedback, free, writes>>

OnErrorNotifies ==
    /\ notify /\ notify' = FALSE
    /\ NotifyAll
    /\ UNCHANGED <<window, size, data, consumed, feedback, ended, free, writes>>
-----------------------------------------------------------------------------
WriterStep == DecreaseWindow \/ Push
FlowNext ==
    \/ \E n \in Sizes : WriteBegin(n)
    \/ WriterStep \/ Read \/ HandleFeedback \/ OnErrorNotifies
    \/ \E how \in {"error", "finish"} : StreamEnds(how)

(* The reader keeps reading, and both Run fibers run.                      *)
FlowSpec ==
    /\ FlowInit /\ [][FlowNext]_vars
    /\ WF_vars(WriterStep) /\ WF_vars(Read) /\ WF_vars(HandleFeedback) /\ WF_vars(OnErrorNotifies)
-----------------------------------------------------------------------------
(* Types; and the window is what the reader has yet to give back, but for  *)
(* the messages that were sent after a wait: no feedback is lost or given  *)
(* twice.                                                                  *)
CreditConserved ==
    /\ FlowTypeOK
    /\ ended = "no" =>
         window + Bytes(data) + consumed + Bytes(feedback)
           + (IF writer \in {"wait", "push"} THEN size ELSE 0) = W + free

(* Write returns as long as the reader reads and the stream does not end:  *)
(* every wait ends in a feedback that finds the writer, though a window of *)
(* zero admits a message but does not end a wait. (When the stream ends,   *)
(* a writer may stay in its wait.)                                         *)
WriteReturns == writer # "idle" ~> (writer = "idle" \/ ended # "no")
=============================================================================
