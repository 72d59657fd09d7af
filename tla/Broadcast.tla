----------------------------- MODULE Broadcast ------------------------------
(***************************************************************************)
(* The broadcast example: BroadcastSender, a stop-and-wait protocol with   *)
(* two timers, BroadcastReceiver, and the UdpSocket both of them use.      *)
(*                                                                         *)
(* Each process runs one io_context: a queue of completions, handled one   *)
(* at a time, and the operations that are still outstanding (a receive, at *)
(* most one wait per timer).  cancel and expires_after recall a wait that  *)
(* is outstanding; a completion that is queued they cannot recall.         *)
(* Completions with operation_aborted have no effect and are left out.     *)
(*                                                                         *)
(* UdpSocket::Bind is empty.  The socket of the sender is opened by        *)
(* set_broadcast; the one of the receiver stays closed, so that its        *)
(* handler is never called.  Who answers the sender are other listeners on *)
(* the port; the network between them loses and reorders datagrams.        *)
(***************************************************************************)
EXTENDS Integers, Sequences, FiniteSets

CONSTANTS
    max_count,    \* the number of messages
    Listeners     \* who listens on the port

ASSUME MaxCountAssumption == max_count \in Nat \ {0}

VARIABLES
    phase,        \* of each process
    is_open,      \* of its socket
    armed,        \* an async_receive_from is outstanding
    queue,        \* completions in the order in which they are handled
    recv_buf,     \* the number in the ACK that the sender received last
    count,        \* the number of the message that the sender is sending
    retry_timer,  \* a wait is outstanding
    delay_timer,
    broadcasts,   \* the network: messages and ACKs on their way to, and from,
    acks,         \* a listener
    answered      \* the numbers that a listener has answered

network == <<broadcasts, acks, answered>>
timers  == <<retry_timer, delay_timer>>
vars == <<phase, is_open, armed, queue, recv_buf, count, timers, network>>

Process == {"sender", "receiver"}
Messages == 0..(max_count - 1)
Datagram == Messages \X Listeners
Completion == {"receive", "error", "retry", "delay"}

\* Every variable keeps its type; a process that has ended does nothing.
TypeOK ==
    /\ phase \in [Process -> {"start", "running", "stopped", "ended", "crashed"}]
    /\ is_open \in [Process -> BOOLEAN]
    /\ armed \in [Process -> BOOLEAN]
    /\ queue \in [Process -> Seq(Completion)]
    /\ recv_buf \in Messages
    /\ count \in 0..max_count
    /\ retry_timer \in BOOLEAN /\ delay_timer \in BOOLEAN
    /\ broadcasts \subseteq Datagram /\ acks \subseteq Datagram /\ answered \subseteq Messages

Init ==
    /\ phase = [p \in Process |-> "start"]
    /\ is_open = [p \in Process |-> FALSE]
    /\ armed = [p \in Process |-> FALSE]
    /\ queue = [p \in Process |-> <<>>]
    /\ recv_buf = 0
    /\ count = 0
    /\ retry_timer = FALSE /\ delay_timer = FALSE
    /\ broadcasts = {} /\ acks = {} /\ answered = {}

-----------------------------------------------------------------------------
\* UdpSocket

\* What the two leave of a socket that is open or not.
Bind(open) == open
set_broadcast(open) == TRUE

\* On a closed socket async_receive_from completes with bad_descriptor.
start_receive(p, open, rest) ==
    /\ armed' = [armed EXCEPT ![p] = open]
    /\ queue' = [queue EXCEPT ![p] = IF open THEN rest ELSE Append(rest, "error")]

\* A datagram that is not sent, or whose buffer is gone before it is sent, is
\* one that the network loses.
async_send_to(n) == broadcasts' = broadcasts \cup ({n} \X Listeners)

\* The next completion of p, with the rest of its queue.
Handles(p, completion) ==
    /\ phase[p] = "running"
    /\ queue[p] # <<>> /\ Head(queue[p]) = completion

ReceiveDatagram(n, l) ==
    /\ phase["sender"] = "running" /\ armed["sender"]
    /\ <<n, l>> \in acks
    /\ acks' = acks \ {<<n, l>>}
    /\ recv_buf' = n
    /\ armed' = [armed EXCEPT !["sender"] = FALSE]
    /\ queue' = [queue EXCEPT !["sender"] = Append(@, "receive")]
    /\ UNCHANGED <<phase, is_open, count, timers, broadcasts, answered>>

ReceiveFails(p) ==
    /\ phase[p] = "running" /\ armed[p]
    /\ armed' = [armed EXCEPT ![p] = FALSE]
    /\ queue' = [queue EXCEPT ![p] = Append(@, "error")]
    /\ UNCHANGED <<phase, is_open, recv_buf, count, timers, network>>

\* After an error nothing is received any more.
HandleError(p) ==
    /\ Handles(p, "error")
    /\ queue' = [queue EXCEPT ![p] = Tail(@)]
    /\ UNCHANGED <<phase, is_open, armed, recv_buf, count, timers, network>>

-----------------------------------------------------------------------------
\* BroadcastSender

send_current ==
    IF count >= max_count THEN UNCHANGED <<broadcasts, retry_timer>>
    ELSE /\ async_send_to(count)
         /\ retry_timer' = TRUE

SenderStart ==
    /\ phase["sender"] = "start"
    /\ phase' = [phase EXCEPT !["sender"] = "running"]
    /\ is_open' = [is_open EXCEPT !["sender"] = set_broadcast(Bind(@))]
    /\ start_receive("sender", is_open'["sender"], <<>>)
    /\ send_current
    /\ UNCHANGED <<recv_buf, count, delay_timer, acks, answered>>

RetryExpires ==
    /\ phase["sender"] = "running" /\ retry_timer
    /\ retry_timer' = FALSE
    /\ queue' = [queue EXCEPT !["sender"] = Append(@, "retry")]
    /\ UNCHANGED <<phase, is_open, armed, recv_buf, count, delay_timer, network>>

DelayExpires ==
    /\ phase["sender"] = "running" /\ delay_timer
    /\ delay_timer' = FALSE
    /\ queue' = [queue EXCEPT !["sender"] = Append(@, "delay")]
    /\ UNCHANGED <<phase, is_open, armed, recv_buf, count, retry_timer, network>>

\* A mutant: the timer is set again and nothing is sent.
HandleRetryWaits ==
    /\ Handles("sender", "retry")
    /\ queue' = [queue EXCEPT !["sender"] = Tail(@)]
    /\ retry_timer' = (count < max_count)
    /\ UNCHANGED <<phase, is_open, armed, recv_buf, count, delay_timer, network>>

\* A mutant: the retry sends the next message instead of this one.
HandleRetryNext ==
    /\ Handles("sender", "retry")
    /\ queue' = [queue EXCEPT !["sender"] = Tail(@)]
    /\ async_send_to(count + 1)
    /\ retry_timer' = TRUE
    /\ UNCHANGED <<phase, is_open, armed, recv_buf, count, delay_timer, acks, answered>>

\* The handler prints msg, a local variable of a call that has returned:
\* whatever is there now is printed, or the process ends.
HandleRetry ==
    /\ Handles("sender", "retry")
    /\ queue' = [queue EXCEPT !["sender"] = Tail(@)]
    /\ \/ /\ send_current
          /\ UNCHANGED phase
       \/ /\ phase' = [phase EXCEPT !["sender"] = "crashed"]
          /\ UNCHANGED <<broadcasts, retry_timer>>
    /\ UNCHANGED <<is_open, armed, recv_buf, count, delay_timer, acks, answered>>

HandleDelay ==
    /\ Handles("sender", "delay")
    /\ queue' = [queue EXCEPT !["sender"] = Tail(@)]
    /\ send_current
    /\ UNCHANGED <<phase, is_open, armed, recv_buf, count, delay_timer, acks, answered>>

\* A mutant: any ACK counts.
HandleAnyAck ==
    /\ Handles("sender", "receive")
    /\ retry_timer' = FALSE
    /\ count' = count + 1
    /\ phase' = [phase EXCEPT !["sender"] = IF count' >= max_count THEN "stopped" ELSE @]
    /\ delay_timer' = (count' < max_count \/ delay_timer)
    /\ start_receive("sender", TRUE, Tail(queue["sender"]))
    /\ UNCHANGED <<is_open, recv_buf, network>>

\* A mutant: the retry timer is cancelled for any ACK, also for an old one.
HandleAckCancels ==
    /\ Handles("sender", "receive")
    /\ retry_timer' = FALSE
    /\ IF recv_buf = count
       THEN /\ count' = count + 1
            /\ phase' = [phase EXCEPT !["sender"] = IF count' >= max_count THEN "stopped" ELSE @]
            /\ delay_timer' = (count' < max_count \/ delay_timer)
       ELSE UNCHANGED <<count, phase, delay_timer>>
    /\ start_receive("sender", TRUE, Tail(queue["sender"]))
    /\ UNCHANGED <<is_open, recv_buf, network>>

\* A mutant: the delay is started for any ACK.
HandleAckDelays ==
    /\ Handles("sender", "receive")
    /\ retry_timer' = (recv_buf # count /\ retry_timer)
    /\ count' = IF recv_buf = count THEN count + 1 ELSE count
    /\ phase' = [phase EXCEPT !["sender"] = IF count' >= max_count THEN "stopped" ELSE @]
    /\ delay_timer' = (count' < max_count \/ delay_timer)
    /\ start_receive("sender", TRUE, Tail(queue["sender"]))
    /\ UNCHANGED <<is_open, recv_buf, network>>

HandleReceive ==
    /\ Handles("sender", "receive")
    /\ IF recv_buf = count
       THEN /\ retry_timer' = FALSE
            /\ count' = count + 1
            /\ phase' = [phase EXCEPT !["sender"] = IF count' >= max_count THEN "stopped" ELSE @]
            /\ delay_timer' = (count' < max_count \/ delay_timer)
       ELSE UNCHANGED <<retry_timer, count, phase, delay_timer>>
    /\ start_receive("sender", TRUE, Tail(queue["sender"]))
    /\ UNCHANGED <<is_open, recv_buf, network>>

-----------------------------------------------------------------------------
\* BroadcastReceiver

ReceiverStart ==
    /\ phase["receiver"] = "start"
    /\ phase' = [phase EXCEPT !["receiver"] = "running"]
    /\ is_open' = [is_open EXCEPT !["receiver"] = Bind(@)]
    /\ start_receive("receiver", is_open'["receiver"], <<>>)
    /\ UNCHANGED <<recv_buf, count, timers, network>>

\* io_context::run returns when nothing is queued and nothing is outstanding.
RunReturns(p) ==
    /\ phase[p] = "running"
    /\ queue[p] = <<>> /\ ~armed[p]
    /\ p = "sender" => ~retry_timer /\ ~delay_timer
    /\ phase' = [phase EXCEPT ![p] = "ended"]
    /\ UNCHANGED <<is_open, armed, queue, recv_buf, count, timers, network>>

-----------------------------------------------------------------------------
\* The network and the listeners

Answer(n, l) ==
    /\ <<n, l>> \in broadcasts
    /\ broadcasts' = broadcasts \ {<<n, l>>}
    /\ acks' = acks \cup {<<n, l>>}
    /\ answered' = answered \cup {n}
    /\ UNCHANGED <<phase, is_open, armed, queue, recv_buf, count, timers>>

Lose ==
    /\ \/ \E d \in broadcasts : broadcasts' = broadcasts \ {d} /\ UNCHANGED acks
       \/ \E d \in acks : acks' = acks \ {d} /\ UNCHANGED broadcasts
    /\ UNCHANGED <<phase, is_open, armed, queue, recv_buf, count, timers, answered>>

-----------------------------------------------------------------------------
\* What the loop of a process does next.
Loop(p) ==
    \/ HandleError(p)
    \/ RunReturns(p)
    \/ p = "sender" /\ (HandleRetry \/ HandleDelay \/ HandleReceive)

Next ==
    \/ SenderStart
    \/ ReceiverStart
    \/ \E p \in Process : Loop(p)
    \/ RetryExpires
    \/ DelayExpires
    \/ \E n \in Messages, l \in Listeners : ReceiveDatagram(n, l)
    \/ \E p \in Process : ReceiveFails(p)
    \/ \E n \in Messages, l \in Listeners : Answer(n, l)
    \/ Lose

\* Both programs are started, their loops go on, and time passes.  Of the
\* network it is only assumed that what is sent again and again arrives at
\* some time, and that the listeners stay to answer it.
Fairness ==
    /\ WF_vars(SenderStart) /\ WF_vars(ReceiverStart)
    /\ \A p \in Process : WF_vars(Loop(p))
    /\ WF_vars(RetryExpires) /\ WF_vars(DelayExpires)
    /\ \A n \in Messages : /\ SF_vars(\E l \in Listeners : Answer(n, l))
                          /\ SF_vars(\E l \in Listeners : ReceiveDatagram(n, l))

Spec == Init /\ [][Next]_vars /\ Fairness

-----------------------------------------------------------------------------
Queued(completion) == \E i \in DOMAIN queue["sender"] : queue["sender"][i] = completion

\* While the sender runs, something will make it send again, whatever the
\* order of expiries, ACKs and their handlers: a timer waits or its
\* completion is queued.  Its loop never runs out of work.
NeverSilent ==
    phase["sender"] = "running" =>
        retry_timer \/ delay_timer \/ Queued("retry") \/ Queued("delay")

\* The sender goes on to the next message only after a listener has answered
\* the one before: ACKs that come late, or from several listeners, do not
\* make it skip one.
CountIsAnswered == \A n \in 0..(count - 1) : n \in answered

\* Retries that were already queued when their timer was cancelled live on
\* beside the new ones, but they do not multiply: at most one more per
\* message that was acknowledged.
Pending(timer, completion) ==
    (IF timer THEN 1 ELSE 0)
    + Cardinality({i \in DOMAIN queue["sender"] : queue["sender"][i] = completion})

RetriesDoNotMultiply ==
    Pending(retry_timer, "retry") + Pending(delay_timer, "delay") <= count + 1

\* The receive of the sender has failed, and is not started again.
Deaf == phase["sender"] = "running" /\ ~armed["sender"] /\ ~Queued("receive")

\* The sender gets all its messages through a network that loses some of
\* them, and stops; unless a receive fails, after which UdpSocket never
\* receives again, or printing the message of a retry ends the process.
SenderFinishes ==
    <>(phase["sender"] \in {"stopped", "crashed"} \/ Deaf)
=============================================================================
