--------------------------- MODULE BroadcastProofs --------------------------
(***************************************************************************)
(* Proofs about Broadcast, for every number of messages and every set of   *)
(* listeners.                                                              *)
(***************************************************************************)
EXTENDS Broadcast, FiniteSetTheorems, TLAPS

Holds(q, completion) == \E i \in DOMAIN q : q[i] = completion

\* What makes the properties inductive: a sender that may still send has a
\* message to send; and what it learns from the network was answered.
Unfinished == phase["sender"] \in {"start", "running"} => count < max_count

AcksAreAnswers ==
    /\ \A d \in acks : d[1] \in answered
    /\ Holds(queue["sender"], "receive") => recv_buf \in answered

IInv == TypeOK /\ NeverSilent /\ CountIsAnswered /\ Unfinished /\ AcksAreAnswers

-----------------------------------------------------------------------------
\* A completion that is queued stays queued when another one is handled.
LEMMA TailKeeps ==
    ASSUME NEW q \in Seq(Completion), q # <<>>, NEW c, Holds(q, c), Head(q) # c
    PROVE  Holds(Tail(q), c)
<1>1. PICK i \in DOMAIN q : q[i] = c
  BY DEF Holds
<1>2. i \in 2..Len(q)
  BY <1>1
<1>3. i - 1 \in DOMAIN Tail(q) /\ Tail(q)[i - 1] = c
  BY <1>1, <1>2
<1> QED BY <1>3 DEF Holds

\* Handling a completion queues no other one.
LEMMA TailAddsNothing ==
    ASSUME NEW q \in Seq(Completion), q # <<>>, NEW c, Holds(Tail(q), c)
    PROVE  Holds(q, c)
<1>1. PICK i \in DOMAIN Tail(q) : Tail(q)[i] = c
  BY DEF Holds
<1>2. i + 1 \in DOMAIN q /\ q[i + 1] = c
  BY <1>1
<1> QED BY <1>2 DEF Holds

\* What a completion that is appended changes.
LEMMA AppendHolds ==
    ASSUME NEW q \in Seq(Completion), NEW c, NEW d \in Completion
    PROVE  Holds(Append(q, d), c) <=> (Holds(q, c) \/ c = d)
<1>1. Append(q, d) \in Seq(Completion) /\ Len(Append(q, d)) = Len(q) + 1
  OBVIOUS
<1>2. Append(q, d)[Len(q) + 1] = d
  OBVIOUS
<1>3. \A i \in 1..Len(q) : Append(q, d)[i] = q[i]
  OBVIOUS
<1>4. ASSUME Holds(Append(q, d), c) PROVE Holds(q, c) \/ c = d
  <2>1. PICK i \in 1..(Len(q) + 1) : Append(q, d)[i] = c
    BY <1>1, <1>4 DEF Holds
  <2>2. CASE i = Len(q) + 1
    BY <1>2, <2>1, <2>2
  <2>3. CASE i # Len(q) + 1
    <3>1. i \in DOMAIN q /\ q[i] = c
      BY <1>3, <2>1, <2>3
    <3> QED BY <3>1 DEF Holds
  <2> QED BY <2>2, <2>3
<1>5. ASSUME Holds(q, c) PROVE Holds(Append(q, d), c)
  <2>1. PICK i \in DOMAIN q : q[i] = c
    BY <1>5 DEF Holds
  <2>2. i \in DOMAIN Append(q, d) /\ Append(q, d)[i] = c
    BY <1>1, <1>3, <2>1
  <2> QED BY <2>2 DEF Holds
<1>6. Holds(Append(q, d), d)
  <2>1. Len(q) + 1 \in DOMAIN Append(q, d)
    BY <1>1
  <2> QED BY <1>2, <2>1 DEF Holds
<1> QED BY <1>4, <1>5, <1>6
-----------------------------------------------------------------------------
\* The queue of the sender is typed, and so is what is left of it.
LEMMA QueueTyped ==
    ASSUME TypeOK, NEW p \in Process
    PROVE  /\ queue[p] \in Seq(Completion)
           /\ queue[p] # <<>> => Tail(queue[p]) \in Seq(Completion)
           /\ \A c \in Completion : Append(queue[p], c) \in Seq(Completion)
BY DEF TypeOK

LEMMA Initially == Init => IInv
<1> SUFFICES ASSUME Init PROVE IInv
  OBVIOUS
<1> USE MaxCountAssumption DEF Init
<1>1. TypeOK
  <2>1. queue \in [Process -> Seq(Completion)] /\ phase \in [Process -> {"start"}]
    OBVIOUS
  <2>2. is_open \in [Process -> BOOLEAN] /\ armed \in [Process -> BOOLEAN]
    BY Zenon
  <2>3. recv_buf \in Messages /\ count \in 0..max_count
    BY DEF Messages
  <2> QED BY <2>1, <2>2, <2>3 DEF TypeOK
<1>2. NeverSilent /\ Unfinished
  BY DEF NeverSilent, Unfinished, Process
<1>3. CountIsAnswered
  BY DEF CountIsAnswered
<1>4. AcksAreAnswers
  BY DEF AcksAreAnswers, Holds, Process
<1> QED BY <1>1, <1>2, <1>3, <1>4 DEF IInv

\* What send_current leaves.
LEMMA SendTyped ==
    ASSUME TypeOK, send_current
    PROVE  retry_timer' \in BOOLEAN /\ broadcasts' \subseteq Datagram
<1>1. CASE count >= max_count
  BY <1>1 DEF send_current, TypeOK
<1>2. CASE ~(count >= max_count)
  <2>1. count \in Messages
    BY <1>2, MaxCountAssumption DEF TypeOK, Messages
  <2> QED BY <1>2, <2>1 DEF send_current, async_send_to, TypeOK, Datagram
<1> QED BY <1>1, <1>2

\* What the two programs do to their sockets when they start: the one of the
\* sender is open and receives, the one of the receiver is as it was.
LEMMA SenderStarts ==
    ASSUME TypeOK, SenderStart
    PROVE  /\ is_open' \in [Process -> BOOLEAN] /\ armed' \in [Process -> BOOLEAN]
           /\ queue' = [queue EXCEPT !["sender"] = <<>>]
           /\ queue' \in [Process -> Seq(Completion)]
<1> USE DEF TypeOK, Process
<1>1. is_open' = [is_open EXCEPT !["sender"] = TRUE]
  BY DEF SenderStart, set_broadcast
<1>2. is_open'["sender"] = TRUE
  BY <1>1
<1>3. armed' = [armed EXCEPT !["sender"] = TRUE]
  BY <1>2 DEF SenderStart, start_receive
<1>4. queue' = [queue EXCEPT !["sender"] = <<>>]
  BY <1>2 DEF SenderStart, start_receive
<1>5. is_open' \in [Process -> BOOLEAN] /\ armed' \in [Process -> BOOLEAN]
  BY <1>1, <1>3, Zenon
<1>6. queue' \in [Process -> Seq(Completion)]
  BY <1>4
<1> QED BY <1>4, <1>5, <1>6

LEMMA ReceiverStarts ==
    ASSUME TypeOK, ReceiverStart
    PROVE  /\ is_open' \in [Process -> BOOLEAN] /\ armed' \in [Process -> BOOLEAN]
           /\ queue'["sender"] = queue["sender"]
           /\ queue' \in [Process -> Seq(Completion)]
<1> USE DEF TypeOK, Process
<1>1. is_open' = [is_open EXCEPT !["receiver"] = is_open["receiver"]]
  BY DEF ReceiverStart, Bind
<1>2. is_open'["receiver"] = is_open["receiver"] /\ is_open["receiver"] \in BOOLEAN
  BY <1>1
<1>3. armed' = [armed EXCEPT !["receiver"] = is_open["receiver"]]
  BY <1>2 DEF ReceiverStart, start_receive
<1>4. queue' = [queue EXCEPT !["receiver"] = IF is_open["receiver"] THEN <<>> ELSE Append(<<>>, "error")]
  BY <1>2 DEF ReceiverStart, start_receive
<1>5. is_open' \in [Process -> BOOLEAN] /\ armed' \in [Process -> BOOLEAN]
  BY <1>1, <1>2, <1>3, Zenon
<1>6. <<>> \in Seq(Completion) /\ Append(<<>>, "error") \in Seq(Completion)
  BY DEF Completion
<1>7. queue' \in [Process -> Seq(Completion)]
  <2>1. CASE is_open["receiver"]
    BY <1>4, <1>6, <2>1
  <2>2. CASE ~is_open["receiver"]
    BY <1>4, <1>6, <2>2
  <2> QED BY <2>1, <2>2
<1> QED BY <1>4, <1>5, <1>7

\* The type invariant, for every action.
LEMMA TypeStep ==
    ASSUME TypeOK, Unfinished, Next PROVE TypeOK'
<1> USE MaxCountAssumption DEF TypeOK, Process, Completion, Messages, Datagram
<1>0. \A p \in Process : /\ queue[p] \in Seq(Completion)
                         /\ queue[p] # <<>> => Tail(queue[p]) \in Seq(Completion)
                         /\ \A c \in Completion : Append(queue[p], c) \in Seq(Completion)
  BY QueueTyped
<1>1. CASE SenderStart
  <2>1. phase' \in [Process -> {"start", "running", "stopped", "ended", "crashed"}]
    BY <1>1 DEF SenderStart
  <2>2. is_open' \in [Process -> BOOLEAN] /\ armed' \in [Process -> BOOLEAN]
    BY <1>1, SenderStarts
  <2>3. queue' \in [Process -> Seq(Completion)]
    BY <1>1, SenderStarts
  <2>4. retry_timer' \in BOOLEAN /\ delay_timer' \in BOOLEAN /\ broadcasts' \subseteq Datagram
    BY <1>1, SendTyped DEF SenderStart
  <2> QED BY <1>1, <2>1, <2>2, <2>3, <2>4 DEF SenderStart
<1>2. CASE ReceiverStart
  <2>1. phase' \in [Process -> {"start", "running", "stopped", "ended", "crashed"}]
    BY <1>2 DEF ReceiverStart
  <2>2. is_open' \in [Process -> BOOLEAN] /\ armed' \in [Process -> BOOLEAN]
    BY <1>2, ReceiverStarts
  <2>3. queue' \in [Process -> Seq(Completion)]
    BY <1>2, ReceiverStarts
  <2> QED BY <1>2, <2>1, <2>2, <2>3 DEF ReceiverStart, network, timers
<1>3. ASSUME NEW p \in Process, HandleError(p) PROVE TypeOK'
  BY <1>0, <1>3 DEF HandleError, Handles, network, timers
<1>4. ASSUME NEW p \in Process, RunReturns(p) PROVE TypeOK'
  BY <1>4 DEF RunReturns, network, timers
<1>5. CASE HandleRetry
  <2>1. phase' \in [Process -> {"start", "running", "stopped", "ended", "crashed"}]
    BY <1>5 DEF HandleRetry
  <2>2. queue' \in [Process -> Seq(Completion)]
    BY <1>0, <1>5 DEF HandleRetry, Handles
  <2>3. retry_timer' \in BOOLEAN /\ broadcasts' \subseteq Datagram
    BY <1>5, SendTyped DEF HandleRetry
  <2> QED BY <1>5, <2>1, <2>2, <2>3 DEF HandleRetry
<1>6. CASE HandleDelay
  <2>1. phase' \in [Process -> {"start", "running", "stopped", "ended", "crashed"}]
    BY <1>6 DEF HandleDelay
  <2>2. queue' \in [Process -> Seq(Completion)]
    BY <1>0, <1>6 DEF HandleDelay, Handles
  <2>3. retry_timer' \in BOOLEAN /\ broadcasts' \subseteq Datagram
    BY <1>6, SendTyped DEF HandleDelay
  <2> QED BY <1>6, <2>1, <2>2, <2>3 DEF HandleDelay
<1>7. CASE HandleReceive
  <2>1. count' \in 0..max_count
    BY <1>7 DEF HandleReceive, Handles, Unfinished
  <2>2. phase' \in [Process -> {"start", "running", "stopped", "ended", "crashed"}]
    BY <1>7 DEF HandleReceive, Handles
  <2>3. armed' \in [Process -> BOOLEAN]
    BY <1>7, Zenon DEF HandleReceive, start_receive
  <2>4. queue' \in [Process -> Seq(Completion)]
    BY <1>0, <1>7 DEF HandleReceive, Handles, start_receive
  <2>5. retry_timer' \in BOOLEAN /\ delay_timer' \in BOOLEAN
    BY <1>7, Zenon DEF HandleReceive
  <2> QED BY <1>7, <2>1, <2>2, <2>3, <2>4, <2>5 DEF HandleReceive, network
<1>8. CASE RetryExpires
  BY <1>0, <1>8 DEF RetryExpires, network
<1>9. CASE DelayExpires
  BY <1>0, <1>9 DEF DelayExpires, network
<1>10. ASSUME NEW n \in Messages, NEW l \in Listeners, ReceiveDatagram(n, l) PROVE TypeOK'
  BY <1>0, <1>10 DEF ReceiveDatagram, timers
<1>11. ASSUME NEW p \in Process, ReceiveFails(p) PROVE TypeOK'
  BY <1>0, <1>11 DEF ReceiveFails, network, timers
<1>12. ASSUME NEW n \in Messages, NEW l \in Listeners, Answer(n, l) PROVE TypeOK'
  BY <1>12 DEF Answer, timers
<1>13. CASE Lose
  BY <1>13 DEF Lose, timers
<1> QED
  BY <1>1, <1>2, <1>3, <1>4, <1>5, <1>6, <1>7, <1>8, <1>9, <1>10, <1>11, <1>12, <1>13 DEF Next, Loop

\* The queue of the sender as the lemmas about queues see it.
LEMMA QueuedIsHolds ==
    \A c : (Queued(c) <=> Holds(queue["sender"], c)) /\ (Queued(c)' <=> Holds(queue'["sender"], c))
BY DEF Queued, Holds

\* Either the queue of the sender is as before, or a completion was added at
\* its end, or the first one was handled.
LEMMA SenderQueueStep ==
    ASSUME TypeOK, Next, phase["sender"] # "start"
    PROVE  LET q == queue["sender"] IN
           \/ queue'["sender"] = q /\ UNCHANGED timers
           \/ /\ RetryExpires
              /\ queue'["sender"] = Append(q, "retry")
           \/ /\ DelayExpires
              /\ queue'["sender"] = Append(q, "delay")
           \/ /\ \E n \in Messages, l \in Listeners : ReceiveDatagram(n, l)
              /\ queue'["sender"] = Append(q, "receive")
           \/ /\ queue'["sender"] = Append(q, "error")
              /\ UNCHANGED <<timers, recv_buf>>
           \/ /\ q # <<>> /\ queue'["sender"] = Tail(q)
              /\ \/ HandleRetry \/ HandleDelay \/ HandleReceive
                 \/ Head(q) = "error" /\ UNCHANGED timers
<1> USE DEF TypeOK, Process
<1>1. ASSUME NEW p \in Process, HandleError(p)
      PROVE  \/ queue'["sender"] = queue["sender"] /\ UNCHANGED timers
             \/ /\ queue["sender"] # <<>> /\ queue'["sender"] = Tail(queue["sender"])
                /\ Head(queue["sender"]) = "error" /\ UNCHANGED timers
  BY <1>1 DEF HandleError, Handles
<1>2. ASSUME NEW p \in Process, RunReturns(p)
      PROVE  queue'["sender"] = queue["sender"] /\ UNCHANGED timers
  BY <1>2 DEF RunReturns
<1>3. ASSUME HandleRetry \/ HandleDelay
      PROVE  queue["sender"] # <<>> /\ queue'["sender"] = Tail(queue["sender"])
  BY <1>3 DEF HandleRetry, HandleDelay, Handles
<1>4. ASSUME HandleReceive
      PROVE  queue["sender"] # <<>> /\ queue'["sender"] = Tail(queue["sender"])
  BY <1>4 DEF HandleReceive, Handles, start_receive
<1>5. ASSUME RetryExpires PROVE queue'["sender"] = Append(queue["sender"], "retry")
  BY <1>5 DEF RetryExpires
<1>6. ASSUME DelayExpires PROVE queue'["sender"] = Append(queue["sender"], "delay")
  BY <1>6 DEF DelayExpires
<1>7. ASSUME NEW n \in Messages, NEW l \in Listeners, ReceiveDatagram(n, l)
      PROVE  queue'["sender"] = Append(queue["sender"], "receive")
  BY <1>7 DEF ReceiveDatagram
<1>8. ASSUME NEW p \in Process, ReceiveFails(p)
      PROVE  \/ queue'["sender"] = queue["sender"] /\ UNCHANGED timers
             \/ /\ queue'["sender"] = Append(queue["sender"], "error")
                /\ UNCHANGED <<timers, recv_buf>>
  BY <1>8 DEF ReceiveFails
<1>9. ASSUME \/ \E n \in Messages, l \in Listeners : Answer(n, l)
             \/ Lose
      PROVE  queue'["sender"] = queue["sender"] /\ UNCHANGED timers
  BY <1>9 DEF Answer, Lose
<1>10. ASSUME ReceiverStart
       PROVE  queue'["sender"] = queue["sender"] /\ UNCHANGED timers
  BY <1>10, ReceiverStarts DEF ReceiverStart
<1>11. ~SenderStart
  BY DEF SenderStart
<1> QED
  BY <1>1, <1>2, <1>3, <1>4, <1>5, <1>6, <1>7, <1>8, <1>9, <1>10, <1>11, Zenon DEF Next, Loop

\* A sender that goes on has a message left to send.
LEMMA UnfinishedStep ==
    ASSUME TypeOK, Unfinished, Next PROVE Unfinished'
<1> USE DEF TypeOK, Process, Unfinished
<1>1. CASE HandleReceive
  BY <1>1, MaxCountAssumption DEF HandleReceive, Handles
<1>2. CASE ~HandleReceive
  <2>1. count' = count
    BY <1>2 DEF Next, Loop, SenderStart, ReceiverStart, HandleError, RunReturns, HandleRetry,
       HandleDelay, RetryExpires, DelayExpires, ReceiveDatagram, ReceiveFails, Answer, Lose
  <2>2. phase'["sender"] \in {"start", "running"} => phase["sender"] \in {"start", "running"}
    <3>1. CASE SenderStart \/ ReceiverStart
      BY <3>1 DEF SenderStart, ReceiverStart
    <3>2. ASSUME NEW p \in Process, RunReturns(p)
          PROVE  phase'["sender"] \in {"start", "running"} => phase["sender"] \in {"start", "running"}
      BY <3>2 DEF RunReturns
    <3>3. CASE HandleRetry
      BY <3>3 DEF HandleRetry, Handles
    <3>4. ASSUME phase' = phase
          PROVE  phase'["sender"] \in {"start", "running"} => phase["sender"] \in {"start", "running"}
      BY <3>4
    <3> QED
      BY <1>2, <3>1, <3>2, <3>3, <3>4 DEF Next, Loop, HandleError, HandleDelay, RetryExpires,
         DelayExpires, ReceiveDatagram, ReceiveFails, Answer, Lose
  <2> QED BY <2>1, <2>2
<1> QED BY <1>1, <1>2

\* The sender keeps a reason to send again.
LEMMA NeverSilentStep ==
    ASSUME TypeOK, Unfinished, NeverSilent, Next PROVE NeverSilent'
<1> SUFFICES ASSUME phase'["sender"] = "running"
             PROVE  \/ retry_timer' \/ delay_timer'
                    \/ Holds(queue'["sender"], "retry") \/ Holds(queue'["sender"], "delay")
  BY QueuedIsHolds DEF NeverSilent
<1> USE DEF TypeOK, Process
<1>1. CASE SenderStart
  <2>1. ~(count >= max_count)
    BY <1>1, MaxCountAssumption DEF SenderStart, Unfinished
  <2> QED BY <1>1, <2>1 DEF SenderStart, send_current
<1>2. CASE ~SenderStart
  <2> DEFINE q == queue["sender"]
  <2>1. phase["sender"] = "running"
    BY <1>2 DEF Next, Loop, ReceiverStart, HandleError, RunReturns, HandleRetry, HandleDelay,
       HandleReceive, Handles, RetryExpires, DelayExpires, ReceiveDatagram, ReceiveFails, Answer, Lose
  <2>2. retry_timer \/ delay_timer \/ Holds(q, "retry") \/ Holds(q, "delay")
    BY <2>1, QueuedIsHolds DEF NeverSilent
  <2>3. q \in Seq(Completion)
    OBVIOUS
  <2>4. \A c, d \in Completion : Holds(Append(q, d), c) <=> (Holds(q, c) \/ c = d)
    BY <2>3, AppendHolds
  <2>5. {"retry", "delay", "error", "receive"} \subseteq Completion
    BY DEF Completion
  <2>6. ~(count >= max_count)
    BY <2>1, MaxCountAssumption DEF Unfinished
  <2>7. CASE queue'["sender"] = q /\ UNCHANGED timers
    BY <2>2, <2>7 DEF timers
  <2>8. CASE RetryExpires /\ queue'["sender"] = Append(q, "retry")
    BY <2>4, <2>5, <2>8
  <2>9. CASE DelayExpires /\ queue'["sender"] = Append(q, "delay")
    BY <2>4, <2>5, <2>9
  <2>10. ASSUME NEW n \in Messages, NEW l \in Listeners, ReceiveDatagram(n, l),
                queue'["sender"] = Append(q, "receive")
         PROVE  \/ retry_timer' \/ delay_timer'
                \/ Holds(queue'["sender"], "retry") \/ Holds(queue'["sender"], "delay")
    BY <2>2, <2>4, <2>5, <2>10 DEF ReceiveDatagram, timers
  <2>11. CASE queue'["sender"] = Append(q, "error") /\ UNCHANGED timers
    BY <2>2, <2>4, <2>5, <2>11 DEF timers
  <2>12. CASE HandleRetry
    BY <2>6, <2>12 DEF HandleRetry, send_current
  <2>13. CASE HandleDelay
    BY <2>6, <2>13 DEF HandleDelay, send_current
  <2>14. ASSUME q # <<>>, queue'["sender"] = Tail(q), Head(q) \notin {"retry", "delay"},
                UNCHANGED timers
         PROVE  \/ retry_timer' \/ delay_timer'
                \/ Holds(queue'["sender"], "retry") \/ Holds(queue'["sender"], "delay")
    <3>1. (Holds(q, "retry") => Holds(Tail(q), "retry")) /\ (Holds(q, "delay") => Holds(Tail(q), "delay"))
      BY <2>3, <2>14, TailKeeps
    <3> QED BY <2>2, <2>14, <3>1 DEF timers
  <2>15. CASE HandleReceive /\ q # <<>> /\ queue'["sender"] = Tail(q)
    <3>1. CASE recv_buf = count
      <4>1. count' < max_count
        BY <2>1, <2>15, <3>1, MaxCountAssumption DEF HandleReceive
      <4> QED BY <2>15, <3>1, <4>1 DEF HandleReceive
    <3>2. CASE recv_buf # count
      <4>1. Head(q) \notin {"retry", "delay"} /\ UNCHANGED timers
        BY <2>15, <3>2 DEF HandleReceive, Handles, timers
      <4> QED BY <2>14, <2>15, <4>1
    <3> QED BY <3>1, <3>2
  <2>16. phase["sender"] # "start"
    BY <2>1
  <2> HIDE DEF q
  <2> QED
    BY <2>7, <2>8, <2>9, <2>10, <2>11, <2>12, <2>13, <2>14, <2>15, <2>16, SenderQueueStep DEF q, timers
<1> QED BY <1>1, <1>2

\* Nothing is forgotten of what was answered, and only ReceiveDatagram writes
\* the buffer of the sender.
LEMMA AnswersGrow ==
    ASSUME Next
    PROVE  /\ answered \subseteq answered'
           /\ recv_buf' = recv_buf \/ \E n \in Messages, l \in Listeners : ReceiveDatagram(n, l)
           /\ \A d \in acks' : d \in acks \/ d[1] \in answered'
<1>1. CASE \E n \in Messages, l \in Listeners : Answer(n, l)
  BY <1>1 DEF Answer
<1>2. CASE \E n \in Messages, l \in Listeners : ReceiveDatagram(n, l)
  BY <1>2 DEF ReceiveDatagram
<1>3. CASE Lose
  BY <1>3 DEF Lose
<1>4. ASSUME UNCHANGED <<answered, acks, recv_buf>>
      PROVE  /\ answered \subseteq answered' /\ recv_buf' = recv_buf
             /\ \A d \in acks' : d \in acks
  BY <1>4
<1> QED
  BY <1>1, <1>2, <1>3, <1>4 DEF Next, Loop, SenderStart, ReceiverStart, HandleError, RunReturns,
     HandleRetry, HandleDelay, HandleReceive, RetryExpires, DelayExpires, ReceiveFails, network

\* What the sender has received was answered.
LEMMA AcksStep ==
    ASSUME TypeOK, AcksAreAnswers, Next PROVE AcksAreAnswers'
<1> USE DEF TypeOK, Process
<1> DEFINE q == queue["sender"]
<1>1. answered \subseteq answered' /\ \A d \in acks' : d \in acks \/ d[1] \in answered'
  BY AnswersGrow
<1>2. \A d \in acks' : d[1] \in answered'
  BY <1>1 DEF AcksAreAnswers
<1>3. ASSUME Holds(queue'["sender"], "receive") PROVE recv_buf' \in answered'
  <2>1. CASE \E n \in Messages, l \in Listeners : ReceiveDatagram(n, l)
    <3>1. PICK n \in Messages, l \in Listeners : ReceiveDatagram(n, l)
      BY <2>1
    <3>2. <<n, l>>[1] \in answered
      BY <3>1 DEF ReceiveDatagram, AcksAreAnswers
    <3> QED BY <1>1, <3>1, <3>2 DEF ReceiveDatagram
  <2>2. CASE ~(\E n \in Messages, l \in Listeners : ReceiveDatagram(n, l))
    <3>1. recv_buf' = recv_buf
      BY <2>2, AnswersGrow
    <3>2. Holds(q, "receive")
      <4>1. CASE SenderStart
        BY <1>3, <4>1, SenderStarts DEF Holds
      <4>2. CASE ~SenderStart
        <5>1. q \in Seq(Completion)
          OBVIOUS
        <5>2. \A c, d \in Completion : Holds(Append(q, d), c) <=> (Holds(q, c) \/ c = d)
          BY <5>1, AppendHolds
        <5>3. q # <<>> /\ Holds(Tail(q), "receive") => Holds(q, "receive")
          BY <5>1, TailAddsNothing
        <5>4. {"retry", "delay", "error", "receive"} \subseteq Completion
          BY DEF Completion
        <5>5. \/ queue'["sender"] = q
              \/ queue'["sender"] \in {Append(q, "retry"), Append(q, "delay"), Append(q, "error")}
              \/ q # <<>> /\ queue'["sender"] = Tail(q)
          <6>1. CASE phase["sender"] # "start"
            BY <2>2, <6>1, SenderQueueStep
          <6>2. CASE phase["sender"] = "start"
            BY <4>2, <6>2, ReceiverStarts DEF Next, Loop, HandleError, RunReturns,
               HandleRetry, HandleDelay, HandleReceive, Handles, RetryExpires, DelayExpires,
               ReceiveDatagram, ReceiveFails, Answer, Lose
          <6> QED BY <6>1, <6>2
        <5>6. ASSUME NEW d \in {"retry", "delay", "error"}, queue'["sender"] = Append(q, d)
              PROVE  Holds(q, "receive")
          BY <1>3, <5>2, <5>4, <5>6
        <5>7. ASSUME queue'["sender"] = q PROVE Holds(q, "receive")
          BY <1>3, <5>7
        <5>8. ASSUME q # <<>>, queue'["sender"] = Tail(q) PROVE Holds(q, "receive")
          BY <1>3, <5>3, <5>8
        <5> HIDE DEF q
        <5> QED BY <5>5, <5>6, <5>7, <5>8
      <4> QED BY <4>1, <4>2
    <3> QED BY <1>1, <3>1, <3>2 DEF AcksAreAnswers
  <2> QED BY <2>1, <2>2
<1> QED BY <1>2, <1>3 DEF AcksAreAnswers

\* The sender only counts messages that were answered.
LEMMA CountStep ==
    ASSUME TypeOK, AcksAreAnswers, CountIsAnswered, Next PROVE CountIsAnswered'
<1> USE DEF TypeOK, Process
<1>1. answered \subseteq answered'
  BY AnswersGrow
<1>2. CASE HandleReceive
  <2>1. Holds(queue["sender"], "receive")
    <3>1. 1 \in DOMAIN queue["sender"] /\ queue["sender"][1] = "receive"
      BY <1>2 DEF HandleReceive, Handles
    <3> QED BY <3>1 DEF Holds
  <2>2. recv_buf \in answered
    BY <2>1 DEF AcksAreAnswers
  <2>3. count' = count \/ (count' = count + 1 /\ recv_buf = count)
    BY <1>2 DEF HandleReceive
  <2>4. count \in Nat
    BY MaxCountAssumption
  <2> QED BY <1>1, <2>2, <2>3, <2>4 DEF CountIsAnswered
<1>3. CASE ~HandleReceive
  <2>1. count' = count
    BY <1>3 DEF Next, Loop, SenderStart, ReceiverStart, HandleError, RunReturns, HandleRetry,
       HandleDelay, RetryExpires, DelayExpires, ReceiveDatagram, ReceiveFails, Answer, Lose
  <2> QED BY <1>1, <2>1 DEF CountIsAnswered
<1> QED BY <1>2, <1>3

-----------------------------------------------------------------------------
\* How often a completion is queued.
Places(q, c) == {i \in DOMAIN q : q[i] = c}
Count(q, c) == Cardinality(Places(q, c))

LEMMA CountType ==
    ASSUME NEW q \in Seq(Completion), NEW c
    PROVE  IsFiniteSet(Places(q, c)) /\ Count(q, c) \in Nat
<1>1. Places(q, c) \in SUBSET (1..Len(q)) /\ Len(q) \in Int
  BY DEF Places
<1>2. IsFiniteSet(1..Len(q))
  BY <1>1, FS_Interval
<1>3. IsFiniteSet(Places(q, c))
  BY <1>1, <1>2, FS_Subset
<1> QED BY <1>3, FS_CardinalityType DEF Count

\* A completion that is appended is counted.
LEMMA CountAppend ==
    ASSUME NEW q \in Seq(Completion), NEW c, NEW d \in Completion
    PROVE  Count(Append(q, d), c) = Count(q, c) + (IF c = d THEN 1 ELSE 0)
<1>1. /\ Append(q, d) \in Seq(Completion) /\ Len(Append(q, d)) = Len(q) + 1
      /\ Append(q, d)[Len(q) + 1] = d /\ Len(q) \in Nat
      /\ \A i \in 1..Len(q) : Append(q, d)[i] = q[i]
  OBVIOUS
<1>2. IsFiniteSet(Places(q, c)) /\ Count(q, c) \in Nat
  BY CountType
<1>3. Len(q) + 1 \notin Places(q, c)
  BY <1>1 DEF Places
<1>4. CASE c = d
  <2>1. Places(Append(q, d), c) = Places(q, c) \cup {Len(q) + 1}
    BY <1>1, <1>4 DEF Places
  <2> QED BY <1>2, <1>3, <1>4, <2>1, FS_AddElement DEF Count
<1>5. CASE c # d
  <2>1. Places(Append(q, d), c) = Places(q, c)
    BY <1>1, <1>5 DEF Places
  <2> QED BY <1>2, <1>5, <2>1 DEF Count
<1> QED BY <1>4, <1>5

\* A completion that is handled is no longer counted: the places of the
\* others move by one.
LEMMA CountTail ==
    ASSUME NEW q \in Seq(Completion), q # <<>>, NEW c
    PROVE  Count(Tail(q), c) = Count(q, c) - (IF Head(q) = c THEN 1 ELSE 0)
<1>1. /\ Tail(q) \in Seq(Completion) /\ Len(Tail(q)) = Len(q) - 1 /\ Len(q) \in Nat \ {0}
      /\ \A i \in 1..(Len(q) - 1) : Tail(q)[i] = q[i + 1]
      /\ Head(q) = q[1]
  OBVIOUS
<1>2. IsFiniteSet(Places(q, c)) /\ Count(q, c) \in Nat
  BY CountType
<1>3. IsFiniteSet(Places(Tail(q), c))
  BY <1>1, CountType
<1> DEFINE rest == Places(q, c) \ {1}
           shift == [i \in Places(Tail(q), c) |-> i + 1]
<1>4. shift \in Bijection(Places(Tail(q), c), rest)
  <2>1. shift \in [Places(Tail(q), c) -> rest]
    BY <1>1 DEF Places
  <2>2. \A i, j \in Places(Tail(q), c) : shift[i] = shift[j] => i = j
    BY <1>1 DEF Places
  <2>3. ASSUME NEW j \in rest PROVE \E i \in Places(Tail(q), c) : shift[i] = j
    <3>1. j - 1 \in Places(Tail(q), c) /\ shift[j - 1] = j
      BY <1>1 DEF Places
    <3> QED BY <3>1
  <2> QED BY <2>1, <2>2, <2>3 DEF Bijection, Injection, IsInjective, Surjection
<1>5. Count(Tail(q), c) = Cardinality(rest)
  BY <1>3, <1>4, FS_Bijection DEF ExistsBijection, Count
<1>6. 1 \in Places(q, c) <=> Head(q) = c
  BY <1>1 DEF Places
<1>7. Cardinality(rest) = IF 1 \in Places(q, c) THEN Count(q, c) - 1 ELSE Count(q, c)
  BY <1>2, FS_RemoveElement DEF Count
<1>8. Count(q, c) - 0 = Count(q, c)
  BY <1>2
<1> QED BY <1>5, <1>6, <1>7, <1>8

\* Before the sender starts none of its timers runs, so that it starts with
\* the one retry it sets itself.
NotYetTimed == phase["sender"] = "start" => ~retry_timer /\ ~delay_timer /\ count = 0

One(timer) == IF timer THEN 1 ELSE 0

Sends(q, retry, delay) == (One(retry) + Count(q, "retry")) + (One(delay) + Count(q, "delay"))

LEMMA PendingIsCount ==
    /\ RetriesDoNotMultiply <=> Sends(queue["sender"], retry_timer, delay_timer) <= count + 1
    /\ RetriesDoNotMultiply' <=> Sends(queue'["sender"], retry_timer', delay_timer') <= count' + 1
<1>1. Pending(retry_timer, "retry") + Pending(delay_timer, "delay")
          = (One(retry_timer) + Count(queue["sender"], "retry"))
            + (One(delay_timer) + Count(queue["sender"], "delay"))
  BY DEF Pending, One, Count, Places
<1>2. (Pending(retry_timer, "retry") + Pending(delay_timer, "delay"))'
          = (One(retry_timer') + Count(queue'["sender"], "retry"))
            + (One(delay_timer') + Count(queue'["sender"], "delay"))
  BY DEF Pending, One, Count, Places
<1> QED BY <1>1, <1>2 DEF RetriesDoNotMultiply, Sends

LEMMA CountGrows == TypeOK /\ Next => count' \in Nat /\ count' >= count
<1> SUFFICES ASSUME TypeOK, Next PROVE count' \in Nat /\ count' >= count
  OBVIOUS
<1>1. count \in Nat
  BY DEF TypeOK
<1>2. CASE HandleReceive
  BY <1>1, <1>2 DEF HandleReceive
<1>3. CASE ~HandleReceive
  <2>1. count' = count
    BY <1>3 DEF Next, Loop, SenderStart, ReceiverStart, HandleError, RunReturns, HandleRetry,
       HandleDelay, RetryExpires, DelayExpires, ReceiveDatagram, ReceiveFails, Answer, Lose
  <2> QED BY <1>1, <2>1
<1> QED BY <1>2, <1>3

\* A completion in the queue or a timer that runs is handed on, one for one;
\* only an ACK that counts adds one, with the message it acknowledges.
LEMMA RetriesStep ==
    ASSUME TypeOK, NotYetTimed, RetriesDoNotMultiply, Next
    PROVE  NotYetTimed' /\ RetriesDoNotMultiply'
<1> USE DEF TypeOK, Process
<1> DEFINE q == queue["sender"]
           R == Count(q, "retry")
           D == Count(q, "delay")
<1>1. q \in Seq(Completion)
  OBVIOUS
<1>2. R \in Nat /\ D \in Nat
  BY <1>1, CountType
<1>3. (One(retry_timer) + R) + (One(delay_timer) + D) <= count + 1
  BY PendingIsCount DEF Sends
<1>4. CASE SenderStart
  <2>1. queue'["sender"] = <<>>
    BY <1>4, SenderStarts
  <2>2. count = 0 /\ ~delay_timer /\ count' = 0 /\ delay_timer' = delay_timer
    BY <1>4 DEF NotYetTimed, SenderStart
  <2>3. Count(<<>>, "retry") = 0 /\ Count(<<>>, "delay") = 0
    BY FS_EmptySet DEF Count, Places
  <2>4. One(retry_timer') \in {0, 1} /\ One(delay_timer') = 0
    BY <2>2 DEF One
  <2>5. RetriesDoNotMultiply'
    BY <2>1, <2>2, <2>3, <2>4, PendingIsCount DEF Sends
  <2>6. phase'["sender"] = "running"
    BY <1>4 DEF SenderStart
  <2> QED BY <2>5, <2>6 DEF NotYetTimed
<1>5. CASE ~SenderStart /\ phase["sender"] = "start"
  <2>1. \/ ReceiverStart \/ \E p \in {"receiver"} : HandleError(p) \/ RunReturns(p) \/ ReceiveFails(p)
        \/ \E n \in Messages, l \in Listeners : Answer(n, l)
        \/ Lose
    BY <1>5 DEF Next, Loop, HandleError, RunReturns, ReceiveFails, HandleRetry, HandleDelay,
       HandleReceive, Handles, RetryExpires, DelayExpires, ReceiveDatagram
  <2>2. queue'["sender"] = q /\ UNCHANGED <<retry_timer, delay_timer, count>>
    BY <2>1, ReceiverStarts DEF ReceiverStart, HandleError, RunReturns, ReceiveFails, Answer, Lose, timers
  <2> QED BY <1>5, <2>2, PendingIsCount DEF NotYetTimed
<1>6. CASE ~SenderStart /\ phase["sender"] # "start"
  <2>1. phase'["sender"] # "start"
    BY <1>6 DEF Next, Loop, ReceiverStart, HandleError, RunReturns, HandleRetry, HandleDelay,
       HandleReceive, Handles, RetryExpires, DelayExpires, ReceiveDatagram, ReceiveFails, Answer, Lose
  <2>2. \A c, d \in Completion : Count(Append(q, d), c) = Count(q, c) + (IF c = d THEN 1 ELSE 0)
    BY <1>1, CountAppend
  <2>3. q # <<>> => \A c \in Completion : Count(Tail(q), c) = Count(q, c) - (IF Head(q) = c THEN 1 ELSE 0)
    BY <1>1, CountTail
  <2> SUFFICES Sends(queue'["sender"], retry_timer', delay_timer') <= count' + 1
    BY <2>1, PendingIsCount DEF NotYetTimed
  <2> USE DEF Sends, Completion
  <2>4. One(retry_timer) \in {0, 1} /\ One(delay_timer) \in {0, 1}
        /\ One(retry_timer') \in {0, 1} /\ One(delay_timer') \in {0, 1} /\ count \in Nat
    BY DEF One
  <2>5. CASE queue'["sender"] = q /\ UNCHANGED timers
    <3>1. count' \in Nat /\ count' >= count
      BY CountGrows
    <3> QED BY <1>2, <1>3, <2>4, <2>5, <3>1 DEF timers
  <2>6. CASE RetryExpires /\ queue'["sender"] = Append(q, "retry")
    <3>1. count' = count /\ One(retry_timer') = 0 /\ One(retry_timer) = 1 /\ delay_timer' = delay_timer
      BY <2>6 DEF RetryExpires, One
    <3>2. Count(queue'["sender"], "retry") = R + 1 /\ Count(queue'["sender"], "delay") = D
      BY <1>2, <2>2, <2>6
    <3> QED BY <1>2, <1>3, <2>4, <3>1, <3>2
  <2>7. CASE DelayExpires /\ queue'["sender"] = Append(q, "delay")
    <3>1. count' = count /\ One(delay_timer') = 0 /\ One(delay_timer) = 1 /\ retry_timer' = retry_timer
      BY <2>7 DEF DelayExpires, One
    <3>2. Count(queue'["sender"], "retry") = R /\ Count(queue'["sender"], "delay") = D + 1
      BY <1>2, <2>2, <2>7
    <3> QED BY <1>2, <1>3, <2>4, <3>1, <3>2
  <2>8. CASE /\ \E n \in Messages, l \in Listeners : ReceiveDatagram(n, l)
             /\ queue'["sender"] = Append(q, "receive")
    <3>1. count' = count /\ retry_timer' = retry_timer /\ delay_timer' = delay_timer
      BY <2>8 DEF ReceiveDatagram, timers
    <3>2. Count(queue'["sender"], "retry") = R /\ Count(queue'["sender"], "delay") = D
      BY <1>2, <2>2, <2>8
    <3> QED BY <1>2, <1>3, <2>4, <3>1, <3>2
  <2>9. CASE queue'["sender"] = Append(q, "error") /\ UNCHANGED <<timers, recv_buf>>
    <3>1. count' \in Nat /\ count' >= count
      BY CountGrows
    <3>2. Count(queue'["sender"], "retry") = R /\ Count(queue'["sender"], "delay") = D
      BY <1>2, <2>2, <2>9
    <3> QED BY <1>2, <1>3, <2>4, <2>9, <3>1, <3>2 DEF timers
  <2>10. CASE HandleRetry /\ q # <<>> /\ queue'["sender"] = Tail(q)
    <3>1. count' = count /\ delay_timer' = delay_timer /\ Head(q) = "retry"
      BY <2>10 DEF HandleRetry, Handles
    <3>2. Count(queue'["sender"], "retry") = R - 1 /\ Count(queue'["sender"], "delay") = D
      BY <1>2, <2>3, <2>10, <3>1
    <3>3. retry_timer' = retry_timer \/ One(retry_timer') = 1
      BY <2>10 DEF HandleRetry, send_current, One
    <3>4. One(retry_timer') = One(retry_timer) \/ One(retry_timer') = 1
      BY <3>3
    <3>5. One(delay_timer') = One(delay_timer)
      BY <3>1
    <3>6. /\ One(retry_timer') \in {0, 1} /\ One(retry_timer') <= One(retry_timer) + 1
      BY <2>4, <3>4
    <3>7. Sends(queue'["sender"], retry_timer', delay_timer')
             = (One(retry_timer') + (R - 1)) + (One(delay_timer) + D)
      BY <3>2, <3>5
    <3>8. count \in Nat
      OBVIOUS
    <3> HIDE DEF Sends, TypeOK, q, R, D
    <3> QED BY <1>2, <1>3, <2>4, <3>1, <3>6, <3>7, <3>8
  <2>11. CASE HandleDelay /\ q # <<>> /\ queue'["sender"] = Tail(q)
    <3>1. count' = count /\ delay_timer' = delay_timer /\ Head(q) = "delay"
      BY <2>11 DEF HandleDelay, Handles
    <3>2. Count(queue'["sender"], "retry") = R /\ Count(queue'["sender"], "delay") = D - 1
      BY <1>2, <2>3, <2>11, <3>1
    <3>3. retry_timer' = retry_timer \/ One(retry_timer') = 1
      BY <2>11 DEF HandleDelay, send_current, One
    <3> QED BY <1>2, <1>3, <2>4, <3>1, <3>2, <3>3
  <2>12. CASE HandleReceive /\ q # <<>> /\ queue'["sender"] = Tail(q)
    <3>1. Head(q) = "receive"
      BY <2>12 DEF HandleReceive, Handles
    <3>2. Count(queue'["sender"], "retry") = R /\ Count(queue'["sender"], "delay") = D
      BY <1>2, <2>3, <2>12, <3>1
    <3>3. \/ count' = count /\ retry_timer' = retry_timer /\ delay_timer' = delay_timer
          \/ count' = count + 1 /\ One(retry_timer') = 0
      BY <2>12 DEF HandleReceive, One
    <3> QED BY <1>2, <1>3, <2>4, <3>2, <3>3
  <2>13. CASE q # <<>> /\ queue'["sender"] = Tail(q) /\ Head(q) = "error" /\ UNCHANGED timers
    <3>1. count' \in Nat /\ count' >= count
      BY CountGrows
    <3>2. Count(queue'["sender"], "retry") = R /\ Count(queue'["sender"], "delay") = D
      BY <1>2, <2>3, <2>13
    <3> QED BY <1>2, <1>3, <2>4, <2>13, <3>1, <3>2 DEF timers
  <2> QED
    BY <1>6, <2>5, <2>6, <2>7, <2>8, <2>9, <2>10, <2>11, <2>12, <2>13, SenderQueueStep, Zenon
<1> QED BY <1>4, <1>5, <1>6

-----------------------------------------------------------------------------
\* The inductive invariant of the broadcast example.
THEOREM Invariance == Spec => []IInv
<1>1. Init => IInv
  BY Initially
<1>2. IInv /\ [Next]_vars => IInv'
  <2>1. ASSUME IInv, Next PROVE IInv'
    BY <2>1, TypeStep, UnfinishedStep, NeverSilentStep, AcksStep, CountStep DEF IInv
  <2>2. ASSUME IInv, UNCHANGED vars PROVE IInv'
    BY <2>2 DEF IInv, vars, timers, network, TypeOK, NeverSilent, Queued, CountIsAnswered,
       Unfinished, AcksAreAnswers, Holds
  <2> QED BY <2>1, <2>2
<1> QED BY <1>1, <1>2, PTL DEF Spec

\* All variables of the sender, the receiver and the network keep their types,
\* for every number of messages.
THEOREM TypeCorrect == Spec => []TypeOK
<1>1. IInv => TypeOK
  BY DEF IInv
<1> QED BY <1>1, Invariance, PTL

\* The sender always has a timer or a queued completion that makes it send
\* again: cancel and expires_after of the two timers never leave it waiting
\* for an ACK alone.
THEOREM SenderIsNeverSilent == Spec => []NeverSilent
<1>1. IInv => NeverSilent
  BY DEF IInv
<1> QED BY <1>1, Invariance, PTL

\* No message is skipped: the sender goes on only after an answer, whatever
\* ACKs come late or twice.
THEOREM CountsOnlyAnswers == Spec => []CountIsAnswered
<1>1. IInv => CountIsAnswered
  BY DEF IInv
<1> QED BY <1>1, Invariance, PTL

\* Retries that were queued when their timer was cancelled never multiply:
\* together with the timers that run there are at most as many of them as
\* messages that were sent, however expiries, ACKs and handlers interleave.
THEOREM RetriesAreFew == Spec => []RetriesDoNotMultiply
<1>1. Init => NotYetTimed /\ RetriesDoNotMultiply
  <2> SUFFICES ASSUME Init PROVE NotYetTimed /\ RetriesDoNotMultiply
    OBVIOUS
  <2>1. queue["sender"] = <<>> /\ count = 0 /\ ~retry_timer /\ ~delay_timer
    BY DEF Init, Process
  <2>2. Count(<<>>, "retry") = 0 /\ Count(<<>>, "delay") = 0
    BY FS_EmptySet DEF Count, Places
  <2>3. Sends(queue["sender"], retry_timer, delay_timer) <= count + 1
    BY <2>1, <2>2 DEF Sends, One
  <2> QED BY <2>1, <2>3, PendingIsCount DEF NotYetTimed
<1>2. IInv /\ NotYetTimed /\ RetriesDoNotMultiply /\ [Next]_vars
          => NotYetTimed' /\ RetriesDoNotMultiply'
  <2>1. ASSUME IInv, NotYetTimed, RetriesDoNotMultiply, Next
        PROVE  NotYetTimed' /\ RetriesDoNotMultiply'
    BY <2>1, RetriesStep DEF IInv
  <2>2. ASSUME NotYetTimed, RetriesDoNotMultiply, UNCHANGED vars
        PROVE  NotYetTimed' /\ RetriesDoNotMultiply'
    BY <2>2 DEF vars, timers, NotYetTimed, RetriesDoNotMultiply, Pending
  <2> QED BY <2>1, <2>2
<1> QED BY <1>1, <1>2, Invariance, PTL DEF Spec
=============================================================================
