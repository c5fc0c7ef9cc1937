------------------------------ MODULE MsgQueue ------------------------------
(***************************************************************************)
(* The message queue through which the player commands its threads         *)
(* (media_lib_sal/port/msg_q.c): a ring of messages under one mutex, with  *)
(* one condition on which senders and receivers wait alike.                *)
(*                                                                         *)
(* As in av_render.c one task owns the queue: it sends, resets, wakes and  *)
(* destroys; Receivers are the other tasks.  A step is what a task does    *)
(* under the mutex; the condition is signalled after it is given up.       *)
(***************************************************************************)
EXTENDS Integers, FiniteSets

CONSTANTS
  Receivers,   \* tasks that call msg_q_recv
  number,      \* messages the ring holds
  MaxSent      \* bound: messages sent

VARIABLES
  q,        \* msg_q_t: data, cur, filled, quit, reset, user
  at,       \* where each task is
  sent,     \* messages sent so far, their numbers are the messages
  got,      \* history: the last message received
  misled,   \* history: a received message was out of its order
  met       \* history: what the owner's call met: "crowd" more than one waited when
            \* it signalled, "again" a receiver began to wait while it awaited them

msg == <<q, at, sent, got, misled, met>>

Owner == "owner"

ASSUME MsgAssumption ==
  number \in Nat \ {0} /\ IsFiniteSet(Receivers) /\ Owner \notin Receivers

MsgTasks == Receivers \cup {Owner}

MsgInit ==
  /\ q = [data |-> [i \in 0..number - 1 |-> 0], cur |-> 0, filled |-> 0,
          quit |-> FALSE, reset |-> FALSE, user |-> 0]
  /\ at = [t \in MsgTasks |-> "out"]
  /\ sent = 0 /\ got = 0 /\ misled = FALSE /\ met = {}

To(t, place) == at' = [at EXCEPT ![t] = place]
Asleep(place) == {t \in MsgTasks : at[t] = place}
Sleepers == Asleep("send_waits") \cup Asleep("recv_waits") \cup Asleep("consume_waits")
Woken == [send_waits |-> "send", recv_waits |-> "recv", consume_waits |-> "consumed"]

\* pthread_cond_signal wakes one, pthread_cond_broadcast all who wait by now.
Signalled(a, t, place) ==
  LET b == [a EXCEPT ![t] = place]
  IN  IF Sleepers = {} THEN {b} ELSE {[b EXCEPT ![s] = Woken[a[s]]] : s \in Sleepers}
Broadcast(t, place) ==
  at' = [s \in MsgTasks |-> IF s \in Sleepers THEN Woken[at[s]]
                            ELSE IF s = t THEN place ELSE at[s]]

\* A task comes out of pthread_cond_wait and takes its use back.
Back(t, place) == at[t] = place /\ q.user > 0

Ending == at[Owner] \in {"waking", "resetting", "reset_seen"}
Sleeps(t, place) ==
  /\ To(t, place)
  /\ met' = met \cup {m \in {"again"} : Ending}
  /\ UNCHANGED <<sent, got, misled>>
Wait(t, place) == q' = [q EXCEPT !.user = @ + 1] /\ Sleeps(t, place)

Full == ~q.quit /\ q.filled >= number /\ ~q.reset
Empty == ~q.quit /\ q.filled = 0 /\ ~q.reset

-----------------------------------------------------------------------------
(* msg_q_send and msg_q_recv.  `u' is the use given back: 1 for a task that *)
(* waited.                                                                 *)

\* Fault: the index counts from the start of the ring.
SlotFromStart(ring) == ring.filled % number
Slot(ring) == (ring.cur + ring.filled) % number

SendNow(u) ==
  LET p == [q EXCEPT !.user = @ - u, !.reset = FALSE]
  IN  IF q.quit
        THEN /\ q' = p /\ To(Owner, "out") /\ UNCHANGED sent
        ELSE /\ q' = [p EXCEPT !.data[Slot(q)] = sent + 1, !.filled = @ + 1]
             /\ sent' = sent + 1
             /\ To(Owner, "signal")

msg_q_send ==
  /\ \/ /\ at[Owner] = "out" /\ sent < MaxSent
        /\ IF Full THEN Wait(Owner, "send_waits")
                   ELSE SendNow(0) /\ UNCHANGED <<got, misled, met>>
     \/ /\ Back(Owner, "send")
        /\ IF Full THEN Sleeps(Owner, "send_waits") /\ UNCHANGED q
                   ELSE SendNow(1) /\ UNCHANGED <<got, misled, met>>

\* The first message may be behind ones that a reset threw away.
RecvNow(t, u) ==
  LET p == [q EXCEPT !.user = @ - u]
  IN  /\ UNCHANGED <<sent, met>>
      /\ IF q.quit \/ q.reset
           THEN /\ q' = [p EXCEPT !.reset = FALSE]
                /\ To(t, "out")
                /\ UNCHANGED <<got, misled>>
           ELSE /\ q' = [p EXCEPT !.filled = @ - 1, !.cur = (@ + 1) % number]
                /\ got' = q.data[q.cur]
                /\ misled' = (misled \/ q.data[q.cur] <= got)
                /\ To(t, "signal")

msg_q_recv(t, no_wait) ==
  \/ /\ at[t] = "out" /\ ~q.quit
     /\ IF Empty THEN ~no_wait /\ Wait(t, "recv_waits") ELSE RecvNow(t, 0)
  \/ /\ Back(t, "recv") /\ ~no_wait
     /\ IF Empty THEN Sleeps(t, "recv_waits") /\ UNCHANGED q
                 ELSE RecvNow(t, 1)

\* The condition is signalled once the mutex is given up.
Signal(t) ==
  /\ at[t] = "signal"
  /\ at' \in Signalled(at, t, "out")
  /\ UNCHANGED <<q, sent, got, misled, met>>

\* msg_q_wait_consume waits once, whatever it is woken for.
msg_q_wait_consume ==
  \/ at[Owner] = "out" /\ q.filled > 0 /\ Wait(Owner, "consume_waits")
  \/ /\ Back(Owner, "consumed")
     /\ q' = [q EXCEPT !.user = @ - 1]
     /\ To(Owner, "out")
     /\ UNCHANGED <<sent, got, misled, met>>

-----------------------------------------------------------------------------
(* The calls that end the waits of others.  They look at q->user without   *)
(* the mutex.                                                              *)

msg_q_reset ==
  \/ /\ at[Owner] = "out"
     /\ To(Owner, "resetting")
     /\ UNCHANGED <<q, sent, got, misled, met>>
  \/ /\ at[Owner] = "resetting"
     /\ IF q.user > 0
          THEN To(Owner, "reset_seen") /\ UNCHANGED <<q, met>>
          ELSE /\ To(Owner, "out")
               /\ q' = [q EXCEPT !.cur = 0, !.filled = 0]
               /\ met' = {}
     /\ UNCHANGED <<sent, got, misled>>
  \/ /\ at[Owner] = "reset_seen"
     /\ q' = [q EXCEPT !.reset = TRUE]
     /\ Broadcast(Owner, "resetting")
     /\ UNCHANGED <<sent, got, misled, met>>

SignalledOnce == met' = {m \in {"crowd"} : Cardinality(Sleepers) > 1}
msg_q_wakeup ==
  \/ /\ at[Owner] = "out"
     /\ q' = [q EXCEPT !.reset = TRUE]
     /\ at' \in Signalled(at, Owner, "waking") /\ SignalledOnce
     /\ UNCHANGED <<sent, got, misled>>
  \/ /\ at[Owner] = "waking" /\ q.user = 0
     /\ q' = [q EXCEPT !.reset = FALSE]
     /\ To(Owner, "out") /\ met' = {}
     /\ UNCHANGED <<sent, got, misled>>

\* Fault: those who wait are not woken.
destroy_silent ==
  \/ /\ at[Owner] = "out"
     /\ q' = [q EXCEPT !.quit = TRUE]
     /\ To(Owner, "destroying") /\ SignalledOnce
     /\ UNCHANGED <<sent, got, misled>>
  \/ /\ at[Owner] = "destroying" /\ q.user = 0
     /\ To(Owner, "freed")
     /\ UNCHANGED <<q, sent, got, misled, met>>

msg_q_destroy ==
  \/ /\ at[Owner] = "out"
     /\ q' = [q EXCEPT !.quit = TRUE]
     /\ at' \in Signalled(at, Owner, "destroying") /\ SignalledOnce
     /\ UNCHANGED <<sent, got, misled>>
  \/ /\ at[Owner] = "destroying" /\ q.user = 0
     /\ To(Owner, "freed")
     /\ UNCHANGED <<q, sent, got, misled, met>>

-----------------------------------------------------------------------------
Freed == at[Owner] = "freed"

OwnerCalls == msg_q_wait_consume \/ msg_q_reset \/ msg_q_wakeup \/ msg_q_destroy

MsgNext ==
  /\ ~Freed
  /\ \/ OwnerCalls
     \/ msg_q_send
     \/ \E t \in Receivers, no_wait \in BOOLEAN : msg_q_recv(t, no_wait)
     \/ \E t \in MsgTasks : Signal(t)

\* The scheduler lets every task run, and who ends the waits goes on.
MsgFair ==
  /\ \A t \in Receivers : WF_msg(~Freed /\ at[t] # "out" /\ (msg_q_recv(t, FALSE) \/ Signal(t)))
  /\ WF_msg(~Freed /\ at[Owner] # "out" /\ (OwnerCalls \/ msg_q_send \/ Signal(Owner)))

MsgSpec == MsgInit /\ [][MsgNext]_msg /\ MsgFair

-----------------------------------------------------------------------------
(* Properties *)

\* Messages come in the order they were sent, each once, although the owner
\* throws messages away with msg_q_reset and the ring starts over at 0; and nobody
\* waits in a queue that msg_q_destroy has freed.  (A receiver that has its message
\* may still be about to signal the condition: av_render.c destroys the queue after
\* the thread has reported its end.)
MessagesInOrder ==
  /\ ~misled
  /\ Freed => \A t \in Receivers : at[t] \in {"out", "signal"}

\* The calls that end waits return, whoever waits, is about to wait, is woken but has
\* not run, or takes the signal or the reset that was meant for another: msg_q_reset
\* because it wakes all, msg_q_wakeup and msg_q_destroy because the one signal
\* reaches the one who waits.  They may not when more than one waits, nor the first
\* two when a receiver waits anew before they have looked.
EndsReturn ==
  /\ at[Owner] = "destroying" ~> (Freed \/ "crowd" \in met)
  /\ at[Owner] = "waking" ~> (at[Owner] = "out" \/ met # {})
  /\ at[Owner] = "resetting" ~> (at[Owner] = "out" \/ "again" \in met)
=============================================================================
