------------------------------- MODULE RwLock -------------------------------
(***************************************************************************)
(* tokio::sync::RwLock, an external library, as this repository uses it:   *)
(* a fair lock for tasks.  A task that asks joins the end of a queue, only *)
(* the head of the queue is let in, and a task that already holds the lock *)
(* gets no special treatment: the lock is not re-entrant.                  *)
(***************************************************************************)
EXTENDS Naturals, Sequences, FiniteSets

\* holders: the tasks inside; exclusive: whether the one inside writes;
\* waiting: who asks, in the order they asked, and for what.
Unlocked == [holders |-> {}, exclusive |-> FALSE, waiting |-> << >>]

Ask(lock, t, writes) ==
    [lock EXCEPT !.waiting = Append(@, [task |-> t, writes |-> writes])]

CanEnter(lock, t) ==
    /\ lock.waiting # << >>
    /\ Head(lock.waiting).task = t
    /\ IF Head(lock.waiting).writes THEN lock.holders = {} ELSE ~lock.exclusive

Enter(lock, t) ==
    [holders |-> lock.holders \union {t},
     exclusive |-> Head(lock.waiting).writes,
     waiting |-> Tail(lock.waiting)]

Leave(lock, t) ==
    [lock EXCEPT !.holders = @ \ {t}, !.exclusive = FALSE]
=============================================================================
