------------------------------- MODULE TsQueue -------------------------------
(***************************************************************************)
(* olc::net::tsqueue<T> (src/one_lone_coder/net_tsqueue.h): a std::deque  *)
(* guarded by the mutex muxQueue, with a blocking wait() built from a      *)
(* second mutex muxBlocking and the condition variable cvBlocking.         *)
(*                                                                         *)
(* Threads: a set of producers (the I/O threads that push OwnedMessages    *)
(* into the shared incoming queue) and a set of consumers running the      *)
(* application pump Update(-1, true): wait(), then "while (!empty())       *)
(* pop_front()".  Every program of the repository runs the pump on one     *)
(* thread, and so do the configurations of MC_TsQueue.                     *)
(*                                                                         *)
(* Granularity.  muxQueue is held between two steps of push_back /         *)
(* push_front (the emplace, then the notify under muxBlocking), so it is   *)
(* a variable.  muxBlocking is only ever held inside one step (notify,     *)
(* the atomic unlock-and-sleep of cvBlocking.wait, the relock on wake-up)  *)
(* and is therefore folded into those steps.  empty() and pop_front()      *)
(* hold muxQueue for one step each.  front(), back(), count(), pop_back()  *)
(* and clear() have no caller that runs concurrently with the I/O threads  *)
(* (clear() runs only in the destructor) and are not actions.              *)
(***************************************************************************)
EXTENDS Naturals, Sequences, SequencesExt, FiniteSets

CONSTANTS
    Producers,   \* threads that push into the queue
    Consumers,   \* threads that run the Update pump
    MaxPush,     \* bound on the number of pushes of each producer
    NoThread     \* model value: muxQueue is free

ASSUME /\ Producers \cap Consumers = {}
       /\ MaxPush \in Nat \ {0}
       /\ NoThread \notin Producers \cup Consumers

Threads == Producers \cup Consumers
Ends == {"back", "front"}

\* An item T is abstracted to its identity: who pushed it, its rank among
\* that producer's pushes, and the end it was pushed to.
Items == [from : Producers, seq : 1..MaxPush, end : Ends]

VARIABLES
    deqQueue,    \* the std::deque<T>
    muxQueue,    \* owner of muxQueue, or NoThread
    waiters,     \* threads blocked inside cvBlocking.wait(ul)
    pc,          \* program counter of every thread
    sent,        \* ghost: items each producer has pushed, in push order
    popped,      \* ghost: items returned by pop_front, in pop order
    undefined    \* ghost: a pop_front ran on an empty deque (undefined behaviour)

vars == <<deqQueue, muxQueue, waiters, pc, sent, popped, undefined>>

ProducerPcs == {"idle", "notify"}
ConsumerPcs == {"wait_check", "wait_lock", "wait_sleep", "drain_check", "pop", "ub"}

TypeOK ==
    /\ deqQueue \in Seq(Items)
    /\ muxQueue \in Threads \cup {NoThread}
    /\ waiters \subseteq Consumers
    /\ pc \in [Threads -> ProducerPcs \cup ConsumerPcs]
    /\ sent \in [Producers -> Seq(Items)]
    /\ popped \in Seq(Items)
    /\ undefined \in BOOLEAN
    \* muxQueue is held across the two steps of a push, and only then.
    /\ \A p \in Producers : (muxQueue = p) <=> (pc[p] = "notify")

Init ==
    /\ deqQueue = <<>>
    /\ muxQueue = NoThread
    /\ waiters = {}
    /\ pc = [t \in Threads |-> IF t \in Producers THEN "idle" ELSE "wait_check"]
    /\ sent = [p \in Producers |-> <<>>]
    /\ popped = <<>>
    /\ undefined = FALSE

NewItem(p, e) == [from |-> p, seq |-> Len(sent[p]) + 1, end |-> e]

-----------------------------------------------------------------------------
(* push_back / push_front, first half: lock muxQueue, emplace the item.    *)

\* Mutant: push_back emplacing at the front of the deque.
push_back_mut(p) ==
    /\ pc[p] = "idle"
    /\ Len(sent[p]) < MaxPush
    /\ muxQueue = NoThread
    /\ muxQueue' = p
    /\ deqQueue' = <<NewItem(p, "back")>> \o deqQueue
    /\ sent' = [sent EXCEPT ![p] = Append(@, NewItem(p, "back"))]
    /\ pc' = [pc EXCEPT ![p] = "notify"]
    /\ UNCHANGED <<waiters, popped, undefined>>

push_back(p) ==
    /\ pc[p] = "idle"
    /\ Len(sent[p]) < MaxPush
    /\ muxQueue = NoThread
    /\ muxQueue' = p
    /\ deqQueue' = Append(deqQueue, NewItem(p, "back"))
    /\ sent' = [sent EXCEPT ![p] = Append(@, NewItem(p, "back"))]
    /\ pc' = [pc EXCEPT ![p] = "notify"]
    /\ UNCHANGED <<waiters, popped, undefined>>

push_front(p) ==
    /\ pc[p] = "idle"
    /\ Len(sent[p]) < MaxPush
    /\ muxQueue = NoThread
    /\ muxQueue' = p
    /\ deqQueue' = <<NewItem(p, "front")>> \o deqQueue
    /\ sent' = [sent EXCEPT ![p] = Append(@, NewItem(p, "front"))]
    /\ pc' = [pc EXCEPT ![p] = "notify"]
    /\ UNCHANGED <<waiters, popped, undefined>>

\* Mutant: the notify step forgets to release muxQueue.
PushNotify_nounlock(p) ==
    /\ pc[p] = "notify"
    /\ \/ /\ waiters = {}
          /\ UNCHANGED waiters
       \/ \E w \in waiters : waiters' = waiters \ {w}
    /\ pc' = [pc EXCEPT ![p] = "idle"]
    /\ UNCHANGED <<deqQueue, muxQueue, sent, popped, undefined>>

\* Second half, still holding muxQueue: lock muxBlocking, notify_one (wakes
\* one thread blocked in cvBlocking.wait, if any, and is lost otherwise),
\* then the unique_lock and the scoped_lock are released.
PushNotify(p) ==
    /\ pc[p] = "notify"
    /\ \/ /\ waiters = {}
          /\ UNCHANGED waiters
       \/ \E w \in waiters : waiters' = waiters \ {w}
    /\ muxQueue' = NoThread
    /\ pc' = [pc EXCEPT ![p] = "idle"]
    /\ UNCHANGED <<deqQueue, sent, popped, undefined>>

-----------------------------------------------------------------------------
(* wait(): while (empty()) { unique_lock ul(muxBlocking); cv.wait(ul); }   *)

\* The loop test: empty() locks muxQueue, reads, unlocks.
WaitCheckEmpty(c) ==
    /\ pc[c] = "wait_check"
    /\ muxQueue = NoThread
    /\ pc' = [pc EXCEPT ![c] = IF deqQueue = <<>> THEN "wait_lock" ELSE "drain_check"]
    /\ UNCHANGED <<deqQueue, muxQueue, waiters, sent, popped, undefined>>

\* Lock muxBlocking and block in cvBlocking.wait(ul), which releases ul
\* atomically.  Nothing re-tests the queue here: the test above was made
\* under muxQueue, which has been released since.
WaitSleep(c) ==
    /\ pc[c] = "wait_lock"
    /\ waiters' = waiters \cup {c}
    /\ pc' = [pc EXCEPT ![c] = "wait_sleep"]
    /\ UNCHANGED <<deqQueue, muxQueue, sent, popped, undefined>>

\* Woken (by notify_one or spuriously): relock muxBlocking, leave the loop
\* body (ul is released), and test empty() again.
WaitWake(c) ==
    /\ pc[c] = "wait_sleep"
    /\ c \notin waiters
    /\ pc' = [pc EXCEPT ![c] = "wait_check"]
    /\ UNCHANGED <<deqQueue, muxQueue, waiters, sent, popped, undefined>>

\* std::condition_variable::wait may return without a notify.
SpuriousWakeup(c) ==
    /\ pc[c] = "wait_sleep"
    /\ c \in waiters
    /\ waiters' = waiters \ {c}
    /\ UNCHANGED <<deqQueue, muxQueue, pc, sent, popped, undefined>>

-----------------------------------------------------------------------------
(* The pump Update(-1, true): after wait() returns,                        *)
(*   while (!m_qMessagesIn.empty()) { msg = m_qMessagesIn.pop_front(); ...}*)
(* and when the queue is found empty Update returns and is called again,   *)
(* which calls wait() again.                                               *)

UpdateDrainCheck(c) ==
    /\ pc[c] = "drain_check"
    /\ muxQueue = NoThread
    /\ pc' = [pc EXCEPT ![c] = IF deqQueue = <<>> THEN "wait_check" ELSE "pop"]
    /\ UNCHANGED <<deqQueue, muxQueue, waiters, sent, popped, undefined>>

\* Mutant: pop_front takes the back element (deqQueue.back()).
pop_front_mut(c) ==
    /\ pc[c] = "pop"
    /\ muxQueue = NoThread
    /\ IF deqQueue = <<>>
         THEN /\ undefined' = TRUE
              /\ pc' = [pc EXCEPT ![c] = "ub"]
              /\ UNCHANGED <<deqQueue, popped>>
         ELSE /\ popped' = Append(popped, Last(deqQueue))
              /\ deqQueue' = Front(deqQueue)
              /\ pc' = [pc EXCEPT ![c] = "drain_check"]
              /\ UNCHANGED undefined
    /\ UNCHANGED <<muxQueue, waiters, sent>>

\* pop_front(): under muxQueue, move the front out and pop it.  On an empty
\* deque front() and pop_front() are undefined behaviour; the thread is
\* parked in "ub" and the state is flagged.
pop_front(c) ==
    /\ pc[c] = "pop"
    /\ muxQueue = NoThread
    /\ IF deqQueue = <<>>
         THEN /\ undefined' = TRUE
              /\ pc' = [pc EXCEPT ![c] = "ub"]
              /\ UNCHANGED <<deqQueue, popped>>
         ELSE /\ popped' = Append(popped, Head(deqQueue))
              /\ deqQueue' = Tail(deqQueue)
              /\ pc' = [pc EXCEPT ![c] = "drain_check"]
              /\ UNCHANGED undefined
    /\ UNCHANGED <<muxQueue, waiters, sent>>

-----------------------------------------------------------------------------

Producer(p) == push_back(p) \/ push_front(p) \/ PushNotify(p)

Consumer(c) ==
    \/ WaitCheckEmpty(c)
    \/ WaitSleep(c)
    \/ WaitWake(c)
    \/ UpdateDrainCheck(c)
    \/ pop_front(c)

\* Every producer has made all its pushes.
ProducersDone == \A p \in Producers : pc[p] = "idle" /\ Len(sent[p]) = MaxPush

Next ==
    \/ \E p \in Producers : Producer(p)
    \/ \E c \in Consumers : Consumer(c) \/ SpuriousWakeup(c)

\* Threads are OS threads: each one that can keep running eventually does.
\* A spurious wake-up is permitted but never guaranteed, so it gets none.
Fairness ==
    /\ \A p \in Producers : WF_vars(Producer(p))
    /\ \A c \in Consumers : WF_vars(Consumer(c))

Spec == Init /\ [][Next]_vars /\ Fairness

-----------------------------------------------------------------------------
(* Properties                                                              *)

\* Everything a consumer has popped, followed by what is still queued.
Delivered == popped \o deqQueue

ItemsOf(s, p, E) == SelectSeq(s, LAMBDA x : x.from = p /\ x.end \in E)

\* Queue FIFO (spec section 8): with producers pushing concurrently to both
\* ends, every item a producer pushes is popped or still queued exactly
\* once, and the items it pushed to the back come out in the order it
\* pushed them, whatever the interleaving with other producers' push_front.
PerProducerFifo ==
    \A p \in Producers :
        /\ ItemsOf(Delivered, p, {"back"}) = ItemsOf(sent[p], p, {"back"})
        /\ ToBag(ItemsOf(Delivered, p, Ends)) = ToBag(sent[p])

\* The abstract deque of QueueSpec, seen through the refinement mapping:
\* the queue is deqQueue and what has come out is what pop_front returned.
Abstract == INSTANCE QueueSpec WITH q <- deqQueue, out <- popped

\* tsqueue implements an atomic deque (QueueSpec): however push_back,
\* push_front, the notify half of a push, wait() and the pump's empty()
\* tests interleave, every step changes the deque only as one push_back,
\* push_front or pop_front of an atomic deque would, and pop_front returns
\* the item at the front.
QueueRefinement == Abstract!Spec

\* Blocking wait correctness (spec section 8, "no lost wakeups"): a consumer
\* blocked in wait() while the queue holds an item is eventually woken.
SleeperWakesWhenNonEmpty ==
    \A c \in Consumers :
        (pc[c] = "wait_sleep" /\ deqQueue # <<>>) ~> (pc[c] # "wait_sleep")

=============================================================================
