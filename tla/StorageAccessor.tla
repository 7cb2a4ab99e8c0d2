-------------------------- MODULE StorageAccessor --------------------------
(***************************************************************************)
(* StorageAccessor: clients set and remove values, some for a time only,   *)
(* and the destroyer thread removes these when their time is over.  The    *)
(* thread waits on m_cv with m_timedQueueMtx; the storages behind, a mount *)
(* tree of them in the code, are one map here.                             *)
(***************************************************************************)
EXTENDS Naturals, FiniteSets

CONSTANTS
  Clients,  \* the threads that use the accessor
  Paths,    \* the paths they use
  Lives,    \* the times they give values, but for zero, which is no time limit
  MaxSets,  \* bound: how often values are set
  MaxTime   \* bound: when the clock stops unless a timer runs

ASSUME AccessorAssumption ==
  Lives \subseteq Nat \ {0} /\ MaxSets \in Nat /\ MaxTime \in Nat

VARIABLES
  held,   \* held[p]: the number of the call that set the value of p, and whether it
          \* gave it a time; Nothing when there is no value
  queue,  \* m_timedKeysQueue, each timer with the number of its call
  timer,  \* where the destroyer thread is
  call,   \* call[c]: where client c is
  dtor,   \* where the destructor is
  now,    \* the steady clock
  sets    \* how often values were set

vars == <<held, queue, timer, call, dtor, now, sets>>

Nothing == [set |-> 0, timed |-> FALSE]

Idle == [at |-> "idle"]
Timers == [path : Paths, timeout : Nat, set : Nat]

m_exit == dtor # "none"

\* The destroyer thread holds the mutex while it takes timers and removes values.
Locked == timer.at \in {"expire", "remove"}
Waiting == timer.at \in {"wait", "waitUntil"}

\* notify_one, which nobody hears unless the destroyer thread waits.
Notified == timer' = IF Waiting THEN [at |-> "woken"] ELSE timer

Tops == {k \in queue : \A l \in queue : k.timeout <= l.timeout}

-----------------------------------------------------------------------------
(***************************************************************************)
(* Clients.                                                                *)
(***************************************************************************)
\* A faulty SetValue: a timer is started for no time as well.
SetValueAlwaysTimed(c, p, life) ==
  /\ ~m_exit /\ call[c] = Idle
  /\ sets < MaxSets
  /\ sets' = sets + 1
  /\ held' = [held EXCEPT ![p] = [set |-> sets', timed |-> life # 0]]
  /\ call' = [call EXCEPT ![c] = [at |-> "emplace", path |-> p, life |-> life, set |-> sets']]
  /\ UNCHANGED <<queue, timer, dtor, now>>

\* setValue up to the lock: the value goes to the storage before its timer starts.
SetValue(c, p, life) ==
  /\ ~m_exit /\ call[c] = Idle
  /\ sets < MaxSets
  /\ sets' = sets + 1
  /\ held' = [held EXCEPT ![p] = [set |-> sets', timed |-> life # 0]]
  /\ \/ /\ life = 0
        /\ UNCHANGED call
     \/ /\ life # 0
        /\ call' = [call EXCEPT ![c] = [at |-> "emplace", path |-> p, life |-> life,
                                        set |-> sets']]
  /\ UNCHANGED <<queue, timer, dtor, now>>

\* Faulty variants of Emplace: nobody is notified; only when the queue was empty.
EmplaceUnnotified(c) ==
  /\ call[c].at = "emplace" /\ ~Locked
  /\ queue' = queue \cup {[path |-> call[c].path, timeout |-> now + call[c].life,
                           set |-> call[c].set]}
  /\ call' = [call EXCEPT ![c] = Idle]
  /\ UNCHANGED <<held, timer, dtor, now, sets>>

EmplaceNotifyingFirst(c) ==
  /\ call[c].at = "emplace" /\ ~Locked
  /\ queue' = queue \cup {[path |-> call[c].path, timeout |-> now + call[c].life,
                           set |-> call[c].set]}
  /\ call' = [call EXCEPT ![c] = IF queue = {} THEN [at |-> "notify"] ELSE Idle]
  /\ UNCHANGED <<held, timer, dtor, now, sets>>

\* Under the lock: the timer counts from now.
Emplace(c) ==
  /\ call[c].at = "emplace" /\ ~Locked
  /\ queue' = queue \cup {[path |-> call[c].path, timeout |-> now + call[c].life,
                           set |-> call[c].set]}
  /\ call' = [call EXCEPT ![c] = [at |-> "notify"]]
  /\ UNCHANGED <<held, timer, dtor, now, sets>>

\* After the lock is released.
Notify(c) ==
  /\ call[c].at = "notify"
  /\ Notified
  /\ call' = [call EXCEPT ![c] = Idle]
  /\ UNCHANGED <<held, queue, dtor, now, sets>>

\* removeValue takes no notice of timers, nor of a path that is not there.
RemoveValue(c, p) ==
  /\ ~m_exit /\ call[c] = Idle
  /\ held' = [held EXCEPT ![p] = Nothing]
  /\ UNCHANGED <<queue, timer, call, dtor, now, sets>>

-----------------------------------------------------------------------------
(***************************************************************************)
(* timedKeyDestroyerThread.                                                *)
(***************************************************************************)
Check ==
  /\ timer.at = "check"
  /\ timer' = IF m_exit THEN [at |-> "done"] ELSE [at |-> "lock"]
  /\ UNCHANGED <<held, queue, call, dtor, now, sets>>

\* A faulty Sleep: the thread waits for a notification, whatever the queue holds.
SleepWithoutDeadline ==
  /\ timer.at = "lock"
  /\ timer' = [at |-> "wait"]
  /\ UNCHANGED <<held, queue, call, dtor, now, sets>>

\* The lock is taken, the queue looked at, and the lock released by waiting.
Sleep ==
  /\ timer.at = "lock"
  /\ \/ /\ queue = {}
        /\ timer' = [at |-> "wait"]
     \/ \E k \in Tops : timer' = [at |-> "waitUntil", until |-> k.timeout]
  /\ UNCHANGED <<held, queue, call, dtor, now, sets>>

WakeInTime ==
  /\ timer.at = "waitUntil" /\ now >= timer.until
  /\ timer' = [at |-> "woken"]
  /\ UNCHANGED <<held, queue, call, dtor, now, sets>>

WakeSpuriously ==
  /\ Waiting
  /\ timer' = [at |-> "woken"]
  /\ UNCHANGED <<held, queue, call, dtor, now, sets>>

\* The lock is taken again: m_exit, the queue, the clock.
Woken ==
  /\ timer.at = "woken"
  /\ timer' = IF m_exit THEN [at |-> "done"]
              ELSE IF queue = {} THEN [at |-> "check"]
              ELSE [at |-> "expire", seen |-> now]
  /\ UNCHANGED <<held, queue, call, dtor, now, sets>>

\* Faulty variants of Expire: all timers over are taken for the first one's sake; the
\* first one is taken because the thread was woken.
ExpireAll ==
  /\ timer.at = "expire"
  /\ \/ \E k \in Tops :
          /\ timer.seen > k.timeout
          /\ queue' = {l \in queue : timer.seen <= l.timeout}
          /\ timer' = [at |-> "remove", seen |-> timer.seen, key |-> k]
     \/ /\ \A k \in queue : timer.seen <= k.timeout
        /\ timer' = [at |-> "check"]
        /\ UNCHANGED queue
  /\ UNCHANGED <<held, call, dtor, now, sets>>

ExpireUnseen ==
  /\ timer.at = "expire"
  /\ \/ \E k \in Tops :
          /\ queue' = queue \ {k}
          /\ timer' = [at |-> "remove", seen |-> timer.seen, key |-> k]
     \/ /\ queue = {}
        /\ timer' = [at |-> "check"]
        /\ UNCHANGED queue
  /\ UNCHANGED <<held, call, dtor, now, sets>>

\* The first timer is taken if it was over when the clock was read; else the lock is
\* released and the loop begins anew.
Expire ==
  /\ timer.at = "expire"
  /\ \/ \E k \in Tops :
          /\ timer.seen > k.timeout
          /\ queue' = queue \ {k}
          /\ timer' = [at |-> "remove", seen |-> timer.seen, key |-> k]
     \/ /\ \A k \in queue : timer.seen <= k.timeout
        /\ timer' = [at |-> "check"]
        /\ UNCHANGED queue
  /\ UNCHANGED <<held, call, dtor, now, sets>>

\* removeValue(key): by the path alone, whichever value it has now.
RemoveExpired ==
  /\ timer.at = "remove"
  /\ held' = [held EXCEPT ![timer.key.path] = Nothing]
  /\ timer' = [at |-> "expire", seen |-> timer.seen]
  /\ UNCHANGED <<queue, call, dtor, now, sets>>

-----------------------------------------------------------------------------
(***************************************************************************)
(* ~StorageAccessor, once no client uses it.                               *)
(***************************************************************************)
Destroy ==
  /\ dtor = "none" /\ \A c \in Clients : call[c] = Idle
  /\ dtor' = "notify"
  /\ UNCHANGED <<held, queue, timer, call, now, sets>>

DestroyNotify ==
  /\ dtor = "notify"
  /\ Notified
  /\ dtor' = "join"
  /\ UNCHANGED <<held, queue, call, now, sets>>

Join ==
  /\ dtor = "join" /\ timer.at = "done"
  /\ dtor' = "gone"
  /\ queue' = {}
  /\ UNCHANGED <<held, timer, call, now, sets>>

\* The clock runs to its bound, and on until all timers are over.
Tick ==
  /\ now < MaxTime \/ \E k \in queue : now <= k.timeout
  /\ now' = now + 1
  /\ UNCHANGED <<held, queue, timer, call, dtor, sets>>

Init ==
  /\ held = [p \in Paths |-> Nothing]
  /\ queue = {} /\ timer = [at |-> "check"]
  /\ call = [c \in Clients |-> Idle]
  /\ dtor = "none"
  /\ now = 0 /\ sets = 0

ClientStep(c) == Emplace(c) \/ Notify(c)
TimerStep == Check \/ Sleep \/ WakeInTime \/ Woken \/ Expire \/ RemoveExpired
DestructorStep == DestroyNotify \/ Join

Next ==
  \/ \E c \in Clients :
       \/ \E p \in Paths : (\E life \in Lives \cup {0} : SetValue(c, p, life)) \/ RemoveValue(c, p)
       \/ ClientStep(c)
  \/ TimerStep \/ WakeSpuriously
  \/ Destroy \/ DestructorStep
  \/ Tick

\* Threads that can run do; nobody has to call or to destroy the accessor.
Spec ==
  /\ Init /\ [][Next]_vars
  /\ \A c \in Clients : WF_vars(ClientStep(c))
  /\ WF_vars(TimerStep) /\ WF_vars(DestructorStep) /\ WF_vars(Tick)

-----------------------------------------------------------------------------
(***************************************************************************)
(* Properties.                                                             *)
(***************************************************************************)
TypeOK ==
  /\ held \in [Paths -> [set : Nat, timed : BOOLEAN]]
  /\ queue \subseteq Timers
  /\ timer \in [at : {"check", "lock", "wait", "woken", "done"}]
               \cup [at : {"waitUntil"}, until : Nat]
               \cup [at : {"expire"}, seen : Nat]
               \cup [at : {"remove"}, seen : Nat, key : Timers]
  /\ call \in [Clients -> {Idle, [at |-> "notify"]}
                          \cup [at : {"emplace"}, path : Paths, life : Lives, set : Nat]]
  /\ dtor \in {"none", "notify", "join", "gone"}
  /\ now \in Nat /\ sets \in Nat

\* No timer is slept through: the thread waits without a deadline only while there is no
\* timer, and no longer than until the first one, unless a client that has started a
\* timer is about to notify it.
WaitCoversQueue ==
  \/ \E c \in Clients : call[c].at = "notify"
  \/ /\ timer.at = "wait" => queue = {}
     /\ timer.at = "waitUntil" => \A k \in queue : timer.until <= k.timeout

\* A value that has a time is never left without a timer: its own is about to start, runs,
\* or is the one whose path is being removed.
TimedIsWatched ==
  \A p \in Paths : held[p].timed =>
    \/ dtor = "gone"
    \/ \E c \in Clients :
         call[c].at = "emplace" /\ call[c].set = held[p].set /\ call[c].path = p
    \/ \E k \in queue : k.set = held[p].set /\ k.path = p
    \/ timer.at = "remove" /\ timer.key.set = held[p].set /\ timer.key.path = p

\* The thread removes the value a timer was started for or one that has replaced it, never
\* an older one, and only after the time of the timer.
RemovesOwnOrNewer ==
  [][RemoveExpired =>
       LET k == timer.key IN
         k.timeout < now /\ (held[k.path] # Nothing => k.set <= held[k.path].set)]_vars

\* A value that has a time goes away while the accessor lives.
TimedKeysGo ==
  \A p \in Paths, n \in 1 .. MaxSets :
    held[p] = [set |-> n, timed |-> TRUE] ~> held[p].set # n \/ m_exit

\* The destructor returns when a timer is left, whose deadline wakes the thread.
ReturnsWithTimer == dtor = "join" /\ queue # {} ~> dtor = "gone"

\* The destructor returns.
DestructorReturns == m_exit ~> dtor = "gone"

=============================================================================
