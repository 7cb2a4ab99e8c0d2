----------------------- MODULE StorageAccessorProofs -----------------------
(***************************************************************************)
(* Proofs about StorageAccessor, for any clients, paths, times and bounds: *)
(* no timer is slept through, no timed value loses its timer, and a timer  *)
(* removes nothing before its time and nothing older than its value.       *)
(***************************************************************************)
EXTENDS StorageAccessor, TLAPS

CallsTyped == {Idle, [at |-> "notify"]}
              \cup [at : {"emplace"}, path : Paths, life : Lives, set : Nat]

TimerTyped == [at : {"check", "lock", "wait", "woken", "done"}]
              \cup [at : {"waitUntil"}, until : Nat]
              \cup [at : {"expire"}, seen : Nat]
              \cup [at : {"remove"}, seen : Nat, key : Timers]

-----------------------------------------------------------------------------
(***************************************************************************)
(* Types.                                                                  *)
(***************************************************************************)
LEMMA TypeInit == Init => TypeOK
<1>. SUFFICES ASSUME Init PROVE TypeOK
  OBVIOUS
<1>1. Nothing \in [set : Nat, timed : BOOLEAN]
  BY DEF Nothing
<1>. QED
  BY <1>1 DEF Init, TypeOK, Idle

LEMMA TypeStep ==
  ASSUME TypeOK, [Next]_vars
  PROVE  TypeOK'
<1>. USE AccessorAssumption DEF TypeOK
<1>0. Nothing \in [set : Nat, timed : BOOLEAN]
  BY DEF Nothing
<1>1. ASSUME NEW c \in Clients, NEW p \in Paths, NEW life \in Lives \cup {0},
             SetValue(c, p, life)
      PROVE  TypeOK'
  <2>1. sets' \in Nat /\ [set |-> sets', timed |-> life # 0] \in [set : Nat, timed : BOOLEAN]
    BY <1>1 DEF SetValue
  <2>2. held' \in [Paths -> [set : Nat, timed : BOOLEAN]]
    BY <1>1, <2>1 DEF SetValue
  <2>3. call' \in [Clients -> CallsTyped]
    <3>1. CASE life = 0
      BY <1>1, <3>1 DEF SetValue, CallsTyped
    <3>2. CASE life # 0
      <4>1. [at |-> "emplace", path |-> p, life |-> life, set |-> sets'] \in CallsTyped
        BY <2>1, <3>2 DEF CallsTyped
      <4>. QED
        BY <1>1, <3>2, <4>1 DEF SetValue, CallsTyped
    <3>. QED
      BY <3>1, <3>2
  <2>. QED
    BY <1>1, <2>1, <2>2, <2>3 DEF SetValue, CallsTyped
<1>2. ASSUME NEW c \in Clients, NEW p \in Paths, RemoveValue(c, p)
      PROVE  TypeOK'
  BY <1>0, <1>2 DEF RemoveValue
<1>3. ASSUME NEW c \in Clients, Emplace(c)
      PROVE  TypeOK'
  <2>1. /\ call[c].path \in Paths /\ call[c].life \in Nat /\ call[c].set \in Nat
    <3>1. call[c] \in [at : {"emplace"}, path : Paths, life : Lives, set : Nat]
      BY <1>3 DEF Emplace, Idle
    <3>. QED
      BY <3>1
  <2>2. [path |-> call[c].path, timeout |-> now + call[c].life, set |-> call[c].set] \in Timers
    BY <2>1 DEF Timers
  <2>3. queue' \subseteq Timers
    BY <1>3, <2>2 DEF Emplace
  <2>4. call' \in [Clients -> CallsTyped]
    BY <1>3 DEF Emplace, CallsTyped
  <2>. QED
    BY <1>3, <2>3, <2>4 DEF Emplace, CallsTyped
<1>4. ASSUME NEW c \in Clients, Notify(c)
      PROVE  TypeOK'
  <2>1. call' \in [Clients -> CallsTyped]
    BY <1>4 DEF Notify, CallsTyped
  <2>2. timer' \in TimerTyped
    BY <1>4 DEF Notify, Notified, TimerTyped
  <2>. QED
    BY <1>4, <2>1, <2>2 DEF Notify, CallsTyped, TimerTyped
<1>5. CASE Check
  <2>1. timer' \in TimerTyped
    BY <1>5 DEF Check, TimerTyped
  <2>. QED
    BY <1>5, <2>1 DEF Check, TimerTyped
<1>6. CASE Sleep
  <2>1. \A k \in queue : k.timeout \in Nat
    BY DEF Timers
  <2>2. timer' \in TimerTyped
    BY <1>6, <2>1 DEF Sleep, Tops, TimerTyped
  <2>. QED
    BY <1>6, <2>2 DEF Sleep, TimerTyped
<1>7. CASE WakeInTime \/ WakeSpuriously
  <2>1. timer' \in TimerTyped
    BY <1>7 DEF WakeInTime, WakeSpuriously, TimerTyped
  <2>. QED
    BY <1>7, <2>1 DEF WakeInTime, WakeSpuriously, TimerTyped
<1>8. CASE Woken
  <2>1. timer' \in TimerTyped
    BY <1>8 DEF Woken, TimerTyped
  <2>. QED
    BY <1>8, <2>1 DEF Woken, TimerTyped
<1>9. CASE Expire
  <2>1. timer.seen \in Nat
    BY <1>9 DEF Expire
  <2>2. timer' \in TimerTyped /\ queue' \subseteq Timers
    BY <1>9, <2>1 DEF Expire, Tops, TimerTyped
  <2>. QED
    BY <1>9, <2>2 DEF Expire, TimerTyped
<1>10. CASE RemoveExpired
  <2>1. timer.seen \in Nat
    BY <1>10 DEF RemoveExpired
  <2>2. timer' \in TimerTyped
    BY <1>10, <2>1 DEF RemoveExpired, TimerTyped
  <2>3. held' \in [Paths -> [set : Nat, timed : BOOLEAN]]
    BY <1>0, <1>10 DEF RemoveExpired
  <2>. QED
    BY <1>10, <2>2, <2>3 DEF RemoveExpired, TimerTyped
<1>11. CASE Destroy \/ Join
  BY <1>11 DEF Destroy, Join
<1>12. CASE DestroyNotify
  <2>1. timer' \in TimerTyped
    BY <1>12 DEF DestroyNotify, Notified, TimerTyped
  <2>. QED
    BY <1>12, <2>1 DEF DestroyNotify, TimerTyped
<1>13. CASE Tick
  BY <1>13 DEF Tick
<1>14. CASE UNCHANGED vars
  BY <1>14 DEF vars
<1>. QED
  BY <1>1, <1>2, <1>3, <1>4, <1>5, <1>6, <1>7, <1>8, <1>9, <1>10, <1>11, <1>12, <1>13, <1>14
     DEF Next, ClientStep, TimerStep, DestructorStep

\* Every state of the accessor is well formed: calls, timers, the thread's position.
THEOREM AccessorTypeCorrect == Spec => []TypeOK
<1>1. TypeOK /\ [Next]_vars => TypeOK'
  BY TypeStep
<1>. QED
  BY TypeInit, <1>1, PTL DEF Spec

-----------------------------------------------------------------------------
(***************************************************************************)
(* The wakeups for timers.  Inductive as it stands.                        *)
(***************************************************************************)
\* A step keeps a waiting thread aware of every timer.
LEMMA WaitStep ==
  ASSUME TypeOK, WaitCoversQueue, [Next]_vars
  PROVE  WaitCoversQueue'
<1>. USE DEF WaitCoversQueue
<1>0. call \in [Clients -> CallsTyped]
  BY DEF TypeOK, CallsTyped
<1>1. ASSUME NEW c \in Clients, NEW p \in Paths, NEW life \in Lives \cup {0},
             SetValue(c, p, life)
      PROVE  WaitCoversQueue'
  <2>1. \A d \in Clients : call[d].at = "notify" => call'[d].at = "notify"
    BY <1>0, <1>1 DEF SetValue, Idle
  <2>. QED
    BY <1>1, <2>1 DEF SetValue
<1>2. ASSUME NEW c \in Clients, Emplace(c)
      PROVE  WaitCoversQueue'
  <2>1. call'[c].at = "notify"
    BY <1>0, <1>2 DEF Emplace
  <2>. QED
    BY <2>1
<1>3. ASSUME Notified, queue' = queue
      PROVE  WaitCoversQueue'
  BY <1>3 DEF Notified, Waiting
<1>4. CASE Sleep
  BY <1>4 DEF Sleep, Tops
<1>5. CASE Check \/ WakeInTime \/ WakeSpuriously \/ Woken
  BY <1>5 DEF Check, WakeInTime, WakeSpuriously, Woken
<1>6. CASE Expire \/ RemoveExpired
  BY <1>6 DEF Expire, RemoveExpired
<1>7. CASE Join
  BY <1>7 DEF Join
<1>8. CASE \/ \E c \in Clients, p \in Paths : RemoveValue(c, p)
           \/ Destroy \/ Tick \/ UNCHANGED vars
  BY <1>8 DEF RemoveValue, Destroy, Tick, vars
<1>. QED
  BY <1>1, <1>2, <1>3, <1>4, <1>5, <1>6, <1>7, <1>8
     DEF Next, ClientStep, TimerStep, DestructorStep, Notify, DestroyNotify

\* However clients start timers while the thread falls asleep, wakes and expires others,
\* it never waits past a timer without a notification on its way.
THEOREM NoTimerSleptThrough == Spec => []WaitCoversQueue
<1>1. Init => WaitCoversQueue
  BY DEF Init, WaitCoversQueue
<1>2. TypeOK /\ WaitCoversQueue /\ [Next]_vars => WaitCoversQueue'
  BY WaitStep
<1>. QED
  BY AccessorTypeCorrect, <1>1, <1>2, PTL DEF Spec

-----------------------------------------------------------------------------
(***************************************************************************)
(* A value and its timer.                                                  *)
(***************************************************************************)
Watched(p) ==
  \/ dtor = "gone"
  \/ \E c \in Clients :
       call[c].at = "emplace" /\ call[c].set = held[p].set /\ call[c].path = p
  \/ \E k \in queue : k.set = held[p].set /\ k.path = p
  \/ timer.at = "remove" /\ timer.key.set = held[p].set /\ timer.key.path = p

\* A step leaves no timed value without its timer.
LEMMA WatchedStep ==
  ASSUME TypeOK, TimedIsWatched, [Next]_vars
  PROVE  TimedIsWatched'
<1>0. /\ call \in [Clients -> CallsTyped] /\ held \in [Paths -> [set : Nat, timed : BOOLEAN]]
      /\ \A p \in Paths : held[p].timed => Watched(p)
      /\ ~Nothing.timed
  BY DEF TypeOK, CallsTyped, TimedIsWatched, Watched, Nothing
<1>. SUFFICES ASSUME NEW p \in Paths, held'[p].timed PROVE Watched(p)'
  BY DEF TimedIsWatched, Watched
<1>1. ASSUME NEW c \in Clients, NEW q \in Paths, NEW life \in Lives \cup {0},
             SetValue(c, q, life)
      PROVE  Watched(p)'
  <2>1. CASE p = q
    <3>1. held'[p] = [set |-> sets', timed |-> life # 0]
      BY <1>0, <1>1, <2>1 DEF SetValue
    <3>2. life # 0
      <4>1. ASSUME life = 0
            PROVE  FALSE
        <5>1. (life # 0) = FALSE
          BY <4>1
        <5>2. held'[p] = [set |-> sets', timed |-> FALSE]
          BY <3>1, <5>1
        <5>. QED
          BY <5>2
      <4>. QED
        BY <4>1
    <3>3. call'[c] = [at |-> "emplace", path |-> p, life |-> life, set |-> sets']
      BY <1>0, <1>1, <2>1, <3>2 DEF SetValue
    <3>. QED
      BY <3>1, <3>3 DEF Watched
  <2>2. CASE p # q
    <3>1. held'[p] = held[p] /\ \A d \in Clients : call[d].at = "emplace" => call'[d] = call[d]
      BY <1>0, <1>1, <2>2 DEF SetValue, Idle
    <3>. QED
      BY <1>0, <1>1, <3>1 DEF SetValue, Watched
  <2>. QED
    BY <2>1, <2>2
<1>2. ASSUME NEW c \in Clients, NEW q \in Paths, RemoveValue(c, q)
      PROVE  Watched(p)'
  <2>1. held'[p] = held[p]
    BY <1>0, <1>2 DEF RemoveValue
  <2>. QED
    BY <1>0, <1>2, <2>1 DEF RemoveValue, Watched
<1>3. ASSUME NEW c \in Clients, Emplace(c)
      PROVE  Watched(p)'
  <2>. DEFINE new == [path |-> call[c].path, timeout |-> now + call[c].life,
                      set |-> call[c].set]
  <2>1. /\ new \in queue' /\ queue \subseteq queue' /\ held' = held
        /\ \A d \in Clients \ {c} : call'[d] = call[d]
    BY <1>0, <1>3 DEF Emplace
  <2>2. new.path = call[c].path /\ new.set = call[c].set
    OBVIOUS
  <2>. HIDE DEF new
  <2>. QED
    BY <1>0, <1>3, <2>1, <2>2 DEF Emplace, Watched
<1>4. ASSUME NEW c \in Clients, Notify(c)
      PROVE  Watched(p)'
  <2>1. \A d \in Clients : call[d].at = "emplace" => call'[d] = call[d]
    BY <1>0, <1>4 DEF Notify
  <2>. QED
    BY <1>0, <1>4, <2>1 DEF Notify, Notified, Waiting, Watched
<1>5. CASE Check \/ Sleep \/ WakeInTime \/ WakeSpuriously \/ Woken
  BY <1>0, <1>5 DEF Check, Sleep, WakeInTime, WakeSpuriously, Waiting, Woken, Watched
<1>6. CASE Expire
  BY <1>0, <1>6 DEF Expire, Tops, Watched
<1>7. CASE RemoveExpired
  <2>1. timer.at = "remove" /\ timer.key.path \in Paths
    BY <1>7 DEF RemoveExpired, TypeOK, Timers
  <2>2. p # timer.key.path /\ held'[p] = held[p]
    BY <1>0, <1>7, <2>1 DEF RemoveExpired
  <2>. QED
    BY <1>0, <1>7, <2>2 DEF RemoveExpired, Watched
<1>8. CASE Destroy
  BY <1>0, <1>8 DEF Destroy, Watched
<1>9. CASE DestroyNotify
  BY <1>0, <1>9 DEF DestroyNotify, Notified, Waiting, Watched
<1>10. CASE Join
  BY <1>10 DEF Join, Watched
<1>11. CASE Tick \/ UNCHANGED vars
  BY <1>0, <1>11 DEF Tick, vars, Watched
<1>. QED
  BY <1>1, <1>2, <1>3, <1>4, <1>5, <1>6, <1>7, <1>8, <1>9, <1>10, <1>11
     DEF Next, ClientStep, TimerStep, DestructorStep

\* Whatever replaces, removes or expires values meanwhile, a value with a time has its
\* timer until it goes or the accessor does.
THEOREM TimedKeysWatched == Spec => []TimedIsWatched
<1>1. Init => TimedIsWatched
  BY DEF Init, TimedIsWatched, Nothing
<1>2. TypeOK /\ TimedIsWatched /\ [Next]_vars => TimedIsWatched'
  BY WatchedStep
<1>. QED
  BY AccessorTypeCorrect, <1>1, <1>2, PTL DEF Spec

-----------------------------------------------------------------------------
(***************************************************************************)
(* What a timer removes.  Inductive once the numbers of all timers, those  *)
(* about to start included, are no greater than that of the value there.   *)
(***************************************************************************)
NotNewer(n, p, h, s) == n <= s /\ (h[p] # Nothing => n <= h[p].set)

Ordered ==
  /\ \A k \in queue : NotNewer(k.set, k.path, held, sets)
  /\ \A c \in Clients : call[c].at = "emplace" => NotNewer(call[c].set, call[c].path, held, sets)
  /\ Locked => timer.seen <= now
  /\ timer.at = "remove" =>
       NotNewer(timer.key.set, timer.key.path, held, sets) /\ timer.key.timeout < timer.seen

\* A step that changes no value and no number keeps the order of what is numbered.
LEMMA NotNewerKept ==
  ASSUME TypeOK, NEW n \in Nat, NEW p \in Paths, NotNewer(n, p, held, sets), [Next]_vars
  PROVE  NotNewer(n, p, held', sets')
<1>. USE DEF NotNewer
<1>0. held \in [Paths -> [set : Nat, timed : BOOLEAN]] /\ sets \in Nat
  BY DEF TypeOK
<1>1. ASSUME NEW c \in Clients, NEW q \in Paths, NEW life \in Lives \cup {0},
             SetValue(c, q, life)
      PROVE  NotNewer(n, p, held', sets')
  <2>1. sets' = sets + 1 /\ held' = [held EXCEPT ![q] = [set |-> sets', timed |-> life # 0]]
    BY <1>1 DEF SetValue
  <2>. QED
    BY <1>0, <2>1
<1>2. ASSUME NEW c \in Clients, NEW q \in Paths, RemoveValue(c, q)
      PROVE  NotNewer(n, p, held', sets')
  BY <1>0, <1>2 DEF RemoveValue
<1>3. CASE RemoveExpired
  BY <1>0, <1>3 DEF RemoveExpired
<1>4. CASE UNCHANGED <<held, sets>>
  BY <1>4
<1>. QED
  BY <1>1, <1>2, <1>3, <1>4
     DEF Next, ClientStep, TimerStep, DestructorStep, Emplace, Notify, Check, Sleep, WakeInTime,
         WakeSpuriously, Woken, Expire, Destroy, DestroyNotify, Join, Tick, vars

\* Every step keeps the timers in order.
LEMMA OrderedStep ==
  ASSUME TypeOK, Ordered, [Next]_vars
  PROVE  Ordered'
<1>0. /\ call \in [Clients -> CallsTyped] /\ now \in Nat /\ sets \in Nat
      /\ \A c \in Clients :
           call[c].at = "emplace" => call[c].set \in Nat /\ call[c].path \in Paths
      /\ \A k \in queue : k.set \in Nat /\ k.path \in Paths /\ k.timeout \in Nat
      /\ timer.at = "remove" => timer.key.set \in Nat /\ timer.key.path \in Paths
      /\ Locked => timer.seen \in Nat
  BY DEF TypeOK, CallsTyped, Timers, Idle, Locked
<1>1. \A n \in Nat, p \in Paths : NotNewer(n, p, held, sets) => NotNewer(n, p, held', sets')
  BY NotNewerKept
<1>2. \A k \in queue' : NotNewer(k.set, k.path, held', sets')
  <2>1. ASSUME NEW c \in Clients, Emplace(c)
        PROVE  \A k \in queue' : NotNewer(k.set, k.path, held', sets')
    <3>. DEFINE new == [path |-> call[c].path, timeout |-> now + call[c].life,
                        set |-> call[c].set]
    <3>1. queue' = queue \cup {new} /\ new.path = call[c].path /\ new.set = call[c].set
      BY <2>1 DEF Emplace
    <3>2. NotNewer(call[c].set, call[c].path, held', sets')
      BY <1>0, <1>1, <2>1 DEF Ordered, Emplace
    <3>. HIDE DEF new
    <3>. QED
      BY <1>0, <1>1, <3>1, <3>2 DEF Ordered
  <2>2. CASE queue' \subseteq queue
    BY <1>0, <1>1, <2>2 DEF Ordered
  <2>. QED
    BY <2>1, <2>2
       DEF Next, ClientStep, TimerStep, DestructorStep, SetValue, RemoveValue, Notify, Check, Sleep,
           WakeInTime, WakeSpuriously, Woken, Expire, RemoveExpired, Destroy, DestroyNotify, Join,
           Tick, vars
<1>3. \A c \in Clients :
        call'[c].at = "emplace" => NotNewer(call'[c].set, call'[c].path, held', sets')
  <2>1. ASSUME NEW d \in Clients, NEW q \in Paths, NEW life \in Lives \cup {0},
               SetValue(d, q, life), life # 0
        PROVE  \A c \in Clients :
                 call'[c].at = "emplace" => NotNewer(call'[c].set, call'[c].path, held', sets')
    <3>1. /\ call'[d] = [at |-> "emplace", path |-> q, life |-> life, set |-> sets']
          /\ \A c \in Clients \ {d} : call'[c] = call[c]
      BY <1>0, <2>1 DEF SetValue
    <3>2. NotNewer(sets', q, held', sets')
      <4>1. sets' \in Nat /\ held'[q].set = sets'
        BY <1>0, <2>1 DEF SetValue, TypeOK
      <4>. QED
        BY <4>1 DEF NotNewer
    <3>. QED
      BY <1>0, <1>1, <3>1, <3>2 DEF Ordered
  <2>2. CASE \A c \in Clients : call'[c].at = "emplace" => call'[c] = call[c]
    BY <1>0, <1>1, <2>2 DEF Ordered
  <2>3. ASSUME NEW d \in Clients, Emplace(d) \/ Notify(d)
        PROVE  \A c \in Clients : call'[c].at = "emplace" => call'[c] = call[c]
    BY <1>0, <2>3 DEF Emplace, Notify, Idle
  <2>4. ASSUME NEW d \in Clients, NEW q \in Paths, SetValue(d, q, 0)
        PROVE  call' = call
    BY <2>4 DEF SetValue
  <2>. QED
    BY <2>1, <2>2, <2>3, <2>4
       DEF Next, ClientStep, TimerStep, DestructorStep, RemoveValue, Check, Sleep,
           WakeInTime, WakeSpuriously, Woken, Expire, RemoveExpired, Destroy, DestroyNotify, Join,
           Tick, vars
<1>4. /\ Locked' => timer'.seen <= now'
      /\ timer'.at = "remove" =>
           /\ NotNewer(timer'.key.set, timer'.key.path, held', sets')
           /\ timer'.key.timeout < timer'.seen
  <2>1. CASE Woken
    BY <1>0, <2>1 DEF Woken, Locked
  <2>2. CASE Expire
    BY <1>0, <1>1, <2>2 DEF Expire, Tops, Ordered, Locked
  <2>3. CASE RemoveExpired
    BY <1>0, <2>3 DEF RemoveExpired, Ordered, Locked
  <2>4. CASE Check \/ Sleep \/ WakeInTime \/ WakeSpuriously
    BY <2>4 DEF Check, Sleep, WakeInTime, WakeSpuriously, Locked
  <2>5. CASE Notified /\ now' = now
    BY <1>0, <1>1, <2>5 DEF Notified, Waiting, Locked, Ordered
  <2>6. CASE timer' = timer /\ (now' = now \/ now' = now + 1)
    BY <1>0, <1>1, <2>6 DEF Locked, Ordered
  <2>. QED
    BY <2>1, <2>2, <2>3, <2>4, <2>5, <2>6
       DEF Next, ClientStep, TimerStep, DestructorStep, SetValue, RemoveValue, Emplace, Notify,
           Destroy, DestroyNotify, Join, Tick, vars
<1>. QED
  BY <1>2, <1>3, <1>4 DEF Ordered

\* A timer removes the value it was started for or a newer one, never an older one, and
\* only when its time is over, however late or often the thread is woken.
THEOREM TimerRemovesOwnOrNewer == Spec => RemovesOwnOrNewer
<1>1. Init => Ordered
  BY DEF Init, Ordered, Idle, Locked
<1>2. TypeOK /\ Ordered /\ [Next]_vars => Ordered'
  BY OrderedStep
<1>3. TypeOK /\ Ordered /\ [Next]_vars =>
        [RemoveExpired =>
           LET k == timer.key IN
             k.timeout < now /\ (held[k.path] # Nothing => k.set <= held[k.path].set)]_vars
  <2>. SUFFICES ASSUME TypeOK, Ordered, RemoveExpired
                PROVE  /\ timer.key.timeout < now
                       /\ held[timer.key.path] # Nothing =>
                            timer.key.set <= held[timer.key.path].set
    OBVIOUS
  <2>1. /\ timer.key.timeout \in Nat /\ timer.seen \in Nat /\ now \in Nat
    BY DEF TypeOK, RemoveExpired, Timers
  <2>. QED
    BY <2>1 DEF Ordered, RemoveExpired, Locked, NotNewer
<1>. QED
  BY AccessorTypeCorrect, <1>1, <1>2, <1>3, PTL DEF Spec, RemovesOwnOrNewer

=============================================================================
