------------------------- MODULE NaiveStorageProofs -------------------------
(***************************************************************************)
(* Proofs about NaiveStorage: what a call that is not finished has taken   *)
(* of the file, and from it that the value set last can be read, that a    *)
(* value is refused only when it is large, and that the storage is a map.  *)
(***************************************************************************)
EXTENDS NaiveStorage, TLAPS

Entry == [val : Values, room : Nat]
Stages == {"try", "copied", "found", "missing", "full", "closed", "grown", "opened",
           "reading", "gone"}

TypeOK ==
  /\ DOMAIN data \subseteq Paths /\ data \in [DOMAIN data -> Entry]
  /\ size \in Nat /\ free \in Nat
  /\ mapping \in {"ready", "closed", "detached"}
  /\ \/ call = Idle
     \/ call \in [stage : Stages, path : Paths, val : Values, grown : Nat \cup {-1}]
  /\ reply \in {Done(p) : p \in Paths}
  /\ undefined \in BOOLEAN /\ deaths \in Nat

\* The pointers are usable except in the stages between close() and the second try, and
\* undefined behaviour is their use there, or that of an entry the timer has erased.
Usable ==
  /\ mapping = "ready" <=> call.stage \notin {"closed", "grown", "opened"}
  /\ undefined => mapping # "ready" \/ At("gone")

\* What the copy of the call in progress holds of the file, or would if the erased entry
\* was one that setValue had found.
Copied ==
  IF call.stage \in {"copied", "found", "missing", "gone"} THEN Size[call.val] ELSE 0

\* Unless a crash left a copy behind, the value set last fits into what is free
\* once the call in progress has given its copy back.
LastFits ==
  deaths = 0 /\ reply.path \in DOMAIN data => Size[data[reply.path].val] <= free + Copied

\* A file that has grown for a call was at most doubled, took what the value needs
\* without its copy, and nobody else has taken any of it since.
Grown ==
  /\ call.stage \in {"full", "closed"} => call.grown = -1
  /\ call.stage \in {"grown", "opened"} => call.grown # -1
  /\ call # Idle /\ call.grown > 0 =>
       /\ call.grown >= Node + Size[call.val]
       /\ call.grown >= size - call.grown
       /\ call.grown <= free + Copied

Inv == TypeOK /\ Usable /\ LastFits /\ Grown

-----------------------------------------------------------------------------
\* The larger of two numbers, as grow() and reserve() take it.
LEMMA MaxOfTwo ==
  ASSUME NEW a \in Nat, NEW b \in Nat
  PROVE  Max({a, b}) \in {a, b} /\ Max({a, b}) >= a /\ Max({a, b}) >= b
<1>1. \E x \in {a, b} : \A y \in {a, b} : x >= y
  <2>1. CASE a >= b
    BY <2>1
  <2>2. CASE ~(a >= b)
    BY <2>2
  <2>. QED
    BY <2>1, <2>2
<1>. QED
  BY <1>1 DEF Max

LEMMA NeedIs ==
  ASSUME TypeOK, NEW p \in Paths, NEW v \in Values
  PROVE  /\ Size[v] \in Nat /\ Room(p) \in Nat
         /\ Needed(p, v) \in Nat /\ Needed(p, v) <= Node + Size[v]
<1>1. Size[v] \in Nat /\ Node \in Nat
  BY NaiveAssumption
<1>2. Room(p) \in Nat
  BY DEF TypeOK, Room, Entry
<1>. QED
  BY <1>1, <1>2 DEF Needed

\* The call in progress.
LEMMA InCall ==
  ASSUME TypeOK, call.stage # "idle"
  PROVE  /\ call # Idle
         /\ call \in [stage : Stages, path : Paths, val : Values, grown : Nat \cup {-1}]
         /\ Size[call.val] \in Nat
<1>1. call # Idle
  BY DEF Idle
<1>. QED
  BY <1>1, NaiveAssumption DEF TypeOK

LEMMA InvInit == Init => Inv
<1>. SUFFICES ASSUME Init PROVE Inv
  OBVIOUS
<1>1. DOMAIN data = {} /\ data \in [DOMAIN data -> Entry]
  BY DEF Init
<1>2. Initial \in Nat /\ 0 \in Nat
  BY NaiveAssumption
<1>3. TypeOK
  BY <1>1, <1>2 DEF Init, TypeOK
<1>. QED
  BY <1>1, <1>3 DEF Init, Inv, Usable, LastFits, Grown, Idle

LEMMA InvStep == Inv /\ [Next]_vars => Inv'
<1>. SUFFICES ASSUME Inv, Next PROVE Inv'
  BY DEF Inv, TypeOK, Usable, LastFits, Grown, Copied, At, Done, Idle, vars
<1>. USE DEF Inv
<1>0. ~undefined
  BY DEF Next
<1>. USE <1>0
<1>a. Node \in Nat /\ MaxFile \in Nat
  BY NaiveAssumption
<1>1. ASSUME NEW p \in Paths, NEW v \in Values, SetValue(p, v) PROVE Inv'
  <2>1. call' # Idle /\ call'.stage = "try" /\ call'.grown = -1
    BY <1>1 DEF SetValue, Idle
  <2>2. call' \in [stage : Stages, path : Paths, val : Values, grown : Nat \cup {-1}]
    BY <1>1 DEF SetValue, Stages
  <2>3. TypeOK'
    BY <1>1, <2>2 DEF SetValue, TypeOK
  <2>4. Usable'
    BY <1>1, <2>1 DEF SetValue, Usable, At, Idle
  <2>5. LastFits'
    BY <1>1, <2>1 DEF SetValue, LastFits, Copied, At
  <2>6. Grown'
    BY <2>1 DEF Grown
  <2>. QED
    BY <2>3, <2>4, <2>5, <2>6
<1>2. ASSUME Copy PROVE Inv'
  <2>1. /\ call.stage = "try" /\ mapping = "ready" /\ Size[call.val] <= free
        /\ free' = free - Size[call.val] /\ call' = [call EXCEPT !.stage = "copied"]
        /\ UNCHANGED <<data, size, mapping, undefined, reply, deaths>>
    BY <1>2 DEF Copy, At
  <2>2. /\ call # Idle
        /\ call \in [stage : Stages, path : Paths, val : Values, grown : Nat \cup {-1}]
        /\ Size[call.val] \in Nat
    BY <2>1, InCall
  <2>3. /\ call'.stage = "copied" /\ call'.val = call.val /\ call'.grown = call.grown
        /\ call' \in [stage : Stages, path : Paths, val : Values, grown : Nat \cup {-1}]
    BY <2>1, <2>2 DEF Stages
  <2>4. TypeOK'
    BY <2>1, <2>2, <2>3 DEF TypeOK
  <2>5. Usable'
    BY <2>1, <2>3 DEF Usable
  <2>6. Copied = 0 /\ Copied' = Size[call.val] /\ free' + Copied' = free
    <3>1. Copied = 0 /\ Copied' = Size[call.val]
      BY <2>1, <2>3 DEF Copied, At
    <3>. QED
      BY <2>1, <2>2, <3>1 DEF TypeOK
  <2>7. free + Copied = free
    BY <2>6 DEF TypeOK
  <2>8. LastFits'
    BY <2>1, <2>6, <2>7 DEF LastFits
  <2>9. Grown'
    BY <2>1, <2>2, <2>3, <2>6, <2>7 DEF Grown
  <2>. QED
    BY <2>4, <2>5, <2>8, <2>9
<1>3. ASSUME Store PROVE Inv'
  <2>. DEFINE p == call.path
              v == call.val
              given == IF Size[v] > Room(p) THEN Room(p) ELSE 0
  <2>1. /\ call.stage \in {"found", "missing"} /\ mapping = "ready" /\ Needed(p, v) <= free
        /\ data' = [q \in DOMAIN data \cup {p} |->
             IF q = p THEN [val |-> v, room |-> Max({Room(p), Size[v]})] ELSE data[q]]
        /\ free' = free - Needed(p, v) + Size[v] + given
        /\ reply' = Done(p) /\ call' = Idle
        /\ UNCHANGED <<size, mapping, undefined, deaths>>
    BY <1>3 DEF Store, StoreReturning, Storing, At
  <2>2. p \in Paths /\ v \in Values /\ Size[v] \in Nat
    BY <2>1, InCall
  <2>3. /\ Room(p) \in Nat /\ Needed(p, v) \in Nat
        /\ Max({Room(p), Size[v]}) \in Nat
    BY <2>2, NeedIs, MaxOfTwo
  <2>4. given \in Nat /\ free \in Nat
    BY <2>3 DEF TypeOK
  <2>. HIDE DEF p, v, given
  <2>5. free' \in Nat /\ free' >= Size[v]
    BY <2>1, <2>2, <2>3, <2>4
  <2>6. DOMAIN data' \subseteq Paths /\ data' \in [DOMAIN data' -> Entry]
    BY <2>1, <2>2, <2>3 DEF TypeOK, Entry
  <2>7. TypeOK'
    BY <2>1, <2>2, <2>5, <2>6 DEF TypeOK
  <2>8. Usable'
    BY <2>1 DEF Usable, Idle
  <2>9. LastFits'
    <3>1. reply'.path = p /\ data'[p].val = v
      BY <2>1 DEF Done
    <3>2. Copied' = 0
      BY <2>1 DEF Copied, At, Idle
    <3>. QED
      BY <2>5, <3>1, <3>2 DEF LastFits
  <2>10. Grown'
    BY <2>1 DEF Grown, Idle
  <2>. QED
    BY <2>7, <2>8, <2>9, <2>10
<1>4. ASSUME BadAlloc PROVE Inv'
  <2>1. /\ mapping = "ready" /\ call.stage \in {"try", "found", "missing"}
        /\ UNCHANGED <<data, size, mapping, undefined, reply, deaths>>
    BY <1>4 DEF BadAlloc, Storing, At
  <2>2. /\ call # Idle
        /\ call \in [stage : Stages, path : Paths, val : Values, grown : Nat \cup {-1}]
        /\ Size[call.val] \in Nat
    BY <2>1, InCall
  <2>3. free' \in Nat /\ free' = free + Copied
    BY <1>4, <2>1, <2>2 DEF BadAlloc, Storing, Copied, At, TypeOK
  <2>4. call' = Idle \/ (call.grown = -1 /\ call' = [call EXCEPT !.stage = "full"])
    BY <1>4 DEF BadAlloc
  <2>5. call' = Idle \/
          /\ call' \in [stage : Stages, path : Paths, val : Values, grown : Nat \cup {-1}]
          /\ call'.stage = "full" /\ call'.grown = -1
    BY <2>2, <2>4 DEF Stages
  <2>6. call'.stage \in {"idle", "full"}
    BY <2>5 DEF Idle
  <2>7. TypeOK'
    BY <2>1, <2>3, <2>5 DEF TypeOK
  <2>8. Usable'
    BY <2>1, <2>6 DEF Usable
  <2>9. free' + Copied' = free + Copied
    BY <2>3, <2>6 DEF Copied, At, TypeOK
  <2>10. LastFits'
    BY <2>1, <2>9 DEF LastFits
  <2>11. Grown'
    BY <2>5 DEF Grown, Idle
  <2>. QED
    BY <2>7, <2>8, <2>10, <2>11
<1>5. ASSUME Close PROVE Inv'
  <2>1. /\ call.stage = "full" /\ mapping' = "closed"
        /\ call' = [call EXCEPT !.stage = "closed"]
        /\ UNCHANGED <<data, size, free, undefined, reply, deaths>>
    BY <1>5 DEF Close, At
  <2>2. /\ call \in [stage : Stages, path : Paths, val : Values, grown : Nat \cup {-1}]
        /\ Size[call.val] \in Nat
    BY <2>1, InCall
  <2>3. /\ call'.stage = "closed" /\ call'.val = call.val /\ call'.grown = call.grown
        /\ call' \in [stage : Stages, path : Paths, val : Values, grown : Nat \cup {-1}]
    BY <2>1, <2>2 DEF Stages
  <2>4. TypeOK' /\ Usable' /\ LastFits'
    BY <2>1, <2>3 DEF TypeOK, Usable, LastFits, Copied, At
  <2>5. Grown'
    BY <2>1, <2>3 DEF Grown
  <2>. QED
    BY <2>4, <2>5
<1>6. ASSUME Grow PROVE Inv'
  <2>. DEFINE more == Max({Node + Size[call.val], size})
              grown == IF size + more <= MaxFile THEN more ELSE 0
  <2>1. /\ call.stage = "closed"
        /\ call' = [call EXCEPT !.stage = "grown", !.grown = grown]
        /\ size' = size + grown /\ free' = free + grown
        /\ UNCHANGED <<data, mapping, undefined, reply, deaths>>
    BY <1>6 DEF Grow, GrowBy, At
  <2>2. /\ call \in [stage : Stages, path : Paths, val : Values, grown : Nat \cup {-1}]
        /\ Size[call.val] \in Nat
    BY <2>1, InCall
  <2>3. size \in Nat /\ free \in Nat
    BY DEF TypeOK
  <2>4. more \in Nat /\ more >= Node + Size[call.val] /\ more >= size
    BY <1>a, <2>2, <2>3, MaxOfTwo
  <2>5. grown \in Nat /\ (grown > 0 => grown = more)
    BY <2>4
  <2>. HIDE DEF more, grown
  <2>6. /\ call'.stage = "grown" /\ call'.val = call.val /\ call'.grown = grown
        /\ call' \in [stage : Stages, path : Paths, val : Values, grown : Nat \cup {-1}]
    BY <2>1, <2>2, <2>5 DEF Stages
  <2>7. TypeOK'
    BY <2>1, <2>3, <2>5, <2>6 DEF TypeOK
  <2>8. Usable'
    BY <2>1, <2>6 DEF Usable
  <2>9. Copied = 0 /\ Copied' = 0
    BY <2>1, <2>6 DEF Copied, At
  <2>10. LastFits'
    <3>. SUFFICES ASSUME deaths = 0, reply.path \in DOMAIN data
                  PROVE  Size[data[reply.path].val] <= free'
      BY <2>1, <2>3, <2>5, <2>9 DEF LastFits
    <3>1. Size[data[reply.path].val] <= free
      BY <2>3, <2>9 DEF LastFits
    <3>2. Size[data[reply.path].val] \in Nat
      BY NaiveAssumption DEF TypeOK, Entry
    <3>. QED
      BY <2>1, <2>3, <2>5, <3>1, <3>2
  <2>11. Grown'
    <3>1. size' - grown = size /\ grown <= free' + Copied'
      BY <2>1, <2>3, <2>5, <2>9
    <3>. QED
      BY <2>2, <2>4, <2>5, <2>6, <3>1 DEF Grown
  <2>. QED
    BY <2>7, <2>8, <2>10, <2>11
<1>7. ASSUME Open PROVE Inv'
  <2>1. /\ call.stage = "grown" /\ mapping' = "detached" /\ data' = data
        /\ call' = [call EXCEPT !.stage = "opened"]
        /\ UNCHANGED <<size, free, undefined, reply, deaths>>
    BY <1>7 DEF Open, OpenAs, At
  <2>2. /\ call \in [stage : Stages, path : Paths, val : Values, grown : Nat \cup {-1}]
        /\ Size[call.val] \in Nat
    BY <2>1, InCall
  <2>3. /\ call'.stage = "opened" /\ call'.val = call.val /\ call'.grown = call.grown
        /\ call' \in [stage : Stages, path : Paths, val : Values, grown : Nat \cup {-1}]
    BY <2>1, <2>2 DEF Stages
  <2>4. TypeOK' /\ Usable' /\ LastFits'
    BY <2>1, <2>3 DEF TypeOK, Usable, LastFits, Copied, At
  <2>5. Grown'
    BY <2>1, <2>3 DEF Grown, Copied, At, Idle
  <2>. QED
    BY <2>4, <2>5
<1>8. ASSUME Attach PROVE Inv'
  <2>1. /\ call.stage = "opened" /\ mapping' = "ready"
        /\ call' = [call EXCEPT !.stage = "try"]
        /\ UNCHANGED <<data, size, free, undefined, reply, deaths>>
    BY <1>8 DEF Attach, At
  <2>2. /\ call \in [stage : Stages, path : Paths, val : Values, grown : Nat \cup {-1}]
        /\ Size[call.val] \in Nat
    BY <2>1, InCall
  <2>3. /\ call'.stage = "try" /\ call'.val = call.val /\ call'.grown = call.grown
        /\ call' \in [stage : Stages, path : Paths, val : Values, grown : Nat \cup {-1}]
    BY <2>1, <2>2 DEF Stages
  <2>4. TypeOK' /\ Usable' /\ LastFits'
    BY <1>8, <2>1, <2>3 DEF TypeOK, Usable, LastFits, Copied, At
  <2>5. Grown'
    BY <2>1, <2>3 DEF Grown, Copied, At, Idle
  <2>. QED
    BY <2>4, <2>5
<1>9. ASSUME NEW p \in Paths, RemoveValue(p) PROVE Inv'
  <2>. DEFINE gone == (At("found") \/ At("reading")) /\ call.path = p
  <2>1. /\ p \in DOMAIN data /\ mapping = "ready"
        /\ data' = [q \in DOMAIN data \ {p} |-> data[q]]
        /\ free' = free + Node + Room(p)
        /\ reply' = Done(p)
        /\ call' = IF gone THEN [call EXCEPT !.stage = "gone"] ELSE call
        /\ UNCHANGED <<size, mapping, undefined, deaths>>
    BY <1>9 DEF RemoveValue
  <2>2. Room(p) \in Nat /\ free \in Nat
    BY DEF TypeOK, Room, Entry
  <2>3. free' \in Nat /\ free' >= free
    BY <1>a, <2>1, <2>2
  <2>4. ASSUME gone
        PROVE  /\ call # Idle /\ call' # Idle /\ call.stage \in {"found", "reading"}
               /\ call \in [stage : Stages, path : Paths, val : Values, grown : Nat \cup {-1}]
               /\ call' \in [stage : Stages, path : Paths, val : Values, grown : Nat \cup {-1}]
               /\ call'.stage = "gone" /\ call'.val = call.val /\ call'.grown = call.grown
               /\ Size[call.val] \in Nat
    <3>1. call.stage \in {"found", "reading"}
      BY <2>4 DEF At
    <3>2. /\ call # Idle /\ Size[call.val] \in Nat
          /\ call \in [stage : Stages, path : Paths, val : Values, grown : Nat \cup {-1}]
      BY <3>1, InCall
    <3>. QED
      BY <2>1, <2>4, <3>1, <3>2 DEF Stages, Idle
  <2>5. ~gone => call' = call
    BY <2>1
  <2>. HIDE DEF gone
  <2>6. TypeOK'
    BY <2>1, <2>3, <2>4, <2>5 DEF TypeOK
  <2>7. Usable'
    BY <2>1, <2>4, <2>5 DEF Usable
  <2>8. LastFits'
    BY <2>1 DEF LastFits, Done
  <2>9. Grown'
    <3>1. ASSUME call' # Idle, call'.grown > 0
          PROVE  /\ call # Idle /\ call'.grown = call.grown /\ call'.val = call.val
                 /\ call.grown <= free' + Copied'
      <4>1. call # Idle /\ call'.grown = call.grown /\ call'.val = call.val
        BY <2>4, <2>5, <3>1
      <4>2. call.grown \in Nat /\ Size[call.val] \in Nat
        BY <3>1, <4>1, NaiveAssumption DEF TypeOK
      <4>3. Copied \in Nat /\ Copied' \in Nat /\ Copied' >= Copied
        BY <2>4, <2>5, <4>1, <4>2 DEF Copied
      <4>4. call.grown <= free + Copied
        BY <3>1, <4>1 DEF Grown
      <4>. QED
        BY <2>2, <2>3, <4>1, <4>2, <4>3, <4>4
    <3>. QED
      BY <2>1, <2>4, <2>5, <3>1 DEF Grown
  <2>. QED
    BY <2>6, <2>7, <2>8, <2>9
<1>10. ASSUME UsesMapping PROVE Inv'
  BY <1>10 DEF UsesMapping, TypeOK, Usable, LastFits, Grown, Copied, At
<1>11. ASSUME Restart PROVE Inv'
  <2>1. deaths' \in Nat /\ deaths' # 0
    BY <1>11 DEF Restart, TypeOK
  <2>. QED
    BY <1>11, <2>1 DEF Restart, TypeOK, Usable, LastFits, Grown, Idle
<1>12. ASSUME Find PROVE Inv'
  <2>. DEFINE next == IF call.path \in DOMAIN data THEN "found" ELSE "missing"
  <2>1. /\ call.stage = "copied" /\ mapping = "ready"
        /\ call' = [call EXCEPT !.stage = next]
        /\ UNCHANGED <<data, size, free, mapping, undefined, reply, deaths>>
    BY <1>12 DEF Find, At
  <2>2. next \in {"found", "missing"}
    OBVIOUS
  <2>. HIDE DEF next
  <2>3. /\ call # Idle
        /\ call \in [stage : Stages, path : Paths, val : Values, grown : Nat \cup {-1}]
    BY <2>1, InCall
  <2>4. /\ call'.stage = next /\ call'.val = call.val /\ call'.grown = call.grown
        /\ call' \in [stage : Stages, path : Paths, val : Values, grown : Nat \cup {-1}]
    BY <2>1, <2>2, <2>3 DEF Stages
  <2>5. Copied' = Copied
    BY <2>1, <2>2, <2>4 DEF Copied
  <2>6. TypeOK' /\ Usable' /\ LastFits'
    BY <2>1, <2>2, <2>4, <2>5 DEF TypeOK, Usable, LastFits, At
  <2>7. Grown'
    BY <2>1, <2>2, <2>3, <2>4, <2>5 DEF Grown
  <2>. QED
    BY <2>6, <2>7
<1>13. ASSUME NEW p \in Paths, GetValue(p) PROVE Inv'
  <2>1. /\ call = Idle /\ p \in DOMAIN data
        /\ call' = [stage |-> "reading", path |-> p, val |-> data[p].val, grown |-> -1]
        /\ UNCHANGED <<data, size, free, mapping, undefined, reply, deaths>>
    BY <1>13 DEF GetValue, At, TypeOK, Stages, Idle
  <2>2. call' \in [stage : Stages, path : Paths, val : Values, grown : Nat \cup {-1}]
    BY <2>1 DEF Stages, TypeOK, Entry
  <2>3. Copied = 0 /\ Copied' = 0
    BY <2>1 DEF Copied, Idle
  <2>4. TypeOK' /\ Usable' /\ LastFits'
    BY <2>1, <2>2, <2>3 DEF TypeOK, Usable, LastFits, At, Idle
  <2>5. Grown'
    BY <2>1 DEF Grown
  <2>. QED
    BY <2>4, <2>5
<1>14. ASSUME Read PROVE Inv'
  <2>1. /\ call.stage = "reading" /\ call' = Idle
        /\ UNCHANGED <<data, size, free, mapping, undefined, reply, deaths>>
    BY <1>14 DEF Read, At
  <2>2. Copied = 0 /\ Copied' = 0
    BY <2>1 DEF Copied, Idle
  <2>. QED
    BY <2>1, <2>2 DEF TypeOK, Usable, LastFits, Grown, Idle
<1>15. ASSUME UsesErased PROVE Inv'
  BY <1>15 DEF UsesErased, TypeOK, Usable, LastFits, Grown, Copied, At
<1>. QED
  BY <1>1, <1>2, <1>3, <1>4, <1>5, <1>6, <1>7, <1>8, <1>9, <1>10, <1>11, <1>12, <1>13,
     <1>14, <1>15 DEF Next

\* The inductive invariant: what the call in progress holds of the file, with the types.
THEOREM InvCorrect == Spec => []Inv
<1>. QED
  BY InvInit, InvStep, PTL DEF Spec

-----------------------------------------------------------------------------
\* Whatever the sizes and the disk: until the process dies, the value set last is read
\* back, since getValue's copy fits where setValue's copy was.
THEOREM LastReads == Spec => []LastSetReads
<1>1. Inv => LastSetReads
  <2>. SUFFICES ASSUME Inv, At("idle"), deaths = 0, reply.path \in DOMAIN data
                PROVE  getValue(reply.path) = data[reply.path].val
    BY DEF LastSetReads
  <2>1. Copied = 0 /\ free \in Nat
    BY DEF Copied, At, Inv, TypeOK
  <2>2. Size[data[reply.path].val] <= free
    BY <2>1 DEF Inv, LastFits
  <2>. QED
    BY <2>2 DEF getValue
<1>. QED
  BY <1>1, InvCorrect, PTL

\* Whatever the client and the timer do, the null and the old pointer are used only while
\* setValue closes, grows and opens the file, and an erased entry only by the call that
\* found it before the timer erased it.
THEOREM UndefinedByTimer == Spec => []UndefinedOnlyByTimer
<1>1. Inv => UndefinedOnlyByTimer
  BY DEF Inv, Usable, UndefinedOnlyByTimer, At
<1>. QED
  BY <1>1, InvCorrect, PTL

\* Whatever the sizes: a value is refused only if the file cannot grow, or if it takes
\* with its copy more than the file had before it grew.
THEOREM RefusesOnlyLarge == Spec => ThrowsOnlyIfLarge
<1>. DEFINE Refusal == BadAlloc /\ call' = Idle =>
              call.grown = 0 \/ 2 * Size[call.val] + Node > size - call.grown
<1>1. ASSUME Inv PROVE Refusal
  <2>. SUFFICES ASSUME BadAlloc, call' = Idle, call.grown # 0
                PROVE  2 * Size[call.val] + Node > size - call.grown
    OBVIOUS
  <2>. USE DEF Inv
  <2>. DEFINE s == Size[call.val]
              need == Needed(call.path, call.val)
  <2>1. call.stage \in {"try", "found", "missing"}
    BY DEF BadAlloc, Storing, At
  <2>2. /\ call # Idle
        /\ call \in [stage : Stages, path : Paths, val : Values, grown : Nat \cup {-1}]
    BY <1>1, <2>1, InCall
  <2>3. call.grown # -1
    BY <2>2 DEF BadAlloc, Idle
  <2>4. call.grown \in Nat /\ call.grown > 0 /\ free \in Nat /\ size \in Nat
    BY <1>1, <2>2, <2>3 DEF TypeOK
  <2>5. s \in Nat /\ Node \in Nat /\ need \in Nat /\ need <= Node + s
    BY <1>1, <2>2, NeedIs, NaiveAssumption
  <2>6. /\ call.grown >= Node + s /\ call.grown >= size - call.grown
        /\ call.grown <= free + Copied
    BY <1>1, <2>2, <2>4 DEF Grown
  <2>. HIDE DEF need
  <2>7. \/ At("try") /\ s > 0 /\ (free < s \/ call.grown < s)
        \/ Storing /\ need > 0 /\ (free < need \/ call.grown < s + need)
    BY DEF BadAlloc, need
  <2>. HIDE DEF s
  <2>8. CASE At("try") /\ s > 0 /\ (free < s \/ call.grown < s)
    <3>1. Copied = 0
      BY <2>8 DEF Copied, At
    <3>. QED
      BY <2>4, <2>5, <2>6, <2>8, <3>1
  <2>9. CASE Storing /\ need > 0 /\ (free < need \/ call.grown < s + need)
    <3>1. Copied = s
      BY <2>9 DEF Copied, Storing, At, s
    <3>2. call.grown < s + need
      BY <2>4, <2>5, <2>6, <2>9, <3>1
    <3>3. 2 * s + Node > size - call.grown
      BY <2>4, <2>5, <2>6, <3>2
    <3>. QED
      BY <3>3 DEF s
  <2>. QED
    BY <2>7, <2>8, <2>9
<1>2. Inv /\ [Next]_vars => [Refusal]_vars
  BY <1>1
<1>. QED
  BY <1>2, InvCorrect, PTL DEF Spec, ThrowsOnlyIfLarge

-----------------------------------------------------------------------------
\* Growth, refused values, restarts and undefined behaviour are no steps of the map
\* IStorage promises, and Store and RemoveValue are its two operations.
THEOREM ImplementsStorageMap == Spec => ImplementsMap
<1>. DEFINE m == [p \in DOMAIN data |-> data[p].val]
<1>1. Init => Map!Init
  <2>. SUFFICES ASSUME Init PROVE Map!Init
    OBVIOUS
  <2>1. {} \in SUBSET Paths /\ m \in [{} -> {[w \in Values |-> w][v] : v \in Values}]
    BY DEF Init
  <2>2. \E p \in Paths : reply = Map!Done(p)
    BY DEF Init, Done, Map!Done
  <2>. QED
    BY <2>1, <2>2 DEF Map!Init
<1>2. ASSUME Inv, [Next]_vars PROVE [Map!Next]_<<m, reply>>
  <2>. USE DEF Inv
  <2>1. ASSUME Store PROVE Map!Next
    <3>. DEFINE p == call.path
                v == call.val
    <3>1. p \in Paths /\ v \in Values
      BY <1>2, <2>1, InCall DEF Store, StoreReturning, Storing, At
    <3>2. /\ reply' = Map!Done(p)
          /\ data' = [q \in DOMAIN data \cup {p} |->
               IF q = p THEN [val |-> v, room |-> Max({Room(p), Size[v]})] ELSE data[q]]
      BY <2>1 DEF Store, StoreReturning, Done, Map!Done
    <3>3. m' = [q \in DOMAIN m \cup {p} |-> IF q = p THEN [w \in Values |-> w][v] ELSE m[q]]
      BY <3>1, <3>2
    <3>. QED
      BY <3>1, <3>2, <3>3 DEF Map!Next, Map!Set
  <2>2. ASSUME NEW p \in Paths, RemoveValue(p) PROVE Map!Next
    <3>1. /\ p \in DOMAIN data /\ reply' = Map!Done(p)
          /\ data' = [q \in DOMAIN data \ {p} |-> data[q]]
      BY <2>2 DEF RemoveValue, Done, Map!Done
    <3>2. m' = [q \in DOMAIN m \ {p} |-> m[q]]
      BY <3>1
    <3>. QED
      BY <3>1, <3>2 DEF Map!Next, Map!Remove
  <2>3. ASSUME UNCHANGED <<data, reply>> PROVE UNCHANGED <<m, reply>>
    BY <2>3
  <2>4. \/ Store \/ (\E p \in Paths : RemoveValue(p)) \/ UNCHANGED <<data, reply>>
    BY <1>2 DEF Next, SetValue, GetValue, Read, Copy, Find, BadAlloc, Close, Grow, GrowBy,
                Open, OpenAs, Attach, UsesMapping, UsesErased, Restart, vars
  <2>. QED
    BY <2>1, <2>2, <2>3, <2>4
<1>. QED
  BY <1>1, <1>2, InvCorrect, PTL DEF Spec, ImplementsMap, Map!Spec
=============================================================================
