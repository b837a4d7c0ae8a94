-------------------------- MODULE NamedLockProofs --------------------------
(***************************************************************************)
(* The locks of apstra/client.go, and the lists that goroutines read,      *)
(* change and write back under them: for any set of goroutines, any names  *)
(* and any contents of the lists, with other clients in between.           *)
(***************************************************************************)
EXTENDS NamedLock, RuleList, TemplateAssignments, SequenceTheorems, TLAPS

-----------------------------------------------------------------------------
(* NamedLock: the map of mutexes is one lock per name.  The invariant says *)
(* that what a goroutine believes to hold is what the mutexes say, that a  *)
(* mutex in use is in the map, and that unlock is called for the lock      *)
(* taken last.                                                             *)

InSeq(s, n) == \E i \in 1..Len(s) : s[i] = n

NoneTwice(s) == \A i, j \in 1..Len(s) : s[i] = s[j] => i = j

BeliefIsTrue == \A g \in Goroutine, n \in LockName : Holds(g, n) <=> mutex[n] = g

TakenOnce == \A g \in Goroutine : NoneTwice(holding[g])

UsedIsMapped == \A n \in LockName : mutex[n] # Nobody => n \in sync

WaitsForMapped == \A g \in Goroutine : lockPc[g] = "wait" => wanted[g] \in sync

UnlocksLast ==
  \A g \in Goroutine :
    lockPc[g] = "unlock" => holding[g] # <<>> /\ wanted[g] = holding[g][Len(holding[g])]

NoPanicYet == \A g \in Goroutine : lockPc[g] # "panic"

LockIInv ==
  LockTypeOK /\ BeliefIsTrue /\ TakenOnce /\ UsedIsMapped /\ WaitsForMapped /\ UnlocksLast
  /\ NoPanicYet

-----------------------------------------------------------------------------
(* Two facts about sequences without repetition.                           *)

LEMMA Appended ==
  ASSUME NEW S, NEW s \in Seq(S), NEW e \in S
  PROVE  /\ Append(s, e) \in Seq(S)
         /\ \A n : InSeq(Append(s, e), n) <=> InSeq(s, n) \/ n = e
         /\ NoneTwice(s) /\ ~InSeq(s, e) => NoneTwice(Append(s, e))
<1>1. /\ Append(s, e) \in Seq(S)
      /\ Len(Append(s, e)) = Len(s) + 1
      /\ Len(s) \in Nat
      /\ Append(s, e)[Len(s) + 1] = e
      /\ \A i \in 1..Len(s) : Append(s, e)[i] = s[i]
  OBVIOUS
<1>2. 1..(Len(s) + 1) = 1..Len(s) \cup {Len(s) + 1}
  BY <1>1
<1>3. \A n : InSeq(Append(s, e), n) <=> InSeq(s, n) \/ n = e
  BY <1>1, <1>2 DEF InSeq
<1>4. ASSUME NoneTwice(s), ~InSeq(s, e) PROVE NoneTwice(Append(s, e))
  BY <1>1, <1>2, <1>4 DEF InSeq, NoneTwice
<1> QED BY <1>1, <1>3, <1>4

LEMMA Popped ==
  ASSUME NEW S, NEW s \in Seq(S), s # <<>>, NoneTwice(s)
  PROVE  LET t == SubSeq(s, 1, Len(s) - 1) IN
         /\ t \in Seq(S) /\ NoneTwice(t)
         /\ \A n : InSeq(t, n) <=> InSeq(s, n) /\ n # s[Len(s)]
         /\ s[Len(s)] \in S /\ InSeq(s, s[Len(s)])
<1> DEFINE t == SubSeq(s, 1, Len(s) - 1)
<1>1. Len(s) \in Nat /\ Len(s) >= 1
  OBVIOUS
<1>2. /\ t \in Seq(S)
      /\ Len(t) = Len(s) - 1
      /\ \A i \in 1..(Len(s) - 1) : t[i] = s[i]
  <2>1. \A i \in 1..(Len(s) - 1) : s[i] \in S
    BY <1>1
  <2>2. /\ t \in Seq(S)
        /\ Len(t) = IF 1 <= Len(s) - 1 THEN (Len(s) - 1) - 1 + 1 ELSE 0
        /\ \A i \in 1..((Len(s) - 1) - 1 + 1) : t[i] = s[1 + i - 1]
    <3> HIDE DEF t
    <3>1. 1 \in Int /\ Len(s) - 1 \in Int
      BY <1>1
    <3> QED BY <2>1, <3>1, SubSeqProperties DEF t
  <2> HIDE DEF t
  <2>3. Len(t) = Len(s) - 1
    <3>1. \A k \in Nat : k >= 1 => (IF 1 <= k - 1 THEN (k - 1) - 1 + 1 ELSE 0) = k - 1
      OBVIOUS
    <3> QED BY <1>1, <2>2, <3>1
  <2>4. (Len(s) - 1) - 1 + 1 = Len(s) - 1
    BY <1>1
  <2>5. \A i \in 1..(Len(s) - 1) : t[i] = s[1 + i - 1]
    BY <2>2, <2>4
  <2>6. \A i \in 1..(Len(s) - 1) : 1 + i - 1 = i
    BY <1>1
  <2> QED BY <2>2, <2>3, <2>5, <2>6
<1>3. 1..Len(s) = 1..(Len(s) - 1) \cup {Len(s)}
  BY <1>1
<1>4. NoneTwice(t)
  BY <1>1, <1>2, <1>3 DEF NoneTwice
<1>5. \A i \in 1..(Len(s) - 1) : s[i] # s[Len(s)]
  BY <1>1 DEF NoneTwice
<1>6. \A n : InSeq(t, n) <=> InSeq(s, n) /\ n # s[Len(s)]
  BY <1>1, <1>2, <1>3, <1>5 DEF InSeq
<1>7. s[Len(s)] \in S /\ InSeq(s, s[Len(s)])
  BY <1>1 DEF InSeq
<1> QED BY <1>2, <1>4, <1>6, <1>7

-----------------------------------------------------------------------------
LEMMA LockInitially == LockInit => LockIInv
<1> SUFFICES ASSUME LockInit PROVE LockIInv
  OBVIOUS
<1> USE NobodyAssumption, HeadersAssumption DEF LockInit
<1>1. LockTypeOK
  BY DEF LockTypeOK
<1>2. BeliefIsTrue
  BY DEF BeliefIsTrue, Holds
<1>3. TakenOnce
  BY DEF TakenOnce, NoneTwice
<1>4. UsedIsMapped /\ WaitsForMapped /\ UnlocksLast /\ NoPanicYet
  BY DEF UsedIsMapped, WaitsForMapped, UnlocksLast, NoPanicYet
<1> QED BY <1>1, <1>2, <1>3, <1>4 DEF LockIInv

\* A goroutine takes a mutex that nobody has, in the map by then: the steps Created and Locked.
LEMMA Taking ==
  ASSUME LockIInv, NEW g \in Goroutine, NEW n \in LockName, mutex[n] = Nobody,
         lockPc[g] # "unlock",
         mutex' = [mutex EXCEPT ![n] = g],
         holding' = [holding EXCEPT ![g] = Append(@, n)],
         lockPc' = [lockPc EXCEPT ![g] = "user"],
         wanted' = wanted, sync' = sync \cup {n}, syncLock' \in Goroutine \cup {Nobody}
  PROVE  LockIInv'
<1> USE NobodyAssumption DEF LockIInv, LockTypeOK
<1>1. ~InSeq(holding[g], n)
  BY DEF BeliefIsTrue, Holds, InSeq
<1>2. /\ holding[g] \in Seq(LockName)
      /\ holding'[g] = Append(holding[g], n)
      /\ \A h \in Goroutine : h # g => holding'[h] = holding[h]
  OBVIOUS
<1>3. /\ holding'[g] \in Seq(LockName)
      /\ \A m : InSeq(holding'[g], m) <=> InSeq(holding[g], m) \/ m = n
      /\ NoneTwice(holding'[g])
  BY <1>1, <1>2, Appended DEF TakenOnce
<1>4. LockTypeOK'
  BY <1>3
<1>5. BeliefIsTrue'
  BY <1>2, <1>3 DEF BeliefIsTrue, Holds, InSeq
<1>6. TakenOnce'
  BY <1>2, <1>3 DEF TakenOnce
<1>7. UsedIsMapped' /\ WaitsForMapped'
  BY DEF UsedIsMapped, WaitsForMapped
<1>8. UnlocksLast' /\ NoPanicYet'
  BY <1>2 DEF UnlocksLast, NoPanicYet
<1> QED BY <1>4, <1>5, <1>6, <1>7, <1>8

\* What unlock finds: the mutex is there, is the goroutine's own, and is given back.
LEMMA GivingBack ==
  ASSUME LockIInv, NEW g \in Goroutine, lockPc[g] = "unlock"
  PROVE  wanted[g] \in sync /\ mutex[wanted[g]] = g
<1> USE NobodyAssumption DEF LockIInv, LockTypeOK
<1>1. InSeq(holding[g], wanted[g]) /\ wanted[g] \in LockName
  BY Popped DEF UnlocksLast, TakenOnce
<1>2. mutex[wanted[g]] = g
  BY <1>1 DEF BeliefIsTrue, Holds, InSeq
<1> QED BY <1>1, <1>2 DEF UsedIsMapped

LEMMA LockStep == LockIInv /\ [LockNext]_lockVars => LockIInv'
<1> SUFFICES ASSUME LockIInv, [LockNext]_lockVars PROVE LockIInv'
  OBVIOUS
<1> USE NobodyAssumption, HeadersAssumption DEF LockIInv
<1>1. ASSUME NEW g \in Goroutine, NEW n \in LockName, CallLock(g, n) PROVE LockIInv'
  BY <1>1 DEF CallLock, LockTypeOK, BeliefIsTrue, Holds, TakenOnce, UsedIsMapped, WaitsForMapped, UnlocksLast, NoPanicYet
<1>2. ASSUME NEW g \in Goroutine, EnterLock(g) PROVE LockIInv'
  BY <1>2 DEF EnterLock, LockTypeOK, BeliefIsTrue, Holds, TakenOnce, UsedIsMapped, WaitsForMapped, UnlocksLast, NoPanicYet
<1>3. ASSUME NEW g \in Goroutine, Found(g) PROVE LockIInv'
  BY <1>3 DEF Found, LockTypeOK, BeliefIsTrue, Holds, TakenOnce, UsedIsMapped, WaitsForMapped, UnlocksLast, NoPanicYet
<1>4. ASSUME NEW g \in Goroutine, Created(g) PROVE LockIInv'
  <2>1. wanted[g] \in LockName /\ mutex[wanted[g]] = Nobody
    BY <1>4 DEF Created, LockTypeOK, UsedIsMapped
  <2> QED BY <1>4, <2>1, Taking DEF Created
<1>5. ASSUME NEW g \in Goroutine, Locked(g) PROVE LockIInv'
  <2>1. /\ wanted[g] \in LockName /\ syncLock \in Goroutine \cup {Nobody}
        /\ sync = sync \cup {wanted[g]}
    BY <1>5 DEF Locked, LockTypeOK, WaitsForMapped
  <2> QED BY <1>5, <2>1, Taking DEF Locked
<1>6. ASSUME NEW g \in Goroutine, CallUnlock(g) PROVE LockIInv'
  BY <1>6 DEF CallUnlock, LockTypeOK, BeliefIsTrue, Holds, TakenOnce, UsedIsMapped, WaitsForMapped, UnlocksLast, NoPanicYet
<1>7. ASSUME NEW g \in Goroutine, Unlock(g) PROVE LockIInv'
  <2>1. /\ wanted[g] \in sync /\ mutex[wanted[g]] = g /\ wanted[g] \in LockName
        /\ wanted[g] = holding[g][Len(holding[g])] /\ holding[g] # <<>>
        /\ holding[g] \in Seq(LockName) /\ NoneTwice(holding[g])
    BY <1>7, GivingBack DEF Unlock, LockTypeOK, UnlocksLast, TakenOnce
  <2>2. /\ holding'[g] = SubSeq(holding[g], 1, Len(holding[g]) - 1)
        /\ \A h \in Goroutine : h # g => holding'[h] = holding[h]
        /\ mutex' = [mutex EXCEPT ![wanted[g]] = Nobody]
        /\ lockPc' = [lockPc EXCEPT ![g] = "user"]
        /\ wanted' = wanted /\ syncLock' = syncLock /\ sync' = sync
    BY <1>7, <2>1 DEF Unlock, LockTypeOK
  <2>3. /\ holding'[g] \in Seq(LockName) /\ NoneTwice(holding'[g])
        /\ \A m : InSeq(holding'[g], m) <=> InSeq(holding[g], m) /\ m # wanted[g]
    BY <2>1, <2>2, Popped
  <2>4. LockTypeOK'
    BY <1>7, <2>1, <2>2, <2>3 DEF LockTypeOK, Unlock
  <2>5. BeliefIsTrue'
    <3>1. \A h \in Goroutine, m \in LockName : Holds(h, m) <=> InSeq(holding[h], m)
      BY DEF Holds, InSeq
    <3>2. \A h \in Goroutine, m \in LockName : Holds(h, m)' <=> InSeq(holding'[h], m)
      BY DEF Holds, InSeq
    <3>3. \A m \in LockName : mutex'[m] = IF m = wanted[g] THEN Nobody ELSE mutex[m]
      BY <2>2 DEF LockTypeOK
    <3>4. \A m \in LockName : Holds(g, m)' <=> mutex'[m] = g
      BY <2>3, <3>1, <3>2, <3>3 DEF BeliefIsTrue
    <3>5. ASSUME NEW h \in Goroutine, h # g, NEW m \in LockName PROVE Holds(h, m)' <=> mutex'[m] = h
      BY <2>1, <2>2, <3>1, <3>2, <3>3, <3>5 DEF BeliefIsTrue
    <3> QED BY <3>4, <3>5 DEF BeliefIsTrue
  <2>6. TakenOnce'
    BY <2>2, <2>3 DEF TakenOnce
  <2>7. UsedIsMapped' /\ WaitsForMapped'
    BY <2>1, <2>2 DEF UsedIsMapped, WaitsForMapped, LockTypeOK
  <2>8. UnlocksLast' /\ NoPanicYet'
    BY <2>2 DEF UnlocksLast, NoPanicYet, LockTypeOK
  <2> QED BY <2>4, <2>5, <2>6, <2>7, <2>8
<1>8. CASE UNCHANGED lockVars
  BY <1>8 DEF lockVars, LockTypeOK, BeliefIsTrue, Holds, TakenOnce, UsedIsMapped, WaitsForMapped, UnlocksLast, NoPanicYet
<1> QED BY <1>1, <1>2, <1>3, <1>4, <1>5, <1>6, <1>7, <1>8 DEF LockNext

\* LockIInv holds in every state of Client.lock and Client.unlock.
THEOREM LockInvariant == LockSpec => []LockIInv
BY LockInitially, LockStep, PTL DEF LockSpec

\* Two goroutines never believe they hold the same name's lock, and unlock's panic is out of
\* reach (client.go 399-425).
THEOREM ExclusionHolds == LockSpec => []LockExclusion
<1>1. LockIInv => LockExclusion
  BY DEF LockIInv, LockExclusion, BeliefIsTrue, NoPanicYet, LockTypeOK
<1> QED BY <1>1, LockInvariant, PTL

\* The map of mutexes, filled on demand under its own lock, implements one lock per name.
THEOREM MapIsOneLockPerName == LockSpec => ImplementsLock
<1>1. LockInit => LockService!LockedInit
  BY DEF LockInit, LockService!LockedInit
<1>2. LockIInv /\ [LockNext]_lockVars => [LockService!LockedNext]_mutex
  <2> SUFFICES ASSUME LockIInv, [LockNext]_lockVars, mutex' # mutex PROVE LockService!LockedNext
    OBVIOUS
  <2> USE DEF LockService!LockedNext, LockService!Acquire, LockService!Release
  <2>1. PICK g \in Goroutine : Created(g) \/ Locked(g) \/ Unlock(g)
    BY DEF LockNext, lockVars, EnterLock, Found, CallUnlock, CallLock
  <2>2. wanted[g] \in LockName
    BY DEF LockIInv, LockTypeOK
  <2>3. CASE Created(g)
    BY <2>2, <2>3 DEF Created, LockIInv, UsedIsMapped
  <2>4. CASE Locked(g)
    BY <2>2, <2>4 DEF Locked
  <2>5. CASE Unlock(g)
    BY <2>2, <2>5, GivingBack DEF Unlock
  <2> QED BY <2>1, <2>3, <2>4, <2>5
<1> QED BY <1>1, <1>2, LockInvariant, PTL DEF LockSpec, ImplementsLock, LockService!LockedSpec

-----------------------------------------------------------------------------
(* Nobody waits in a circle.                                               *)

\* What g waits for, the map's lock or a mutex, is in the hands of h.
WaitsFor(g, h) ==
  \/ lockPc[g] \in {"lock", "unlock"} /\ syncLock = h
  \/ lockPc[g] = "wait" /\ mutex[wanted[g]] = h

\* A goroutine may wait for one that waits for one that waits, for a name, for "http headers"
\* and for the map; the last of these runs.
NoCircularWait ==
  \A a, b, c, d, e \in Goroutine :
    ~(WaitsFor(a, b) /\ WaitsFor(b, c) /\ WaitsFor(c, d) /\ WaitsFor(d, e))

\* The map's lock is held only to look a name up.
MapHolderLooksUp == \A g \in Goroutine : syncLock = g => lockPc[g] = "lookup"

\* "http headers" is taken last, and whoever asks for a second lock asks for that one.
HeadersLast ==
  \A g \in Goroutine :
    lockPc[g] \in {"lock", "lookup", "wait"} =>
      holding[g] = <<>> \/ (holding[g] # <<httpHeaders>> /\ Len(holding[g]) = 1 /\ wanted[g] = httpHeaders)

OrderIInv == MapHolderLooksUp /\ HeadersLast

LEMMA OrderStep == LockIInv /\ OrderIInv /\ [LockNext]_lockVars => OrderIInv'
<1> SUFFICES ASSUME LockIInv, OrderIInv, [LockNext]_lockVars PROVE OrderIInv'
  OBVIOUS
<1> USE NobodyAssumption DEF LockIInv, LockTypeOK, OrderIInv, MapHolderLooksUp, HeadersLast
<1>1. ASSUME NEW g \in Goroutine, NEW n \in LockName, CallLock(g, n) PROVE OrderIInv'
  BY <1>1 DEF CallLock
<1>2. ASSUME NEW g \in Goroutine, EnterLock(g) PROVE OrderIInv'
  BY <1>2 DEF EnterLock
<1>3. ASSUME NEW g \in Goroutine, Found(g) PROVE OrderIInv'
  BY <1>3 DEF Found
<1>4. ASSUME NEW g \in Goroutine, Created(g) PROVE OrderIInv'
  BY <1>4 DEF Created
<1>5. ASSUME NEW g \in Goroutine, Locked(g) PROVE OrderIInv'
  BY <1>5 DEF Locked
<1>6. ASSUME NEW g \in Goroutine, CallUnlock(g) PROVE OrderIInv'
  BY <1>6 DEF CallUnlock
<1>7. ASSUME NEW g \in Goroutine, Unlock(g) PROVE OrderIInv'
  BY <1>7 DEF Unlock
<1>8. CASE UNCHANGED lockVars
  BY <1>8 DEF lockVars
<1> QED BY <1>1, <1>2, <1>3, <1>4, <1>5, <1>6, <1>7, <1>8 DEF LockNext

\* Goroutines that use lock and unlock as the client does never wait for each other in a circle,
\* for any number of goroutines and names: the holder of the map's lock waits for nothing, and
\* the holder of "http headers" for nothing but the map (client.go 399-425, talk_to_apstra.go).
THEOREM NobodyWaitsInACircle == LockSpec => []NoCircularWait
<1>1. LockIInv /\ OrderIInv => NoCircularWait
  <2> SUFFICES ASSUME LockIInv, OrderIInv,
                      NEW a \in Goroutine, NEW b \in Goroutine, NEW c \in Goroutine,
                      NEW d \in Goroutine, NEW e \in Goroutine,
                      WaitsFor(a, b), WaitsFor(b, c), WaitsFor(c, d), WaitsFor(d, e)
               PROVE  FALSE
    BY DEF NoCircularWait
  <2>1. \A g, h, i \in Goroutine :
          WaitsFor(g, h) /\ WaitsFor(h, i) =>
            lockPc[g] = "wait" /\ Holds(h, wanted[g]) /\ wanted[g] \in LockName
    BY DEF WaitsFor, OrderIInv, MapHolderLooksUp, LockIInv, LockTypeOK, BeliefIsTrue
  <2>2. lockPc[b] = "wait" /\ Holds(b, wanted[a])
    BY <2>1
  <2>3. wanted[b] = httpHeaders
    BY <2>2 DEF OrderIInv, HeadersLast, Holds
  <2>4. lockPc[c] = "wait" /\ Holds(c, httpHeaders)
    BY <2>1, <2>3
  <2>5. /\ holding[c] # <<>> /\ holding[c] # <<httpHeaders>>
        /\ holding[c] \in Seq(LockName) /\ Len(holding[c]) = 1
    BY <2>4 DEF OrderIInv, HeadersLast, Holds, LockIInv, LockTypeOK
  <2>6. holding[c][1] = httpHeaders
    BY <2>4, <2>5 DEF Holds
  <2>7. holding[c] = <<httpHeaders>>
    BY <2>5, <2>6
  <2> QED BY <2>5, <2>7
<1>2. LockInit => OrderIInv
  BY NobodyAssumption DEF LockInit, OrderIInv, MapHolderLooksUp, HeadersLast
<1> QED BY <1>1, <1>2, OrderStep, LockInvariant, PTL DEF LockSpec

-----------------------------------------------------------------------------
(* RuleList: no rule that was added is lost, none is there twice, and each *)
(* goes where it was asked to be, unless another client writes between a   *)
(* read and its PUT.                                                       *)

Rule == [id : Nat, label : Label]

IdsUnique(list) == \A i, j \in 1..Len(list) : list[i].id = list[j].id => i = j

\* new is list with r after the first "at" of its elements
IsInserted(new, list, at, r) ==
  /\ new \in Seq(Rule) /\ Len(new) = Len(list) + 1
  /\ \A i \in 1..at : new[i] = list[i]
  /\ new[at + 1] = r
  /\ \A i \in (at + 2)..(Len(list) + 1) : new[i] = list[i - 1]

\* new is list without its k-th element
IsRemoved(new, list, k) ==
  /\ new \in Seq(Rule) /\ Len(new) = Len(list) - 1
  /\ \A i \in 1..(k - 1) : new[i] = list[i]
  /\ \A i \in k..(Len(list) - 1) : new[i] = list[i + 1]

-----------------------------------------------------------------------------
(* Inserting and removing.                                                 *)

LEMMA Part ==
  ASSUME NEW list \in Seq(Rule), NEW m \in 1..(Len(list) + 1), NEW n \in 0..Len(list), m <= n + 1
  PROVE  /\ SubSeq(list, m, n) \in Seq(Rule)
         /\ Len(SubSeq(list, m, n)) = n - m + 1
         /\ \A i \in 1..(n - m + 1) : SubSeq(list, m, n)[i] = list[m + i - 1]
<1>1. Len(list) \in Nat /\ \A i \in 1..Len(list) : list[i] \in Rule
  OBVIOUS
<1>2. m \in Int /\ n \in Int /\ \A i \in m..n : list[i] \in Rule
  BY <1>1
<1>3. /\ SubSeq(list, m, n) \in Seq(Rule)
      /\ Len(SubSeq(list, m, n)) = IF m <= n THEN n - m + 1 ELSE 0
      /\ \A i \in 1..(n - m + 1) : SubSeq(list, m, n)[i] = list[m + i - 1]
  BY <1>2, SubSeqProperties
<1>4. (IF m <= n THEN n - m + 1 ELSE 0) = n - m + 1
  BY <1>1
<1> QED BY <1>3, <1>4

\* The list cut in two with a rule in between.
LEMMA Between ==
  ASSUME NEW list \in Seq(Rule), NEW r \in Rule, NEW at \in 0..Len(list)
  PROVE  IsInserted(SubSeq(list, 1, at) \o <<r>> \o SubSeq(list, at + 1, Len(list)), list, at, r)
<1> DEFINE a == SubSeq(list, 1, at)
           b == SubSeq(list, at + 1, Len(list))
           ar == a \o <<r>>
           new == ar \o b
<1>1. Len(list) \in Nat /\ at \in Nat
  OBVIOUS
<1>2. a \in Seq(Rule) /\ Len(a) = at /\ \A i \in 1..at : a[i] = list[i]
  <2>1. /\ SubSeq(list, 1, at) \in Seq(Rule)
        /\ Len(SubSeq(list, 1, at)) = at - 1 + 1
        /\ \A i \in 1..(at - 1 + 1) : SubSeq(list, 1, at)[i] = list[1 + i - 1]
    BY <1>1, Part
  <2>2. at - 1 + 1 = at /\ \A i \in 1..at : 1 + i - 1 = i
    BY <1>1
  <2> QED BY <2>1, <2>2
<1>3. /\ b \in Seq(Rule) /\ Len(b) = Len(list) - at
      /\ \A i \in 1..(Len(list) - at) : b[i] = list[at + i]
  <2>1. /\ SubSeq(list, at + 1, Len(list)) \in Seq(Rule)
        /\ Len(SubSeq(list, at + 1, Len(list))) = Len(list) - (at + 1) + 1
        /\ \A i \in 1..(Len(list) - (at + 1) + 1) :
             SubSeq(list, at + 1, Len(list))[i] = list[at + 1 + i - 1]
    BY <1>1, Part
  <2>2. Len(list) - (at + 1) + 1 = Len(list) - at
    BY <1>1
  <2>3. \A i \in 1..(Len(list) - at) : at + 1 + i - 1 = at + i
    BY <1>1
  <2> QED BY <2>1, <2>2, <2>3
<1> HIDE DEF a, b
<1>4. <<r>> \in Seq(Rule) /\ Len(<<r>>) = 1 /\ <<r>>[1] = r
  OBVIOUS
<1>5. /\ ar \in Seq(Rule) /\ Len(ar) = at + 1
      /\ \A i \in 1..(at + 1) : ar[i] = IF i <= at THEN a[i] ELSE <<r>>[i - at]
  BY <1>2, <1>4, ConcatProperties
<1> HIDE DEF ar
<1>6. /\ new \in Seq(Rule) /\ Len(new) = at + 1 + (Len(list) - at)
      /\ \A i \in 1..(at + 1 + (Len(list) - at)) :
           new[i] = IF i <= at + 1 THEN ar[i] ELSE b[i - (at + 1)]
  <2>1. /\ new \in Seq(Rule) /\ Len(new) = Len(ar) + Len(b)
        /\ \A i \in 1..(Len(ar) + Len(b)) :
             new[i] = IF i <= Len(ar) THEN ar[i] ELSE b[i - Len(ar)]
    BY <1>3, <1>5, ConcatProperties
  <2> HIDE DEF new
  <2>2. Len(ar) = at + 1 /\ Len(b) = Len(list) - at
    BY <1>3, <1>5
  <2> QED BY <2>1, <2>2
<1> HIDE DEF new
<1>7. at + 1 + (Len(list) - at) = Len(list) + 1
  BY <1>1
<1>8. \A i \in 1..at : new[i] = list[i]
  <2>1. ASSUME NEW i \in 1..at PROVE new[i] = list[i]
    <3>1. i \in 1..(at + 1) /\ i \in 1..(at + 1 + (Len(list) - at)) /\ i <= at /\ i <= at + 1
      BY <1>1
    <3>2. new[i] = ar[i]
      BY <1>6, <3>1
    <3>3. ar[i] = a[i]
      BY <1>5, <3>1
    <3> QED BY <1>2, <3>2, <3>3
  <2> QED BY <2>1
<1>9. new[at + 1] = r
  <2>1. /\ at + 1 \in 1..(at + 1) /\ at + 1 \in 1..(at + 1 + (Len(list) - at))
        /\ at + 1 <= at + 1 /\ ~(at + 1 <= at) /\ at + 1 - at = 1
    BY <1>1
  <2>2. new[at + 1] = ar[at + 1]
    BY <1>6, <2>1
  <2>3. ar[at + 1] = <<r>>[1]
    BY <1>5, <2>1
  <2> QED BY <1>4, <2>2, <2>3
<1>10. \A i \in (at + 2)..(Len(list) + 1) : new[i] = list[i - 1]
  <2>1. ASSUME NEW i \in (at + 2)..(Len(list) + 1) PROVE new[i] = list[i - 1]
    <3>1. /\ i \in 1..(at + 1 + (Len(list) - at)) /\ ~(i <= at + 1)
          /\ i - (at + 1) \in 1..(Len(list) - at) /\ at + (i - (at + 1)) = i - 1
      BY <1>1
    <3>2. new[i] = b[i - (at + 1)]
      BY <1>6, <3>1
    <3> QED BY <1>3, <3>1, <3>2
  <2> QED BY <2>1
<1>11. IsInserted(new, list, at, r)
  BY <1>6, <1>7, <1>8, <1>9, <1>10 DEF IsInserted
<1> QED BY <1>11 DEF new, ar, a, b

\* Two lists with the same rule in the same place are one.
LEMMA SameInserted ==
  ASSUME NEW list \in Seq(Rule), NEW r \in Rule, NEW at \in 0..Len(list), NEW s, NEW t,
         IsInserted(s, list, at, r), IsInserted(t, list, at, r)
  PROVE  s = t
<1>1. Len(list) \in Nat
  OBVIOUS
<1>2. s \in Seq(Rule) /\ t \in Seq(Rule) /\ Len(s) = Len(list) + 1 /\ Len(t) = Len(list) + 1
  BY DEF IsInserted
<1>3. ASSUME NEW i \in 1..Len(s) PROVE s[i] = t[i]
  <2>1. i \in 1..at \/ i = at + 1 \/ i \in (at + 2)..(Len(list) + 1)
    BY <1>1, <1>2
  <2> QED BY <2>1 DEF IsInserted
<1> QED BY <1>2, <1>3, SeqEqual

\* The overlapping halves of addPolicyRule, one element overwritten, are the list with the
\* rule at its position: at the end for a negative one or one past the end.
LEMMA AddedIsInserted ==
  ASSUME NEW list \in Seq(Rule), NEW r \in Rule, NEW pos \in Int
  PROVE  LET at == IF pos < 0 \/ pos > Len(list) THEN Len(list) ELSE pos IN
         /\ at \in 0..Len(list)
         /\ IsInserted(AddedRules(list, pos, r), list, at, r)
         /\ AddedRules(list, pos, r) = Inserted(list, pos, r)
<1> DEFINE at == IF pos < 0 \/ pos > Len(list) THEN Len(list) ELSE pos
           new == AddedRules(list, pos, r)
<1>1. Len(list) \in Nat /\ at \in 0..Len(list)
  OBVIOUS
<1>2. IsInserted(new, list, at, r)
  <2>1. <<r>> \in Seq(Rule) /\ Len(<<r>>) = 1 /\ <<r>>[1] = r
    OBVIOUS
  <2>2. CASE at = 0 /\ (pos = 0 \/ pos < 0 \/ Len(list) = 0)
    <3>1. CASE pos = 0 \/ pos < 0
      <4>1. new = <<r>> \o list
        BY <1>1, <2>2, <3>1 DEF AddedRules
      <4>2. /\ new \in Seq(Rule) /\ Len(new) = 1 + Len(list)
            /\ \A i \in 1..(1 + Len(list)) : new[i] = IF i <= 1 THEN <<r>>[i] ELSE list[i - 1]
        BY <2>1, <4>1, ConcatProperties
      <4> QED BY <1>1, <2>1, <2>2, <4>2 DEF IsInserted
    <3>2. CASE pos > 0
      <4>1. Len(list) = 0 /\ ~(pos < 0) /\ pos # 0 /\ pos >= Len(list)
        BY <1>1, <2>2, <3>2
      <4>2. new = Append(list, r)
        BY <4>1 DEF AddedRules
      <4>3. /\ new \in Seq(Rule) /\ Len(new) = Len(list) + 1
            /\ \A i \in 1..Len(list) : new[i] = list[i]
            /\ new[Len(list) + 1] = r
        BY <4>2, AppendProperties
      <4> QED BY <2>2, <4>1, <4>3 DEF IsInserted
    <3> QED BY <3>1, <3>2
  <2>3. CASE at = Len(list) /\ at > 0
    <3>1. new = Append(list, r)
      <4>1. CASE pos < 0
        <5>1. Len(list) # 0 /\ Len(list) >= Len(list)
          BY <1>1, <2>3
        <5> QED BY <4>1, <5>1 DEF AddedRules
      <4>2. CASE ~(pos < 0)
        <5>1. pos # 0 /\ pos >= Len(list)
          BY <1>1, <2>3, <4>2
        <5> QED BY <4>2, <5>1 DEF AddedRules
      <4> QED BY <4>1, <4>2
    <3>2. /\ new \in Seq(Rule) /\ Len(new) = Len(list) + 1
          /\ \A i \in 1..Len(list) : new[i] = list[i]
          /\ new[Len(list) + 1] = r
      BY <3>1, AppendProperties
    <3> QED BY <1>1, <2>3, <3>2 DEF IsInserted
  <2>4. CASE at # 0 /\ at # Len(list)
    <3>1. pos = at /\ pos \in 1..(Len(list) - 1)
      BY <1>1, <2>4
    <3> DEFINE a == SubSeq(list, 1, pos + 1)
               b == SubSeq(list, pos + 1, Len(list))
               twice == a \o b
    <3>2. new = [twice EXCEPT ![pos + 1] = r]
      <4>1. ~(pos < 0) /\ pos # 0 /\ ~(pos >= Len(list))
        BY <1>1, <3>1
      <4> QED BY <4>1 DEF AddedRules
    <3>3. a \in Seq(Rule) /\ Len(a) = pos + 1 /\ \A i \in 1..(pos + 1) : a[i] = list[i]
      <4>1. /\ SubSeq(list, 1, pos + 1) \in Seq(Rule)
            /\ Len(SubSeq(list, 1, pos + 1)) = pos + 1 - 1 + 1
            /\ \A i \in 1..(pos + 1 - 1 + 1) : SubSeq(list, 1, pos + 1)[i] = list[1 + i - 1]
        BY <1>1, <3>1, Part
      <4>2. pos + 1 - 1 + 1 = pos + 1 /\ \A i \in 1..(pos + 1) : 1 + i - 1 = i
        BY <3>1
      <4> QED BY <4>1, <4>2
    <3>4. /\ b \in Seq(Rule) /\ Len(b) = Len(list) - pos
          /\ \A i \in 1..(Len(list) - pos) : b[i] = list[pos + i]
      <4>1. /\ SubSeq(list, pos + 1, Len(list)) \in Seq(Rule)
            /\ Len(SubSeq(list, pos + 1, Len(list))) = Len(list) - (pos + 1) + 1
            /\ \A i \in 1..(Len(list) - (pos + 1) + 1) :
                 SubSeq(list, pos + 1, Len(list))[i] = list[pos + 1 + i - 1]
        BY <1>1, <3>1, Part
      <4>2. Len(list) - (pos + 1) + 1 = Len(list) - pos
        BY <1>1, <3>1
      <4>3. \A i \in 1..(Len(list) - pos) : pos + 1 + i - 1 = pos + i
        BY <1>1, <3>1
      <4> QED BY <4>1, <4>2, <4>3
    <3> HIDE DEF a, b
    <3>5. /\ twice \in Seq(Rule) /\ Len(twice) = pos + 1 + (Len(list) - pos)
          /\ \A i \in 1..(pos + 1 + (Len(list) - pos)) :
               twice[i] = IF i <= pos + 1 THEN a[i] ELSE b[i - (pos + 1)]
      BY <3>3, <3>4, ConcatProperties
    <3> HIDE DEF twice
    <3>6. pos + 1 + (Len(list) - pos) = Len(list) + 1 /\ pos + 1 \in 1..(Len(list) + 1)
      BY <1>1, <3>1
    <3>7. /\ new \in Seq(Rule) /\ Len(new) = Len(list) + 1
          /\ \A j \in 1..(Len(list) + 1) : new[j] = IF j = pos + 1 THEN r ELSE twice[j]
      BY <3>2, <3>5, <3>6, ExceptSeq
    <3> HIDE DEF new
    <3>8. \A i \in 1..pos : new[i] = list[i]
      <4>1. ASSUME NEW i \in 1..pos PROVE new[i] = list[i]
        <5>1. /\ i \in 1..(Len(list) + 1) /\ i # pos + 1 /\ i <= pos + 1
              /\ i \in 1..(pos + 1)
          BY <1>1, <3>1
        <5>2. new[i] = twice[i]
          BY <3>7, <5>1
        <5>3. twice[i] = a[i]
          BY <3>5, <3>6, <5>1
        <5> QED BY <3>3, <5>1, <5>2, <5>3
      <4> QED BY <4>1
    <3>9. new[pos + 1] = r
      BY <3>6, <3>7
    <3>10. \A i \in (pos + 2)..(Len(list) + 1) : new[i] = list[i - 1]
      <4>1. ASSUME NEW i \in (pos + 2)..(Len(list) + 1) PROVE new[i] = list[i - 1]
        <5>1. /\ i \in 1..(Len(list) + 1) /\ i # pos + 1 /\ ~(i <= pos + 1)
              /\ i - (pos + 1) \in 1..(Len(list) - pos) /\ pos + (i - (pos + 1)) = i - 1
          BY <1>1, <3>1
        <5> QED BY <3>4, <3>5, <3>6, <3>7, <5>1
      <4> QED BY <4>1
    <3> HIDE DEF at
    <3> QED BY <3>1, <3>7, <3>8, <3>9, <3>10 DEF IsInserted
  <2> QED BY <1>1, <2>2, <2>3, <2>4
<1>3. IsInserted(Inserted(list, pos, r), list, at, r)
  BY <1>1, Between DEF Inserted
<1>4. new = Inserted(list, pos, r)
  <2> HIDE DEF at, new
  <2> QED BY <1>1, <1>2, <1>3, SameInserted
<1> QED BY <1>1, <1>2, <1>4

\* Inserting a rule with a new ID adds the ID and leaves all different.
LEMMA InsertedIds ==
  ASSUME NEW list \in Seq(Rule), NEW r \in Rule, NEW at \in 0..Len(list), NEW new,
         IsInserted(new, list, at, r)
  PROVE  /\ Ids(new) = Ids(list) \cup {r.id}
         /\ IdsUnique(list) /\ r.id \notin Ids(list) => IdsUnique(new)
<1>1. Len(list) \in Nat /\ at \in Nat /\ new \in Seq(Rule) /\ Len(new) = Len(list) + 1
  BY DEF IsInserted
<1>2. DOMAIN new = 1..(Len(list) + 1) /\ DOMAIN list = 1..Len(list)
  BY <1>1
<1>3. \A i \in 1..(Len(list) + 1) : i \in 1..at \/ i = at + 1 \/ i \in (at + 2)..(Len(list) + 1)
  BY <1>1
<1>4. \A i \in 1..(Len(list) + 1) : i # at + 1 =>
        \E k \in 1..Len(list) : new[i] = list[k] /\ k = IF i <= at THEN i ELSE i - 1
  BY <1>1, <1>3 DEF IsInserted
<1>5. Ids(new) \subseteq Ids(list) \cup {r.id}
  <2>1. ASSUME NEW i \in 1..(Len(list) + 1) PROVE new[i].id \in Ids(list) \cup {r.id}
    <3>1. CASE i = at + 1
      BY <3>1 DEF IsInserted
    <3>2. CASE i # at + 1
      <4>1. PICK k \in 1..Len(list) : new[i] = list[k]
        BY <1>4, <3>2
      <4> QED BY <1>2, <4>1 DEF Ids
    <3> QED BY <3>1, <3>2
  <2> QED BY <1>2, <2>1 DEF Ids
<1>6. r.id \in Ids(new)
  <2>1. at + 1 \in 1..(Len(list) + 1) /\ new[at + 1] = r
    BY <1>1 DEF IsInserted
  <2> QED BY <1>2, <2>1 DEF Ids
<1>7. ASSUME NEW k \in 1..Len(list) PROVE list[k].id \in Ids(new)
  <2>1. CASE k <= at
    <3>1. k \in 1..at /\ k \in DOMAIN new
      BY <1>1, <1>2, <2>1
    <3> QED BY <3>1 DEF Ids, IsInserted
  <2>2. CASE k > at
    <3>1. k + 1 \in (at + 2)..(Len(list) + 1) /\ k + 1 \in DOMAIN new /\ k + 1 - 1 = k
      BY <1>1, <1>2, <2>2
    <3>2. new[k + 1] = list[k]
      BY <3>1 DEF IsInserted
    <3> QED BY <3>1, <3>2 DEF Ids
  <2> QED BY <1>1, <2>1, <2>2
<1>8. ASSUME IdsUnique(list), r.id \notin Ids(list), NEW i \in 1..Len(new), NEW j \in 1..Len(new),
             new[i].id = new[j].id
      PROVE  i = j
  <2>1. \A k \in 1..Len(list) : list[k].id # r.id
    BY <1>2, <1>8 DEF Ids
  <2>2. new[at + 1] = r
    BY DEF IsInserted
  <2>3. CASE i = at + 1 \/ j = at + 1
    BY <1>1, <1>4, <1>8, <2>1, <2>2, <2>3
  <2>4. CASE i # at + 1 /\ j # at + 1
    <3>1. PICK k \in 1..Len(list) : new[i] = list[k] /\ k = IF i <= at THEN i ELSE i - 1
      BY <1>1, <1>4, <2>4
    <3>2. PICK l \in 1..Len(list) : new[j] = list[l] /\ l = IF j <= at THEN j ELSE j - 1
      BY <1>1, <1>4, <2>4
    <3>3. k = l
      BY <1>8, <3>1, <3>2 DEF IdsUnique
    <3> QED BY <1>1, <2>4, <3>1, <3>2, <3>3
  <2> QED BY <2>3, <2>4
<1>9. Ids(new) = Ids(list) \cup {r.id}
  <2>1. Ids(list) = {list[k].id : k \in 1..Len(list)}
    BY <1>2 DEF Ids
  <2>2. Ids(list) \subseteq Ids(new)
    BY <1>7, <2>1
  <2> QED BY <1>5, <1>6, <2>2
<1>10. IdsUnique(list) /\ r.id \notin Ids(list) => IdsUnique(new)
  BY <1>8 DEF IdsUnique
<1> QED BY <1>9, <1>10

\* RemoveAt takes out one element and keeps the others in order.
LEMMA RemoveAtRemoves ==
  ASSUME NEW list \in Seq(Rule), NEW k \in 1..Len(list)
  PROVE  IsRemoved(RemoveAt(list, k), list, k)
<1> DEFINE a == SubSeq(list, 1, k - 1)
           b == SubSeq(list, k + 1, Len(list))
           new == a \o b
<1>1. Len(list) \in Nat /\ k \in Nat
  OBVIOUS
<1>2. a \in Seq(Rule) /\ Len(a) = k - 1 /\ \A i \in 1..(k - 1) : a[i] = list[i]
  <2>1. /\ SubSeq(list, 1, k - 1) \in Seq(Rule)
        /\ Len(SubSeq(list, 1, k - 1)) = k - 1 - 1 + 1
        /\ \A i \in 1..(k - 1 - 1 + 1) : SubSeq(list, 1, k - 1)[i] = list[1 + i - 1]
    <3>1. 1 \in 1..(Len(list) + 1) /\ k - 1 \in 0..Len(list) /\ 1 <= k - 1 + 1
      BY <1>1
    <3> QED BY <3>1, Part
  <2>2. k - 1 - 1 + 1 = k - 1 /\ \A i \in 1..(k - 1) : 1 + i - 1 = i
    BY <1>1
  <2> QED BY <2>1, <2>2
<1>3. /\ b \in Seq(Rule) /\ Len(b) = Len(list) - k
      /\ \A i \in 1..(Len(list) - k) : b[i] = list[k + i]
  <2>1. /\ SubSeq(list, k + 1, Len(list)) \in Seq(Rule)
        /\ Len(SubSeq(list, k + 1, Len(list))) = Len(list) - (k + 1) + 1
        /\ \A i \in 1..(Len(list) - (k + 1) + 1) :
             SubSeq(list, k + 1, Len(list))[i] = list[k + 1 + i - 1]
    BY <1>1, Part
  <2>2. Len(list) - (k + 1) + 1 = Len(list) - k
    BY <1>1
  <2>3. \A i \in 1..(Len(list) - k) : k + 1 + i - 1 = k + i
    BY <1>1
  <2> QED BY <2>1, <2>2, <2>3
<1> HIDE DEF a, b
<1>4. /\ new \in Seq(Rule) /\ Len(new) = k - 1 + (Len(list) - k)
      /\ \A i \in 1..(k - 1 + (Len(list) - k)) :
           new[i] = IF i <= k - 1 THEN a[i] ELSE b[i - (k - 1)]
  <2>1. /\ new \in Seq(Rule) /\ Len(new) = Len(a) + Len(b)
        /\ \A i \in 1..(Len(a) + Len(b)) :
             new[i] = IF i <= Len(a) THEN a[i] ELSE b[i - Len(a)]
    BY <1>2, <1>3, ConcatProperties
  <2> HIDE DEF new
  <2>2. Len(a) = k - 1 /\ Len(b) = Len(list) - k
    BY <1>2, <1>3
  <2> QED BY <2>1, <2>2
<1> HIDE DEF new
<1>5. k - 1 + (Len(list) - k) = Len(list) - 1
  BY <1>1
<1>6. ASSUME NEW i \in 1..(k - 1) PROVE new[i] = list[i]
  <2>1. i \in 1..(k - 1 + (Len(list) - k)) /\ i <= k - 1
    BY <1>1
  <2>2. new[i] = a[i]
    BY <1>4, <2>1
  <2> QED BY <1>2, <2>2
<1>7. ASSUME NEW i \in k..(Len(list) - 1) PROVE new[i] = list[i + 1]
  <2>1. /\ i \in 1..(k - 1 + (Len(list) - k)) /\ ~(i <= k - 1)
        /\ i - (k - 1) \in 1..(Len(list) - k) /\ k + (i - (k - 1)) = i + 1
    BY <1>1
  <2>2. new[i] = b[i - (k - 1)]
    BY <1>4, <2>1
  <2> QED BY <1>3, <2>1, <2>2
<1>8. IsRemoved(new, list, k)
  BY <1>4, <1>5, <1>6, <1>7 DEF IsRemoved
<1> QED BY <1>8 DEF new, a, b, RemoveAt

\* Removing one of different rules takes its ID away and no other.
LEMMA RemovedIds ==
  ASSUME NEW list \in Seq(Rule), NEW k \in 1..Len(list), NEW new, IsRemoved(new, list, k),
         IdsUnique(list)
  PROVE  Ids(new) = Ids(list) \ {list[k].id} /\ IdsUnique(new)
<1>1. Len(list) \in Nat /\ k \in Nat /\ new \in Seq(Rule) /\ Len(new) = Len(list) - 1
  BY DEF IsRemoved
<1>2. DOMAIN new = 1..(Len(list) - 1) /\ DOMAIN list = 1..Len(list)
  BY <1>1
<1>3. \A i \in 1..(Len(list) - 1) :
        \E m \in 1..Len(list) : new[i] = list[m] /\ m # k /\ m = IF i < k THEN i ELSE i + 1
  <2>1. ASSUME NEW i \in 1..(Len(list) - 1)
        PROVE  \E m \in 1..Len(list) : new[i] = list[m] /\ m # k /\ m = IF i < k THEN i ELSE i + 1
    <3>1. CASE i < k
      <4>1. i \in 1..(k - 1) /\ i \in 1..Len(list) /\ i # k
        BY <1>1, <3>1
      <4>2. new[i] = list[i]
        BY <4>1 DEF IsRemoved
      <4> QED BY <3>1, <4>1, <4>2
    <3>2. CASE ~(i < k)
      <4>1. i \in k..(Len(list) - 1) /\ i + 1 \in 1..Len(list) /\ i + 1 # k
        BY <1>1, <3>2
      <4>2. new[i] = list[i + 1]
        BY <4>1 DEF IsRemoved
      <4> QED BY <3>2, <4>1, <4>2
    <3> QED BY <3>1, <3>2
  <2> QED BY <2>1
<1>4. Ids(new) \subseteq Ids(list) \ {list[k].id}
  <2>1. ASSUME NEW i \in 1..(Len(list) - 1) PROVE new[i].id \in Ids(list) \ {list[k].id}
    <3>1. PICK m \in 1..Len(list) : new[i] = list[m] /\ m # k
      BY <1>3
    <3>2. list[m].id # list[k].id
      BY <3>1 DEF IdsUnique
    <3> QED BY <1>2, <3>1, <3>2 DEF Ids
  <2> QED BY <1>2, <2>1 DEF Ids
<1>5. Ids(list) \ {list[k].id} \subseteq Ids(new)
  <2>1. ASSUME NEW m \in 1..Len(list), list[m].id # list[k].id PROVE list[m].id \in Ids(new)
    <3>1. m # k
      BY <2>1
    <3>2. CASE m < k
      <4>1. m \in 1..(k - 1) /\ m \in DOMAIN new
        BY <1>1, <1>2, <3>2
      <4>2. new[m] = list[m]
        BY <4>1 DEF IsRemoved
      <4> QED BY <4>1, <4>2 DEF Ids
    <3>3. CASE m > k
      <4>1. m - 1 \in k..(Len(list) - 1) /\ m - 1 \in DOMAIN new /\ m - 1 + 1 = m
        BY <1>1, <1>2, <3>3
      <4>2. new[m - 1] = list[m]
        BY <4>1 DEF IsRemoved
      <4> QED BY <4>1, <4>2 DEF Ids
    <3> QED BY <1>1, <3>1, <3>2, <3>3
  <2> QED BY <1>2, <2>1 DEF Ids
<1>6. ASSUME NEW i \in 1..Len(new), NEW j \in 1..Len(new), new[i].id = new[j].id PROVE i = j
  <2>1. PICK m \in 1..Len(list) : new[i] = list[m] /\ m = IF i < k THEN i ELSE i + 1
    BY <1>1, <1>3
  <2>2. PICK n \in 1..Len(list) : new[j] = list[n] /\ n = IF j < k THEN j ELSE j + 1
    BY <1>1, <1>3
  <2>3. m = n
    BY <1>6, <2>1, <2>2 DEF IdsUnique
  <2> QED BY <1>1, <2>1, <2>2, <2>3
<1> QED BY <1>4, <1>5, <1>6 DEF IdsUnique

\* The search of DeletePolicyRuleById finds the rule with the ID.
LEMMA FoundAtIndex ==
  ASSUME NEW list \in Seq(Rule), NEW id \in Ids(list), IdsUnique(list)
  PROVE  /\ SelectInSeq(list, LAMBDA r : r.id = id) \in 1..Len(list)
         /\ list[SelectInSeq(list, LAMBDA r : r.id = id)].id = id
<1> DEFINE I == {i \in 1..Len(list) : list[i].id = id}
<1>1. PICK k \in 1..Len(list) : list[k].id = id
  BY DEF Ids
<1>2. I = {k}
  BY <1>1 DEF IdsUnique
<1>3. SelectInSeq(list, LAMBDA r : r.id = id) = Min(I)
  BY <1>2 DEF SelectInSeq
<1>4. Min(I) = k
  <2>1. Min({k}) = k
    BY DEF Min
  <2> QED BY <1>2, <2>1
<1> QED BY <1>1, <1>3, <1>4

-----------------------------------------------------------------------------
(* The inductive invariant.                                                *)

Edit == [op : {"none", "add", "delete"}, label : Label \cup {"none"}, pos : Int, id : Nat]

Types ==
  /\ rules \in Seq(Rule) /\ nextRule \in Nat
  /\ policyLock \in Caller \cup {NoCaller}
  /\ rulePc \in [Caller -> {"idle", "lock", "read", "write", "find"}]
  /\ edit \in [Caller -> Edit]
  /\ \A c \in Caller : edit[c].op = "add" => edit[c].label \in Label
  /\ policy \in [Caller -> Seq(Rule)]
  /\ mine \in [Caller -> Nat]
  /\ expected \subseteq Nat

\* Whoever is past the lock holds it.
Held == \A c \in Caller : rulePc[c] \in {"read", "write", "find"} => policyLock = c

\* What the holder is about to write over is still what the server has.
ReadIsCurrent ==
  \A c \in Caller : rulePc[c] = "write" =>
    /\ policy[c] = rules
    /\ edit[c].op = "delete" => edit[c].id \in Ids(rules)

Kept ==
  /\ Ids(rules) = expected
  /\ IdsUnique(rules)
  /\ \A i \in expected : i < nextRule

Good == Types /\ Held /\ ReadIsCurrent /\ Kept

RInv == ~raced => Good

LEMMA EmptyIds == Ids(<<>>) = {} /\ IdsUnique(<<>>) /\ <<>> \in Seq(Rule)
<1>1. Len(<<>>) = 0 /\ DOMAIN <<>> = {} /\ <<>> \in Seq(Rule)
  OBVIOUS
<1>2. Ids(<<>>) = {}
  BY <1>1 DEF Ids
<1>3. IdsUnique(<<>>)
  BY <1>1 DEF IdsUnique
<1> QED BY <1>1, <1>2, <1>3

LEMMA RInvInit == RuleInit => RInv
<1> SUFFICES ASSUME RuleInit PROVE Good
  BY DEF RInv
<1> USE DEF RuleInit
<1>1. NoEdit \in Edit /\ NoEdit.op = "none"
  BY DEF NoEdit, Edit
<1>2. Types
  BY <1>1, EmptyIds DEF Types
<1>3. Held /\ ReadIsCurrent
  BY DEF Held, ReadIsCurrent
<1>4. Kept
  BY EmptyIds DEF Kept
<1> QED BY <1>2, <1>3, <1>4 DEF Good

\* A call that returns leaves the list and the types as they are.
LEMMA FinishStep ==
  ASSUME Types, Held, NEW c \in Caller, NEW result, Finish(c, result),
         rulePc[c] \in {"read", "write", "find"}
  PROVE  /\ policyLock' \in Caller \cup {NoCaller}
         /\ rulePc' \in [Caller -> {"idle", "lock", "read", "write", "find"}]
         /\ edit' \in [Caller -> Edit]
         /\ \A d \in Caller : edit'[d].op = "add" => edit'[d].label \in Label
         /\ policy' \in [Caller -> Seq(Rule)]
         /\ \A d \in Caller : rulePc'[d] \notin {"read", "write", "find"}
<1>1. NoEdit \in Edit /\ NoEdit.op = "none"
  BY DEF NoEdit, Edit
<1>2. /\ policyLock' \in Caller \cup {NoCaller}
      /\ rulePc' \in [Caller -> {"idle", "lock", "read", "write", "find"}]
      /\ edit' \in [Caller -> Edit]
  BY <1>1 DEF Types, Finish
<1>3. policy' \in [Caller -> Seq(Rule)]
  BY EmptyIds DEF Types, Finish
<1>4. \A d \in Caller : edit'[d].op = "add" => edit'[d].label \in Label
  BY <1>1 DEF Types, Finish
<1>5. \A d \in Caller : rulePc'[d] \notin {"read", "write", "find"}
  <2>1. ASSUME NEW d \in Caller, d # c PROVE rulePc[d] \notin {"read", "write", "find"}
    BY <2>1 DEF Held
  <2> QED BY <2>1 DEF Types, Finish
<1> QED BY <1>2, <1>3, <1>4, <1>5

\* An addition by the holder of the lock: the rule is where the caller asked for it, its ID
\* is new, and every other rule is where it was relative to the others.
LEMMA AddStep ==
  ASSUME Good, NEW c \in Caller, WriteAdd(c)
  PROVE  /\ rules' = Inserted(rules, edit[c].pos, [id |-> nextRule, label |-> edit[c].label])
         /\ rules' \in Seq(Rule)
         /\ Ids(rules') = Ids(rules) \cup {nextRule}
         /\ IdsUnique(rules')
<1> DEFINE r == [id |-> nextRule, label |-> edit[c].label]
           pos == edit[c].pos
           at == IF pos < 0 \/ pos > Len(rules) THEN Len(rules) ELSE pos
<1>1. r \in Rule /\ r.id = nextRule /\ pos \in Int /\ rules \in Seq(Rule)
  BY DEF Good, Types, WriteAdd, Rule, Edit
<1>2. rules' = AddedRules(rules, pos, r)
  BY DEF Good, ReadIsCurrent, WriteAdd
<1>3. nextRule \notin Ids(rules) /\ IdsUnique(rules)
  BY DEF Good, Types, Kept
<1> HIDE DEF r, pos
<1>4. /\ at \in 0..Len(rules) /\ IsInserted(rules', rules, at, r)
      /\ rules' = Inserted(rules, pos, r)
  BY <1>1, <1>2, AddedIsInserted
<1> HIDE DEF at
<1>5. Ids(rules') = Ids(rules) \cup {nextRule} /\ IdsUnique(rules')
  BY <1>1, <1>3, <1>4, InsertedIds
<1>6. rules' \in Seq(Rule)
  BY <1>4 DEF IsInserted
<1> QED BY <1>4, <1>5, <1>6 DEF r, pos

\* A deletion by the holder of the lock takes away its rule and no other.
LEMMA DeleteStep ==
  ASSUME Good, NEW c \in Caller, WriteDelete(c)
  PROVE  /\ rules' \in Seq(Rule)
         /\ Ids(rules') = Ids(rules) \ {edit[c].id}
         /\ IdsUnique(rules')
<1> DEFINE id == edit[c].id
           k == SelectInSeq(rules, LAMBDA r : r.id = id)
<1>1. rules \in Seq(Rule) /\ IdsUnique(rules) /\ id \in Ids(rules)
  BY DEF Good, Types, Kept, ReadIsCurrent, WriteDelete
<1>2. rules' = RemoveAt(rules, k)
  BY DEF Good, ReadIsCurrent, WriteDelete
<1> HIDE DEF id
<1>3. k \in 1..Len(rules) /\ rules[k].id = id
  BY <1>1, FoundAtIndex
<1> HIDE DEF k
<1>4. IsRemoved(rules', rules, k)
  BY <1>1, <1>2, <1>3, RemoveAtRemoves
<1>5. Ids(rules') = Ids(rules) \ {id} /\ IdsUnique(rules')
  BY <1>1, <1>3, <1>4, RemovedIds
<1>6. rules' \in Seq(Rule)
  BY <1>4 DEF IsRemoved
<1> QED BY <1>5, <1>6 DEF id

\* Another client's change, with no call of this client between its read and its PUT.
LEMMA OutsideStep ==
  ASSUME Good, Outside, ~raced'
  PROVE  Good'
<1>1. \A c \in Caller : rulePc[c] # "write"
  BY DEF Outside
<1>2. UNCHANGED <<policyLock, rulePc, edit, policy, mine>>
  BY DEF Outside
<1>3. Held'
  BY <1>2 DEF Good, Held
<1>4. ReadIsCurrent'
  BY <1>1, <1>2 DEF ReadIsCurrent
<1>5. Types' /\ Kept'
  <2>1. rules \in Seq(Rule) /\ nextRule \in Nat /\ expected \subseteq Nat /\ IdsUnique(rules)
        /\ Ids(rules) = expected /\ \A i \in expected : i < nextRule
    BY DEF Good, Types, Kept
  <2>2. CASE /\ \E l \in Label : rules' = Append(rules, [id |-> nextRule, label |-> l])
             /\ nextRule' = nextRule + 1 /\ expected' = expected \cup {nextRule}
    <3>1. PICK l \in Label : rules' = Append(rules, [id |-> nextRule, label |-> l])
      BY <2>2
    <3> DEFINE r == [id |-> nextRule, label |-> l]
    <3>2. r \in Rule /\ r.id = nextRule
      BY <2>1 DEF Rule
    <3> HIDE DEF r
    <3>3. rules' = Append(rules, r) /\ Len(rules) \in Nat
      BY <2>1, <3>1 DEF r
    <3>4. /\ rules' \in Seq(Rule) /\ Len(rules') = Len(rules) + 1
          /\ \A i \in 1..Len(rules) : rules'[i] = rules[i]
          /\ rules'[Len(rules) + 1] = r
      BY <2>1, <3>2, <3>3, AppendProperties
    <3>5. IsInserted(rules', rules, Len(rules), r) /\ Len(rules) \in 0..Len(rules)
      BY <3>3, <3>4 DEF IsInserted
    <3>6. expected' = expected \cup {nextRule}
      BY <2>2
    <3>7. nextRule \notin Ids(rules)
      BY <2>1
    <3>8. Ids(rules') = Ids(rules) \cup {nextRule} /\ IdsUnique(rules')
      BY <2>1, <3>2, <3>5, <3>7, InsertedIds
    <3>9. Kept'
      BY <2>1, <2>2, <3>6, <3>8 DEF Kept
    <3>10. Types'
      BY <1>2, <2>1, <2>2, <3>4, <3>6 DEF Good, Types
    <3> QED BY <3>9, <3>10
  <2>3. CASE \E i \in DOMAIN rules : /\ rules' = RemoveAt(rules, i)
                                    /\ expected' = expected \ {rules[i].id}
                                    /\ UNCHANGED nextRule
    <3>1. PICK i \in DOMAIN rules : /\ rules' = RemoveAt(rules, i)
                                   /\ expected' = expected \ {rules[i].id}
                                   /\ UNCHANGED nextRule
      BY <2>3
    <3>2. i \in 1..Len(rules)
      BY <2>1, <3>1
    <3>3. IsRemoved(rules', rules, i)
      BY <2>1, <3>1, <3>2, RemoveAtRemoves
    <3>4. Ids(rules') = Ids(rules) \ {rules[i].id} /\ IdsUnique(rules')
      BY <2>1, <3>2, <3>3, RemovedIds
    <3>5. Kept'
      BY <2>1, <3>1, <3>4 DEF Kept
    <3>6. rules' \in Seq(Rule)
      BY <3>3 DEF IsRemoved
    <3>7. Types'
      BY <1>2, <2>1, <3>1, <3>6 DEF Good, Types
    <3> QED BY <3>5, <3>7
  <2> QED BY <2>2, <2>3 DEF Outside
<1> QED BY <1>3, <1>4, <1>5 DEF Good

LEMMA RInvNext == RInv /\ [RuleNext]_ruleVars => RInv'
<1> SUFFICES ASSUME RInv, [RuleNext]_ruleVars, ~raced' PROVE Good'
  BY DEF RInv
<1>1. CASE UNCHANGED ruleVars
  <2>1. ~raced
    BY <1>1 DEF ruleVars
  <2>2. Good
    BY <2>1 DEF RInv
  <2> QED BY <1>1, <2>2 DEF Good, Types, Held, ReadIsCurrent, Kept, ruleVars
<1>2. CASE Outside
  <2>1. ~raced
    BY <1>2 DEF Outside
  <2> QED BY <1>2, <2>1, OutsideStep DEF RInv
<1>3. ASSUME NEW c \in Caller,
             CallEdit(c) \/ TakePolicyLock(c) \/ ReadPolicy(c) \/ EditFails(c)
               \/ WriteAdd(c) \/ WriteDelete(c) \/ FindRule(c)
      PROVE  Good'
  <2>1. raced' = raced
    BY <1>3 DEF CallEdit, TakePolicyLock, ReadPolicy, EditFails, WriteAdd, WriteDelete, FindRule
  <2>2. Good /\ Types /\ Held /\ ReadIsCurrent /\ Kept
    BY <2>1 DEF RInv, Good
  \* The list stays as it is.
  <2>3. ASSUME UNCHANGED <<rules, nextRule, expected>> PROVE Kept'
    BY <2>2, <2>3 DEF Kept
  <2>4. CASE CallEdit(c)
    <3> USE <2>4 DEF CallEdit
    <3>1. /\ edit' \in [Caller -> Edit]
          /\ \A d \in Caller : edit'[d].op = "add" => edit'[d].label \in Label
      <4>1. CASE \E l \in Label, p \in Position :
                   edit' = [edit EXCEPT ![c] = [op |-> "add", label |-> l, pos |-> p, id |-> 0]]
        <5>1. PICK l \in Label, p \in Position :
                edit' = [edit EXCEPT ![c] = [op |-> "add", label |-> l, pos |-> p, id |-> 0]]
          BY <4>1
        <5>2. [op |-> "add", label |-> l, pos |-> p, id |-> 0] \in Edit
          BY PositionAssumption DEF Edit
        <5> QED BY <2>2, <5>1, <5>2 DEF Types
      <4>2. CASE \E i \in 1..MaxRules :
                   edit' = [edit EXCEPT ![c] = [op |-> "delete", label |-> "none", pos |-> 0, id |-> i]]
        <5>1. PICK i \in 1..MaxRules :
                edit' = [edit EXCEPT ![c] = [op |-> "delete", label |-> "none", pos |-> 0, id |-> i]]
          BY <4>2
        <5>2. [op |-> "delete", label |-> "none", pos |-> 0, id |-> i] \in Edit
          BY MaxRulesAssumption DEF Edit
        <5> QED BY <2>2, <5>1, <5>2 DEF Types
      <4> QED BY <4>1, <4>2
    <3>2. rulePc' \in [Caller -> {"idle", "lock", "read", "write", "find"}] /\ mine' \in [Caller -> Nat]
      BY <2>2 DEF Types
    <3>3. Types'
      BY <2>2, <3>1, <3>2 DEF Types
    <3>4. Held'
      BY <2>2 DEF Types, Held
    <3>5. ASSUME NEW d \in Caller, rulePc'[d] = "write"
          PROVE  rulePc[d] = "write" /\ edit'[d] = edit[d]
      BY <2>2, <3>5 DEF Types
    <3>6. ReadIsCurrent'
      BY <2>2, <3>5 DEF ReadIsCurrent
    <3> QED BY <2>3, <3>3, <3>4, <3>6 DEF Good
  <2>5. CASE TakePolicyLock(c)
    <3> USE <2>5 DEF TakePolicyLock
    <3>1. Types'
      BY <2>2 DEF Types
    <3>2. \A d \in Caller : rulePc[d] \notin {"read", "write", "find"}
      BY <2>2, NoCallerAssumption DEF Held
    <3>3. Held' /\ ReadIsCurrent'
      BY <2>2, <3>2 DEF Types, Held, ReadIsCurrent
    <3> QED BY <2>3, <3>1, <3>3 DEF Good
  <2>6. CASE ReadPolicy(c)
    <3>0. UNCHANGED <<rules, nextRule, mine, expected>> /\ rulePc[c] = "read"
      BY <2>6 DEF ReadPolicy
    <3>1. CASE edit[c].op = "delete" /\ edit[c].id \notin Ids(rules)
      <4>1. Finish(c, Returned("ErrNotfound", 0))
        BY <2>6, <3>1 DEF ReadPolicy
      <4>2. Types' /\ Held' /\ ReadIsCurrent'
        BY <2>2, <3>0, <4>1, FinishStep DEF Types, Held, ReadIsCurrent
      <4> QED BY <2>3, <3>0, <4>2 DEF Good
    <3>2. CASE ~(edit[c].op = "delete" /\ edit[c].id \notin Ids(rules))
      <4>1. /\ policy' = [policy EXCEPT ![c] = rules]
            /\ rulePc' = [rulePc EXCEPT ![c] = "write"]
            /\ UNCHANGED <<policyLock, edit>>
        BY <2>6, <3>2 DEF ReadPolicy
      <4>2. Types'
        BY <2>2, <3>0, <4>1 DEF Types
      <4>3. Held'
        BY <2>2, <3>0, <4>1 DEF Types, Held
      <4>4. ASSUME NEW d \in Caller, rulePc'[d] = "write"
            PROVE  policy'[d] = rules /\ (edit[d].op = "delete" => edit[d].id \in Ids(rules))
        <5>1. CASE d = c
          BY <2>2, <3>2, <4>1, <5>1 DEF Types
        <5>2. CASE d # c
          BY <2>2, <4>1, <4>4, <5>2 DEF Types, ReadIsCurrent
        <5> QED BY <5>1, <5>2
      <4>5. ReadIsCurrent'
        BY <3>0, <4>1, <4>4 DEF ReadIsCurrent
      <4> QED BY <2>3, <3>0, <4>2, <4>3, <4>5 DEF Good
    <3> QED BY <3>1, <3>2
  <2>7. CASE EditFails(c) \/ FindRule(c)
    <3>1. /\ UNCHANGED <<rules, nextRule, mine, expected>>
          /\ rulePc[c] \in {"read", "write", "find"}
          /\ \E result : Finish(c, result)
      BY <2>7 DEF EditFails, FindRule
    <3>2. Types' /\ Held' /\ ReadIsCurrent'
      BY <2>2, <3>1, FinishStep DEF Types, Held, ReadIsCurrent
    <3> QED BY <2>3, <3>1, <3>2 DEF Good
  <2>8. CASE WriteAdd(c)
    <3>1. /\ rules' \in Seq(Rule) /\ Ids(rules') = Ids(rules) \cup {nextRule} /\ IdsUnique(rules')
      BY <2>2, <2>8, AddStep
    <3>2. /\ expected' = expected \cup {nextRule} /\ nextRule' = nextRule + 1
          /\ mine' = [mine EXCEPT ![c] = nextRule] /\ rulePc[c] = "write"
      BY <2>8 DEF WriteAdd
    <3>3. Kept'
      BY <2>2, <3>1, <3>2 DEF Types, Kept
    <3>4. nextRule' \in Nat /\ mine' \in [Caller -> Nat] /\ expected' \subseteq Nat
      BY <2>2, <3>2 DEF Types
    <3>5. CASE rulePc' = [rulePc EXCEPT ![c] = "find"] /\ UNCHANGED <<policyLock, edit, policy>>
      <4>1. Types'
        BY <2>2, <3>1, <3>4, <3>5 DEF Types
      <4>2. Held'
        BY <2>2, <3>2, <3>5 DEF Types, Held
      <4>3. \A d \in Caller : rulePc'[d] # "write"
        BY <2>2, <3>2, <3>5 DEF Types, Held
      <4>4. ReadIsCurrent'
        BY <4>3 DEF ReadIsCurrent
      <4> QED BY <3>3, <4>1, <4>2, <4>4 DEF Good
    <3>6. CASE Finish(c, Returned("error", 0))
      <4>1. /\ policyLock' \in Caller \cup {NoCaller}
            /\ rulePc' \in [Caller -> {"idle", "lock", "read", "write", "find"}]
            /\ edit' \in [Caller -> Edit]
            /\ \A d \in Caller : edit'[d].op = "add" => edit'[d].label \in Label
            /\ policy' \in [Caller -> Seq(Rule)]
            /\ \A d \in Caller : rulePc'[d] \notin {"read", "write", "find"}
        BY <2>2, <3>2, <3>6, FinishStep
      <4>2. Types' /\ Held' /\ ReadIsCurrent'
        BY <3>1, <3>4, <4>1 DEF Types, Held, ReadIsCurrent
      <4> QED BY <3>3, <4>2 DEF Good
    <3> QED BY <2>8, <3>5, <3>6 DEF WriteAdd
  <2>9. CASE WriteDelete(c)
    <3>1. rules' \in Seq(Rule) /\ Ids(rules') = Ids(rules) \ {edit[c].id} /\ IdsUnique(rules')
      BY <2>2, <2>9, DeleteStep
    <3>2. /\ expected' = expected \ {edit[c].id} /\ UNCHANGED <<nextRule, mine>>
          /\ rulePc[c] = "write" /\ \E result : Finish(c, result)
      BY <2>9 DEF WriteDelete
    <3>3. Kept'
      BY <2>2, <3>1, <3>2 DEF Kept
    <3>4. Types' /\ Held' /\ ReadIsCurrent'
      BY <2>2, <3>1, <3>2, FinishStep DEF Types, Held, ReadIsCurrent
    <3> QED BY <3>3, <3>4 DEF Good
  <2> QED BY <1>3, <2>4, <2>5, <2>6, <2>7, <2>8, <2>9
<1> QED BY <1>1, <1>2, <1>3 DEF RuleNext

-----------------------------------------------------------------------------
(* The theorems.                                                           *)

\* The rules in the policy are exactly those that were added and not deleted, each once,
\* whatever calls of this client overlap and whichever of their requests or replies fail,
\* until another client writes between the read and the PUT of one of them (AddPolicyRule,
\* DeletePolicyRuleById).
THEOREM NoRuleLostTheorem == RuleSpec => []NoRuleLost
<1>1. RInv => NoRuleLost
  BY DEF RInv, Good, Types, Kept, NoRuleLost, IdsUnique
<1> QED BY <1>1, RInvInit, RInvNext, PTL DEF RuleSpec

\* AddPolicyRule puts its rule where the caller asked relative to the rules the server has at
\* that moment, and all others keep their order: the overlapping halves that it appends, one
\* element of them overwritten, are the list with the rule in between.
THEOREM RulePlacedTheorem == RuleSpec => RulePlaced
<1>1. ASSUME RInv, [RuleNext]_ruleVars
      PROVE  [\A c \in Caller :
                mine[c] = 0 /\ mine'[c] # 0 /\ ~raced =>
                  rules' = Inserted(rules, edit[c].pos,
                                    [id |-> mine'[c], label |-> edit[c].label])]_ruleVars
  <2> SUFFICES ASSUME RuleNext, NEW c \in Caller, mine[c] = 0, mine'[c] # 0, ~raced
               PROVE  rules' = Inserted(rules, edit[c].pos,
                                        [id |-> mine'[c], label |-> edit[c].label])
    BY <1>1
  <2>1. Good /\ mine \in [Caller -> Nat]
    BY <1>1 DEF RInv, Good, Types
  <2>2. PICK d \in Caller : CallEdit(d) \/ WriteAdd(d)
    BY DEF RuleNext, Outside, TakePolicyLock, ReadPolicy, EditFails, WriteDelete, FindRule
  <2>3. WriteAdd(d) /\ d = c
    BY <2>1, <2>2 DEF CallEdit, WriteAdd
  <2>4. mine'[c] = nextRule
    BY <2>1, <2>3 DEF WriteAdd
  <2> QED BY <2>1, <2>3, <2>4, AddStep
<1> QED BY <1>1, RInvInit, RInvNext, PTL DEF RuleSpec, RulePlaced

-----------------------------------------------------------------------------
(* TemplateAssignments: to send only what has changed since the read is as *)
(* good as to set the whole list, as long as no other client writes in     *)
(* between.  The lock is what makes it so: what its holder has read is     *)
(* still true when its PATCH is carried out.                               *)

HolderInside ==
  \A w \in Assigner : assignPc[w] \in {"read", "patch"} <=> assignLock = w

ReadIsTrue ==
  \A w \in Assigner :
    assignPc[w] = "patch" /\ ~overtaken => current[w] = Having(assigned, ctID[w])

CallsNameTemplate ==
  /\ ctID \in [Assigner -> ConfigTemplate \cup {NoTemplate}]
  /\ settled \in [System -> ConfigTemplate \cup {NoTemplate}]

AssignIInv ==
  AssignTypeOK /\ CallsNameTemplate /\ HolderInside /\ ReadIsTrue /\ AssignmentsSerial

-----------------------------------------------------------------------------
\* Whatever the assignments and the list asked for: the difference to them, carried out on
\* them, gives the template to the systems of the list and to no others.
LEMMA DifferenceSuffices ==
  ASSUME NEW w \in Assigner, NEW map, map = [s \in System |-> map[s]],
         sysIDs[w] \subseteq System
  PROVE  LET request == Difference(w, Having(map, ctID[w])) IN
         [s \in System |-> IF s \in DOMAIN request THEN request[s] ELSE map[s]]
           = Giving(map, ctID[w], sysIDs[w])
<1> DEFINE request == Difference(w, Having(map, ctID[w]))
           sent == [s \in System |-> IF s \in DOMAIN request THEN request[s] ELSE map[s]]
<1>1. ASSUME NEW s \in System PROVE sent[s] = Giving(map, ctID[w], sysIDs[w])[s]
  <2>1. CASE s \in sysIDs[w] /\ map[s] = ctID[w]
    BY <2>1 DEF Difference, Having, Giving
  <2>2. CASE s \in sysIDs[w] /\ map[s] # ctID[w]
    BY <2>2 DEF Difference, Having, Giving
  <2>3. CASE s \notin sysIDs[w] /\ map[s] = ctID[w]
    BY <2>3 DEF Difference, Having, Giving
  <2>4. CASE s \notin sysIDs[w] /\ map[s] # ctID[w]
    BY <2>4 DEF Difference, Having, Giving
  <2> QED BY <2>1, <2>2, <2>3, <2>4
<1> QED BY <1>1 DEF Giving

LEMMA AssignInitially == AssignInit => AssignIInv
BY NoAssignerAssumption
   DEF AssignInit, AssignIInv, AssignTypeOK, CallsNameTemplate, HolderInside, ReadIsTrue,
       AssignmentsSerial

\* A call that ends without having written leaves everything in order.
LEMMA Returning ==
  ASSUME AssignIInv, NEW w \in Assigner, assignPc[w] \in {"read", "patch"}, AssignReturns(w),
         UNCHANGED <<assigned, settled, overtaken>>
  PROVE  AssignIInv'
<1> USE NoAssignerAssumption DEF AssignIInv, AssignTypeOK, AssignReturns
<1>1. AssignTypeOK'
  OBVIOUS
<1>2. CallsNameTemplate'
  BY DEF CallsNameTemplate
<1>3. HolderInside'
  BY DEF HolderInside
<1>4. ReadIsTrue'
  BY DEF ReadIsTrue
<1>5. AssignmentsSerial'
  BY DEF AssignmentsSerial
<1> QED BY <1>1, <1>2, <1>3, <1>4, <1>5

LEMMA AssignStep == AssignIInv /\ [AssignNext]_assignVars => AssignIInv'
<1> SUFFICES ASSUME AssignIInv, [AssignNext]_assignVars PROVE AssignIInv'
  OBVIOUS
<1> USE NoAssignerAssumption, NoTemplateAssumption DEF AssignIInv, AssignTypeOK
<1>1. CASE Foreign
  <2>1. AssignTypeOK' /\ CallsNameTemplate' /\ HolderInside'
    BY <1>1 DEF Foreign, CallsNameTemplate, HolderInside
  <2>2. ReadIsTrue'
    BY <1>1 DEF Foreign, ReadIsTrue
  <2>3. AssignmentsSerial'
    BY <1>1 DEF Foreign, AssignmentsSerial
  <2> QED BY <2>1, <2>2, <2>3
<1>2. ASSUME NEW w \in Assigner, CallAssign(w) PROVE AssignIInv'
  BY <1>2 DEF CallAssign, CallsNameTemplate, HolderInside, ReadIsTrue, AssignmentsSerial
<1>3. ASSUME NEW w \in Assigner, LockAssignments(w) PROVE AssignIInv'
  BY <1>3 DEF LockAssignments, CallsNameTemplate, HolderInside, ReadIsTrue, AssignmentsSerial
<1>4. ASSUME NEW w \in Assigner, ReadAssignments(w) PROVE AssignIInv'
  <2> DEFINE read == Having(assigned, ctID[w])
  <2>1. CASE DOMAIN Difference(w, read) = {}
    BY <1>4, <2>1, Returning DEF ReadAssignments
  <2>2. CASE DOMAIN Difference(w, read) # {}
    <3>1. /\ current' = [current EXCEPT ![w] = Having(assigned, ctID[w])]
          /\ assignPc' = [assignPc EXCEPT ![w] = "patch"] /\ assignPc[w] = "read"
          /\ UNCHANGED <<assigned, assignLock, ctID, sysIDs, settled, overtaken>>
      BY <1>4, <2>2 DEF ReadAssignments
    <3>2. AssignTypeOK'
      BY <3>1 DEF Having
    <3>3. HolderInside' /\ CallsNameTemplate' /\ AssignmentsSerial'
      BY <3>1 DEF HolderInside, CallsNameTemplate, AssignmentsSerial
    <3>4. ReadIsTrue'
      BY <3>1 DEF ReadIsTrue, Having
    <3> QED BY <3>2, <3>3, <3>4
  <2> QED BY <2>1, <2>2
<1>5. ASSUME NEW w \in Assigner, PatchAssignments(w) PROVE AssignIInv'
  <2> DEFINE request == Difference(w, current[w])
  <2>1. /\ assignPc[w] = "patch" /\ assignLock = w
        /\ assigned' = [s \in System |-> IF s \in DOMAIN request THEN request[s] ELSE assigned[s]]
        /\ settled' = Giving(settled, ctID[w], sysIDs[w])
        /\ AssignReturns(w) /\ UNCHANGED <<overtaken, foreign>>
    BY <1>5 DEF PatchAssignments, HolderInside
  <2>2. \A s \in DOMAIN request : request[s] \in ConfigTemplate \cup {NoTemplate}
    BY DEF Difference, CallsNameTemplate
  <2>3. AssignTypeOK'
    <3>1. assigned' \in [System -> ConfigTemplate \cup {NoTemplate}]
      <4> HIDE DEF request
      <4> QED BY <2>1, <2>2
    <3> QED BY <2>1, <3>1 DEF AssignReturns
  <2>4. CallsNameTemplate'
    BY <2>1 DEF CallsNameTemplate, AssignReturns, Giving
  <2>5. HolderInside'
    BY <2>1 DEF HolderInside, AssignReturns
  <2>6. \A v \in Assigner : assignPc'[v] # "patch"
    BY <2>1, <2>5 DEF HolderInside, AssignReturns
  <2>7. ReadIsTrue'
    BY <2>6 DEF ReadIsTrue
  <2>8. AssignmentsSerial'
    <3>1. SUFFICES ASSUME ~overtaken PROVE assigned' = settled'
      BY <2>1 DEF AssignmentsSerial
    <3>2. current[w] = Having(assigned, ctID[w]) /\ assigned = settled
      BY <2>1, <3>1 DEF ReadIsTrue, AssignmentsSerial
    <3>3. assigned' = Giving(assigned, ctID[w], sysIDs[w])
      BY <2>1, <3>2, DifferenceSuffices
    <3> QED BY <2>1, <3>2, <3>3
  <2> QED BY <2>3, <2>4, <2>5, <2>7, <2>8
<1>6. ASSUME NEW w \in Assigner, AssignFails(w) PROVE AssignIInv'
  BY <1>6, Returning DEF AssignFails
<1>7. CASE UNCHANGED assignVars
  BY <1>7 DEF assignVars, CallsNameTemplate, HolderInside, ReadIsTrue, AssignmentsSerial, Having
<1> QED BY <1>1, <1>2, <1>3, <1>4, <1>5, <1>6, <1>7 DEF AssignNext

\* AssignIInv holds in every state of UpdateConfigTemplateAssignmentsByTemplate.
THEOREM AssignInvariant == AssignSpec => []AssignIInv
BY AssignInitially, AssignStep, PTL DEF AssignSpec

\* Calls for any templates and any lists, overlapping as they may, leave the assignments they
\* would leave one after the other (freeform_config_template_assignment.go 70-117).
THEOREM AssignmentsAreSerial == AssignSpec => []AssignmentsSerial
<1>1. AssignIInv => AssignmentsSerial
  BY DEF AssignIInv
<1> QED BY <1>1, AssignInvariant, PTL
=============================================================================
