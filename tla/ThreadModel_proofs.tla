------------------------- MODULE ThreadModel_proofs -------------------------
(***************************************************************************)
(* Proofs about ThreadModel and ThreadFeatures, for every number of ids    *)
(* and events, every set of condition variables and of instructions.       *)
(***************************************************************************)
EXTENDS ThreadFeatures, FiniteInduction, SequenceTheorems

(***************************************************************************)
(* Lemmas about the maps.                                                  *)
(***************************************************************************)

LEMMA AppendFacts ==
  ASSUME NEW S, NEW s \in Seq(S), NEW v \in S
  PROVE  /\ Append(s, v) \in Seq(S) \ {<< >>}
         /\ Len(Append(s, v)) = Len(s) + 1
         /\ \A i \in DOMAIN s : i \in DOMAIN Append(s, v) /\ Append(s, v)[i] = s[i]
         /\ Append(s, v)[Len(s) + 1] = v
         /\ DOMAIN Append(s, v) = DOMAIN s \cup {Len(s) + 1}
  <1>1. /\ Append(s, v) \in Seq(S)
        /\ Len(Append(s, v)) = Len(s) + 1
        /\ \A i \in 1..Len(s) : Append(s, v)[i] = s[i]
        /\ Append(s, v)[Len(s) + 1] = v
    BY AppendProperties
  <1>2. DOMAIN s = 1..Len(s) /\ DOMAIN Append(s, v) = 1..(Len(s) + 1)
    BY <1>1
  <1>3. Append(s, v) # << >>
    BY <1>1
  <1> QED
    BY <1>1, <1>2, <1>3

\* The vector of x, or a new one, after a push_back.
Pushed(f, x, v) == IF x \in DOMAIN f THEN Append(f[x], v) ELSE <<v>>

LEMMA PushedType ==
  ASSUME NEW S, NEW f, NEW x, NEW v \in S, x \in DOMAIN f => f[x] \in Seq(S)
  PROVE  Pushed(f, x, v) \in Seq(S) \ {<< >>}
  <1>1. CASE x \in DOMAIN f
    <2>1. Append(f[x], v) \in Seq(S) \ {<< >>}
      BY <1>1, AppendFacts
    <2> QED
      BY <1>1, <2>1 DEF Pushed
  <1>2. CASE x \notin DOMAIN f
    BY <1>2 DEF Pushed
  <1> QED
    BY <1>1, <1>2

-----------------------------------------------------------------------------
(* Type correctness.                                                       *)

LEMMA InitTypeOK == Init => TypeOK
  <1> SUFFICES ASSUME Init PROVE TypeOK
    OBVIOUS
  <1>1. 0 \in Ids /\ thlist \in Seq(Ids)
    BY ThreadModelAssumption DEF Init, Ids
  <1>2. /\ DOMAIN startmap = {0} /\ startmap[0] = 1 /\ starts = 1
        /\ DOMAIN alive = {0} /\ alive[0] = "run"
    BY DEF Init
  <1>3. /\ DOMAIN joinmap = {} /\ DOMAIN createmap = {}
        /\ DOMAIN condmap = {} /\ DOMAIN signalmap = {}
    BY DEF Init, None
  <1>4. globalinmap \in [Ips -> Seq(Ids)]
    BY DEF Init
  <1>5. lastrec \in [Conds -> Named]
    BY DEF Init, Named
  <1>6. made \in [Calls -> [Ids -> Nat]]
    BY DEF Init
  <1>7. signals \in Seq([named : Named, woken : SUBSET Ids, waited : BOOLEAN])
    BY DEF Init
  <1>8. /\ n \in 0..MaxEvents /\ exits \in Nat /\ td \in Nat /\ pending \in Nat
        /\ wrote = {}
    <2>1. MaxEvents \in Nat /\ n = 0 /\ exits = 0 /\ td = 0 /\ pending = 0 /\ wrote = {}
      BY ThreadModelAssumption DEF Init
    <2> QED
      BY <2>1
  <1>9. reused \in BOOLEAN
    BY DEF Init
  <1> QED
    BY <1>1, <1>2, <1>3, <1>4, <1>5, <1>6, <1>7, <1>8, <1>9 DEF TypeOK

\* An event is counted, and a call.
LEMMA NextEvent == ASSUME TypeOK, Event PROVE n' \in 0..MaxEvents
  <1>1. n \in 0..MaxEvents /\ n < MaxEvents /\ n' = n + 1 /\ MaxEvents \in Nat
    BY ThreadModelAssumption DEF TypeOK, Event
  <1> QED
    BY <1>1

LEMMA MadeType ==
  ASSUME TypeOK, NEW t \in Ids, NEW call \in Calls, Makes(t, call)
  PROVE  n' \in 0..MaxEvents /\ made' \in [Calls -> [Ids -> Nat]]
  BY NextEvent DEF TypeOK, Makes

LEMMA NextTypeOK == TypeOK /\ [Next]_vars => TypeOK'
  <1> SUFFICES ASSUME TypeOK, [Next]_vars PROVE TypeOK'
    OBVIOUS
  <1> USE DEF TypeOK
  <1>1. CASE ThreadStart
    <2>1. PICK d \in Ids : ThreadStart!(d)
      BY <1>1 DEF ThreadStart
    <2>2. thlist' \in Seq(Ids)
      BY <2>1
    <2>3. DOMAIN alive' \subseteq Ids /\ \A t \in DOMAIN alive' : alive'[t] \in {"fresh", "run"} \cup Conds
      <3>1. /\ DOMAIN alive' = DOMAIN alive \cup {d} /\ alive'[d] = "fresh"
            /\ \A t \in DOMAIN alive \ {d} : alive'[t] = alive[t]
        BY <2>1 DEF Put
      <3> QED
        BY <3>1
    <2>4. pending' \in Nat /\ reused' \in BOOLEAN
      BY <2>1
    <2> QED
      BY <2>1, <2>2, <2>3, <2>4
  <1>2. ASSUME NEW t \in Ids, Create(t) PROVE TypeOK'
    <2>1. n' \in 0..MaxEvents /\ made' \in [Calls -> [Ids -> Nat]]
      BY <1>2, MadeType DEF Create, Calls
    <2>2. /\ td' \in Nat /\ pending' \in Nat /\ td + 1 \in 1..td' /\ 1..td \subseteq 1..td'
          /\ createmap' = Push(createmap, t, td + 1)
      BY <1>2 DEF Create
    <2>3. \A u \in DOMAIN createmap : createmap[u] \in Seq(1..td') \ {<< >>}
      BY <2>2
    <2>4. /\ DOMAIN createmap' \subseteq Ids
          /\ \A u \in DOMAIN createmap' : createmap'[u] \in Seq(1..td') \ {<< >>}
      <3>1. /\ DOMAIN createmap' = DOMAIN createmap \cup {t}
            /\ createmap'[t] = Pushed(createmap, t, td + 1)
            /\ \A u \in DOMAIN createmap \ {t} : createmap'[u] = createmap[u]
        <4>1. createmap' = Put(createmap, t, Pushed(createmap, t, td + 1))
          BY <2>2 DEF Push, Pushed
        <4> QED
          BY <4>1 DEF Put
      <3>2. Pushed(createmap, t, td + 1) \in Seq(1..td') \ {<< >>}
        BY <2>2, <2>3, PushedType
      <3> QED
        BY <2>3, <3>1, <3>2
    <2> QED
      BY <1>2, <2>1, <2>2, <2>4 DEF Create
  <1>3. ASSUME NEW t \in Ids, ChildStart(t) PROVE TypeOK'
    <2>1. n' \in 0..MaxEvents
      BY <1>3, NextEvent DEF ChildStart
    <2>4. starts' \in Nat /\ starts + 1 \in 1..starts' /\ 1..starts \subseteq 1..starts'
      BY <1>3 DEF ChildStart
    <2>2. /\ DOMAIN startmap' \subseteq Ids
          /\ \A u \in DOMAIN startmap' : startmap'[u] \in 1..starts'
      <3>1. \A u \in DOMAIN startmap : startmap[u] \in 1..starts'
        BY <2>4
      <3>2. \/ startmap' = startmap
            \/ /\ DOMAIN startmap' = DOMAIN startmap \cup {t} /\ startmap'[t] = starts + 1
               /\ \A u \in DOMAIN startmap \ {t} : startmap'[u] = startmap[u]
        BY <1>3 DEF ChildStart, Put
      <3> QED
        BY <2>4, <3>1, <3>2
    <2>3. DOMAIN alive' \subseteq Ids /\ \A u \in DOMAIN alive' : alive'[u] \in {"fresh", "run"} \cup Conds
      BY <1>3 DEF ChildStart
    <2> QED
      BY <1>3, <2>1, <2>2, <2>3, <2>4 DEF ChildStart
  <1>4. ASSUME NEW t \in Ids, Join(t) PROVE TypeOK'
    <2>1. n' \in 0..MaxEvents /\ made' \in [Calls -> [Ids -> Nat]]
      BY <1>4, MadeType DEF Join, Calls
    <2>2. /\ DOMAIN joinmap' \subseteq Ids
          /\ \A u \in DOMAIN joinmap' : joinmap'[u] \in [join : Nat, exit : 0..exits]
      <3>1. /\ DOMAIN joinmap' = DOMAIN joinmap \cup {t}
            /\ joinmap'[t] = IF t \in DOMAIN joinmap
                              THEN [join |-> joinmap[t].join + 1, exit |-> joinmap[t].exit]
                              ELSE [join |-> 1, exit |-> 0]
            /\ \A u \in DOMAIN joinmap \ {t} : joinmap'[u] = joinmap[u]
        <4> DEFINE v == IF t \in DOMAIN joinmap
                        THEN [join |-> joinmap[t].join + 1, exit |-> joinmap[t].exit]
                        ELSE [join |-> 1, exit |-> 0]
        <4>1. joinmap' = Put(joinmap, t, v)
          BY <1>4 DEF Join
        <4>2. joinmap'[t] = v /\ DOMAIN joinmap' = DOMAIN joinmap \cup {t}
              /\ \A u \in DOMAIN joinmap \ {t} : joinmap'[u] = joinmap[u]
          <5> HIDE DEF v
          <5> QED
            BY <4>1 DEF Put
        <4> QED
          BY <4>2
      <3>2. joinmap'[t] \in [join : Nat, exit : 0..exits]
        <4>1. CASE t \in DOMAIN joinmap
          <5>1. joinmap[t] \in [join : Nat, exit : 0..exits]
            BY <4>1
          <5> QED
            BY <3>1, <4>1, <5>1
        <4>2. CASE t \notin DOMAIN joinmap
          BY <3>1, <4>2
        <4> QED
          BY <4>1, <4>2
      <3> QED
        BY <3>1, <3>2
    <2> QED
      BY <1>4, <2>1, <2>2 DEF Join
  <1>5. ASSUME NEW t \in Ids, ThreadFini(t) PROVE TypeOK'
    <2>1. n' \in 0..MaxEvents
      BY <1>5, NextEvent DEF ThreadFini
    <2>4. exits' = exits + 1 /\ exits' \in Nat /\ 0..exits \subseteq 0..exits' /\ exits' \in 0..exits'
      BY <1>5 DEF ThreadFini
    <2>2. /\ DOMAIN joinmap' \subseteq Ids
          /\ \A u \in DOMAIN joinmap' : joinmap'[u] \in [join : Nat, exit : 0..exits']
      <3>1. /\ DOMAIN joinmap' = DOMAIN joinmap \cup {t}
            /\ joinmap'[t] = [join |-> IF t \in DOMAIN joinmap THEN joinmap[t].join ELSE 0,
                              exit |-> exits + 1]
            /\ \A u \in DOMAIN joinmap \ {t} : joinmap'[u] = joinmap[u]
        <4> DEFINE v == [join |-> IF t \in DOMAIN joinmap THEN joinmap[t].join ELSE 0,
                         exit |-> exits + 1]
        <4>1. joinmap' = Put(joinmap, t, v)
          BY <1>5 DEF ThreadFini
        <4>2. joinmap'[t] = v /\ DOMAIN joinmap' = DOMAIN joinmap \cup {t}
              /\ \A u \in DOMAIN joinmap \ {t} : joinmap'[u] = joinmap[u]
          <5> HIDE DEF v
          <5> QED
            BY <4>1 DEF Put
        <4> QED
          BY <4>2
      <3>2. \A u \in DOMAIN joinmap : joinmap[u] \in [join : Nat, exit : 0..exits']
        BY <2>4
      <3>3. joinmap'[t] \in [join : Nat, exit : 0..exits']
        BY <2>4, <3>1
      <3> QED
        BY <3>1, <3>2, <3>3
    <2>3. DOMAIN alive' \subseteq Ids /\ \A u \in DOMAIN alive' : alive'[u] \in {"fresh", "run"} \cup Conds
      BY <1>5 DEF ThreadFini
    <2> QED
      BY <1>5, <2>1, <2>2, <2>3, <2>4 DEF ThreadFini
  <1>6. ASSUME NEW t \in Ids, NEW c \in Conds, CondWait(t, c) PROVE TypeOK'
    <2>1. n' \in 0..MaxEvents /\ made' \in [Calls -> [Ids -> Nat]]
      BY <1>6, MadeType DEF CondWait, Calls
    <2>2. /\ DOMAIN condmap' \subseteq Ids
          /\ \A u \in DOMAIN condmap' : condmap'[u] \in Seq(Conds)
      <3>1. /\ DOMAIN condmap' = DOMAIN condmap \cup {t}
            /\ condmap'[t] = Pushed(condmap, t, c)
            /\ \A u \in DOMAIN condmap \ {t} : condmap'[u] = condmap[u]
        <4>1. condmap' = Put(condmap, t, Pushed(condmap, t, c))
          BY <1>6 DEF CondWait, Push, Pushed
        <4> QED
          BY <4>1 DEF Put
      <3>2. Pushed(condmap, t, c) \in Seq(Conds)
        BY PushedType
      <3> QED
        BY <3>1, <3>2
    <2>3. lastrec' \in [Conds -> Named]
      BY <1>6 DEF CondWait, Named
    <2>4. DOMAIN alive' \subseteq Ids /\ \A u \in DOMAIN alive' : alive'[u] \in {"fresh", "run"} \cup Conds
      BY <1>6 DEF CondWait
    <2> QED
      BY <1>6, <2>1, <2>2, <2>3, <2>4 DEF CondWait
  <1>7. ASSUME NEW t \in Ids, NEW c \in Conds, NEW woken \in SUBSET Ids, CondSignal(t, c, woken)
        PROVE  TypeOK'
    <2>1. n' \in 0..MaxEvents /\ made' \in [Calls -> [Ids -> Nat]]
      BY <1>7, MadeType DEF CondSignal, Calls
    <2>2. /\ DOMAIN signalmap' \subseteq Ids
          /\ \A u \in DOMAIN signalmap' : signalmap'[u] \in Seq(Named)
      <3>1. signalmap' = Push(signalmap, t, lastrec[c]) /\ lastrec[c] \in Named
        BY <1>7 DEF CondSignal
      <3>2. /\ DOMAIN signalmap' = DOMAIN signalmap \cup {t}
            /\ signalmap'[t] = Pushed(signalmap, t, lastrec[c])
            /\ \A u \in DOMAIN signalmap \ {t} : signalmap'[u] = signalmap[u]
        <4>1. signalmap' = Put(signalmap, t, Pushed(signalmap, t, lastrec[c]))
          BY <3>1 DEF Push, Pushed
        <4> QED
          BY <4>1 DEF Put
      <3>3. Pushed(signalmap, t, lastrec[c]) \in Seq(Named)
        BY <3>1, PushedType
      <3> QED
        BY <3>2, <3>3
    <2>3. DOMAIN alive' \subseteq Ids /\ \A u \in DOMAIN alive' : alive'[u] \in {"fresh", "run"} \cup Conds
      BY <1>7 DEF CondSignal, Wake
    <2>4. signals' \in Seq([named : Named, woken : SUBSET Ids, waited : BOOLEAN])
      BY <1>7 DEF CondSignal
    <2> QED
      BY <1>7, <2>1, <2>2, <2>3, <2>4 DEF CondSignal
  <1>8. ASSUME NEW c \in Conds, NEW woken \in SUBSET Ids, WakeUnseen(c, woken)
        PROVE  TypeOK'
    <2>1. DOMAIN alive' \subseteq Ids /\ \A u \in DOMAIN alive' : alive'[u] \in {"fresh", "run"} \cup Conds
      BY <1>8 DEF WakeUnseen, Wake
    <2> QED
      BY <1>8, <2>1 DEF WakeUnseen
  <1>9. ASSUME NEW t \in Ids, NEW s \in Stores, Write(t, s) PROVE TypeOK'
    <2>1. n' \in 0..MaxEvents
      BY <1>9, NextEvent DEF Write
    <2>2. s.ip \in Ips /\ s.var \in Nat
      BY ThreadModelAssumption DEF Ips
    <2>3. globalinmap' \in [Ips -> Seq(Ids)]
      BY <1>9, <2>2 DEF Write
    <2>4. wrote' \subseteq [tid : Ids, ip : Ips, var : Nat]
      BY <1>9, <2>2 DEF Write
    <2> QED
      BY <1>9, <2>1, <2>3, <2>4 DEF Write
  <1>10. CASE UNCHANGED vars
    BY <1>10 DEF vars
  <1> QED
    BY <1>1, <1>2, <1>3, <1>4, <1>5, <1>6, <1>7, <1>8, <1>9, <1>10 DEF Next

\* The tables keep their types.
THEOREM TypeCorrect == Spec => []TypeOK
  BY InitTypeOK, NextTypeOK, PTL DEF Spec

-----------------------------------------------------------------------------
(* Whom a signal names.                                                    *)

\* A wait for c has been recorded.
Waited(c) == \E u \in DOMAIN condmap : \E i \in DOMAIN condmap[u] : condmap[u][i] = c

\* The strengthening of SignalsNameMain: the last record of a condition variable
\* names thread 0 once there is one, and nobody waits before.
SignalInv ==
  /\ \A c \in Conds : lastrec[c] = IF Waited(c) THEN 0 ELSE Uninit
  /\ \A c \in Conds : Waiting(c) # {} => Waited(c)
  /\ SignalsNameMain

\* What a wait adds to condmap.
LEMMA WaitIsRecorded ==
  ASSUME TypeOK, NEW t \in Ids, NEW c \in Conds, CondWait(t, c), NEW d \in Conds
  PROVE  Waited(d)' <=> (Waited(d) \/ d = c)
  <1> DEFINE new == Pushed(condmap, t, c)
  <1>1. condmap' = Put(condmap, t, new)
    BY DEF CondWait, Push, Pushed
  <1>2. /\ \E i \in DOMAIN new : new[i] = c
        /\ \A i \in DOMAIN new :
             \/ new[i] = c
             \/ t \in DOMAIN condmap /\ i \in DOMAIN condmap[t] /\ new[i] = condmap[t][i]
        /\ t \in DOMAIN condmap =>
             \A i \in DOMAIN condmap[t] : i \in DOMAIN new /\ new[i] = condmap[t][i]
    <2>1. CASE t \in DOMAIN condmap
      <3>1. new = Append(condmap[t], c) /\ condmap[t] \in Seq(Conds)
        BY <2>1 DEF TypeOK, Pushed
      <3> HIDE DEF new
      <3>2. /\ \A i \in DOMAIN condmap[t] : i \in DOMAIN new /\ new[i] = condmap[t][i]
            /\ new[Len(condmap[t]) + 1] = c
            /\ DOMAIN new = DOMAIN condmap[t] \cup {Len(condmap[t]) + 1}
        BY <3>1, AppendFacts
      <3> QED
        BY <2>1, <3>2
    <2>2. CASE t \notin DOMAIN condmap
      <3>1. new = <<c>>
        BY <2>2 DEF Pushed
      <3> HIDE DEF new
      <3>2. DOMAIN new = {1} /\ new[1] = c
        BY <3>1
      <3> QED
        BY <2>2, <3>2
    <2> QED
      BY <2>1, <2>2
  <1> HIDE DEF new
  <1>3. /\ DOMAIN condmap' = DOMAIN condmap \cup {t}
        /\ condmap'[t] = new
        /\ \A u \in DOMAIN condmap \ {t} : condmap'[u] = condmap[u]
    BY <1>1 DEF Put
  <1>4. Waited(c)'
    BY <1>2, <1>3 DEF Waited
  <1>5. ASSUME Waited(d) PROVE Waited(d)'
    <2>1. PICK u \in DOMAIN condmap : \E i \in DOMAIN condmap[u] : condmap[u][i] = d
      BY <1>5 DEF Waited
    <2>2. PICK i \in DOMAIN condmap[u] : condmap[u][i] = d
      BY <2>1
    <2>3. u \in DOMAIN condmap' /\ i \in DOMAIN condmap'[u] /\ condmap'[u][i] = d
      BY <1>2, <1>3, <2>2
    <2> QED
      BY <2>3 DEF Waited
  <1>6. ASSUME Waited(d)', d # c PROVE Waited(d)
    <2>1. PICK u \in DOMAIN condmap' : \E i \in DOMAIN condmap'[u] : condmap'[u][i] = d
      BY <1>6 DEF Waited
    <2>2. PICK i \in DOMAIN condmap'[u] : condmap'[u][i] = d
      BY <2>1
    <2>3. u \in DOMAIN condmap /\ i \in DOMAIN condmap[u] /\ condmap[u][i] = d
      BY <1>2, <1>3, <1>6, <2>2
    <2> QED
      BY <2>3 DEF Waited
  <1> QED
    BY <1>4, <1>5, <1>6

LEMMA NextSignals == TypeOK /\ SignalInv /\ [Next]_vars => SignalInv'
  <1> SUFFICES ASSUME TypeOK, SignalInv, [Next]_vars PROVE SignalInv'
    OBVIOUS
  <1>1. ASSUME condmap' = condmap, lastrec' = lastrec,
               \A c \in Conds : Waiting(c)' \subseteq Waiting(c), SignalsNameMain'
        PROVE  SignalInv'
    <2>1. \A c \in Conds : Waited(c)' <=> Waited(c)
      BY <1>1 DEF Waited
    <2>2. \A c \in Conds : Waiting(c)' # {} => Waiting(c) # {}
      BY <1>1
    <2> QED
      BY <1>1, <2>1, <2>2 DEF SignalInv
  <1>2. ASSUME signals' = signals PROVE SignalsNameMain'
    BY <1>2 DEF SignalInv, SignalsNameMain
  <1>3. CASE ThreadStart
    <2>1. PICK d \in Ids : ThreadStart!(d)
      BY <1>3 DEF ThreadStart
    <2>2. \A c \in Conds : Waiting(c)' \subseteq Waiting(c)
      BY <2>1, ThreadModelAssumption DEF Waiting, Put
    <2> QED
      BY <1>1, <1>2, <2>1, <2>2
  <1>4. ASSUME NEW t \in Ids, ChildStart(t) PROVE SignalInv'
    <2>1. \A c \in Conds : Waiting(c)' \subseteq Waiting(c)
      BY <1>4, ThreadModelAssumption DEF Waiting, ChildStart, TypeOK
    <2> QED
      BY <1>1, <1>2, <1>4, <2>1 DEF ChildStart
  <1>5. ASSUME NEW t \in Ids, ThreadFini(t) PROVE SignalInv'
    <2>1. \A c \in Conds : Waiting(c)' \subseteq Waiting(c)
      BY <1>5 DEF Waiting, ThreadFini
    <2> QED
      BY <1>1, <1>2, <1>5, <2>1 DEF ThreadFini
  <1>6. ASSUME alive' = alive PROVE \A c \in Conds : Waiting(c)' \subseteq Waiting(c)
    BY <1>6 DEF Waiting
  <1>7. ASSUME NEW t \in Ids, Create(t) \/ Join(t) \/ \E s \in Stores : Write(t, s)
        PROVE  SignalInv'
    BY <1>1, <1>2, <1>6, <1>7 DEF Create, Join, Write
  <1>8. ASSUME NEW c \in Conds, NEW woken, Wake(woken)
        PROVE  \A d \in Conds : Waiting(d)' \subseteq Waiting(d)
    BY <1>8, ThreadModelAssumption DEF Wake, Waiting
  <1>9. ASSUME NEW c \in Conds, NEW woken \in SUBSET Ids, WakeUnseen(c, woken)
        PROVE  SignalInv'
    BY <1>1, <1>2, <1>8, <1>9 DEF WakeUnseen
  <1>10. ASSUME NEW t \in Ids, NEW c \in Conds, CondWait(t, c)
         PROVE  SignalInv'
    <2>1. \A d \in Conds : Waited(d)' <=> (Waited(d) \/ d = c)
      BY <1>10, WaitIsRecorded
    <2>2. \A d \in Conds : lastrec'[d] = IF d = c THEN 0 ELSE lastrec[d]
      BY <1>10 DEF CondWait, TypeOK
    <2>3. \A d \in Conds : d # c => Waiting(d)' \subseteq Waiting(d)
      BY <1>10 DEF CondWait, Waiting
    <2>4. SignalsNameMain'
      BY <1>2, <1>10 DEF CondWait
    <2>5. \A d \in Conds : lastrec'[d] = IF Waited(d)' THEN 0 ELSE Uninit
      BY <2>1, <2>2 DEF SignalInv
    <2>6. \A d \in Conds : Waiting(d)' # {} => Waited(d)'
      BY <2>1, <2>3 DEF SignalInv
    <2> QED
      BY <2>4, <2>5, <2>6 DEF SignalInv
  <1>11. ASSUME NEW t \in Ids, NEW c \in Conds, NEW woken \in SUBSET Ids,
                CondSignal(t, c, woken)
         PROVE  SignalInv'
    <2> DEFINE new == [named |-> lastrec[c], woken |-> woken, waited |-> Waited(c)]
    <2>1. signals' = Append(signals, new) /\ woken \subseteq Waiting(c)
      BY <1>11 DEF CondSignal, Wakes, Waited
    <2>2. /\ new.named = IF new.waited THEN 0 ELSE Uninit
          /\ new.woken # {} => new.waited
      BY <2>1 DEF SignalInv
    <2>3. signals \in Seq([named : Named, woken : SUBSET Ids, waited : BOOLEAN])
      BY DEF TypeOK
    <2>4. new \in [named : Named, woken : SUBSET Ids, waited : BOOLEAN]
      <3>1. lastrec[c] \in Named
        BY DEF TypeOK
      <3>2. Waited(c) \in BOOLEAN
        BY Zenon DEF Waited
      <3> QED
        BY <3>1, <3>2
    <2> HIDE DEF new
    <2>5. /\ DOMAIN signals' = DOMAIN signals \cup {Len(signals) + 1}
          /\ \A i \in DOMAIN signals : signals'[i] = signals[i]
          /\ signals'[Len(signals) + 1] = new
      BY <2>1, <2>3, <2>4, AppendFacts
    <2>6. SignalsNameMain'
      BY <2>2, <2>5 DEF SignalInv, SignalsNameMain
    <2> QED
      BY <1>1, <1>8, <1>11, <2>6 DEF CondSignal
  <1>12. CASE UNCHANGED vars
    BY <1>1, <1>2, <1>6, <1>12 DEF vars
  <1> QED
    BY <1>3, <1>4, <1>5, <1>7, <1>9, <1>10, <1>11, <1>12 DEF Next

\* Every signal is reported with thread 0, or with an uninitialised thread when
\* no wait for its condition variable was recorded; which it wakes is never seen.
THEOREM SignalsAreToMain == Spec => []SignalsNameMain
  <1>1. Init => SignalInv
    <2> SUFFICES ASSUME Init PROVE SignalInv
      OBVIOUS
    <2>1. DOMAIN condmap = {} /\ DOMAIN alive = {0} /\ alive[0] = "run" /\ DOMAIN signals = {}
      BY DEF Init, None
    <2>2. \A c \in Conds : ~Waited(c) /\ lastrec[c] = Uninit
      BY <2>1 DEF Init, Waited
    <2>3. \A c \in Conds : Waiting(c) = {}
      BY <2>1, ThreadModelAssumption DEF Waiting
    <2> QED
      BY <2>1, <2>2, <2>3 DEF SignalInv, SignalsNameMain
  <1>2. SignalInv => SignalsNameMain
    BY DEF SignalInv
  <1> QED
    BY <1>1, <1>2, NextSignals, TypeCorrect, PTL DEF Spec

-----------------------------------------------------------------------------
(* What the threading model says.                                          *)

\* The tables say who created and who joined.
TableInv ==
  /\ \A t \in Ids : t \in DOMAIN createmap <=> made["create"][t] > 0
  /\ \A t \in Ids : made["join"][t] > 0 <=> (t \in DOMAIN joinmap /\ joinmap[t].join > 0)

\* globalinmap says who wrote by an instruction, and what is not in glist was
\* written by one thread: comparing neighbours finds every other one.
WriteInv ==
  /\ \A w \in wrote : \E i \in 1..Len(globalinmap[w.ip]) : globalinmap[w.ip][i] = w.tid
  /\ \A ip \in Ips : \A i \in 1..Len(globalinmap[ip]) :
       \E w \in wrote : w.ip = ip /\ w.tid = globalinmap[ip][i]
  /\ \A ip \in Ips \ glist : \A i, j \in 1..Len(globalinmap[ip]) :
       globalinmap[ip][i] = globalinmap[ip][j]

LEMMA NextTables == TypeOK /\ TableInv /\ [Next]_vars => TableInv'
  <1> SUFFICES ASSUME TypeOK, TableInv, [Next]_vars PROVE TableInv'
    OBVIOUS
  <1>1. ASSUME createmap' = createmap, joinmap' = joinmap,
               \A t \in Ids : /\ made'["create"][t] = made["create"][t]
                              /\ made'["join"][t] = made["join"][t]
        PROVE  TableInv'
    BY <1>1 DEF TableInv
  <1>2. ASSUME NEW t \in Ids, Create(t) PROVE TableInv'
    <2>1. /\ createmap' = Put(createmap, t, Pushed(createmap, t, td + 1)) /\ joinmap' = joinmap
          /\ made' = [made EXCEPT !["create"][t] = @ + 1]
      BY <1>2 DEF Create, Makes, Push, Pushed
    <2>2. DOMAIN createmap' = DOMAIN createmap \cup {t}
      BY <2>1 DEF Put
    <2>3. /\ made'["create"][t] > 0
          /\ \A u \in Ids \ {t} : made'["create"][u] = made["create"][u]
          /\ \A u \in Ids : made'["join"][u] = made["join"][u]
      BY <2>1 DEF TypeOK, Calls
    <2> QED
      BY <2>1, <2>2, <2>3 DEF TableInv
  <1>3. ASSUME NEW t \in Ids, Join(t) PROVE TableInv'
    <2>1. /\ DOMAIN joinmap' = DOMAIN joinmap \cup {t}
          /\ joinmap'[t].join > 0
          /\ \A u \in DOMAIN joinmap \ {t} : joinmap'[u] = joinmap[u]
      BY <1>3 DEF Join, Put, TypeOK
    <2>2. createmap' = createmap /\ made' = [made EXCEPT !["join"][t] = @ + 1]
      BY <1>3 DEF Join, Makes
    <2>3. /\ made'["join"][t] > 0
          /\ \A u \in Ids \ {t} : made'["join"][u] = made["join"][u]
          /\ \A u \in Ids : made'["create"][u] = made["create"][u]
      BY <2>2 DEF TypeOK, Calls
    <2> QED
      BY <2>1, <2>2, <2>3 DEF TableInv
  <1>4. ASSUME NEW t \in Ids, ThreadFini(t) PROVE TableInv'
    <2>1. /\ DOMAIN joinmap' = DOMAIN joinmap \cup {t}
          /\ joinmap'[t].join = IF t \in DOMAIN joinmap THEN joinmap[t].join ELSE 0
          /\ \A u \in DOMAIN joinmap \ {t} : joinmap'[u] = joinmap[u]
          /\ createmap' = createmap /\ made' = made
      BY <1>4 DEF ThreadFini, Put
    <2> QED
      BY <2>1 DEF TableInv
  <1>5. ASSUME NEW t \in Ids, NEW c \in Conds,
               CondWait(t, c) \/ \E woken \in SUBSET Ids : CondSignal(t, c, woken)
        PROVE  TableInv'
    <2>1. createmap' = createmap /\ joinmap' = joinmap
      BY <1>5 DEF CondWait, CondSignal
    <2>2. \/ made' = [made EXCEPT !["wait"][t] = @ + 1]
          \/ made' = [made EXCEPT !["signal"][t] = @ + 1]
      BY <1>5 DEF CondWait, CondSignal, Makes
    <2>3. made'["create"] = made["create"] /\ made'["join"] = made["join"]
      BY <2>2 DEF TypeOK, Calls
    <2> QED
      BY <1>1, <2>1, <2>3
  <1>6. CASE \/ ThreadStart
             \/ \E t \in Ids : ChildStart(t) \/ \E s \in Stores : Write(t, s)
             \/ \E c \in Conds, woken \in SUBSET Ids : WakeUnseen(c, woken)
             \/ UNCHANGED vars
    BY <1>1, <1>6 DEF ThreadStart, ChildStart, Write, WakeUnseen, vars
  <1> QED
    BY <1>2, <1>3, <1>4, <1>5, <1>6 DEF Next

LEMMA NextWrites == TypeOK /\ WriteInv /\ [Next]_vars => WriteInv'
  <1> SUFFICES ASSUME TypeOK, WriteInv, [Next]_vars PROVE WriteInv'
    OBVIOUS
  <1>1. CASE UNCHANGED <<wrote, globalinmap>>
    <2>1. glist' = glist
      BY <1>1 DEF glist
    <2> QED
      BY <1>1, <2>1 DEF WriteInv
  <1>2. ASSUME NEW t \in Ids, NEW s \in Stores, Write(t, s) PROVE WriteInv'
    <2> DEFINE g == globalinmap[s.ip]
               new == Append(g, t)
               w0 == [tid |-> t, ip |-> s.ip, var |-> s.var]
    <2>1. s.ip \in Ips /\ g \in Seq(Ids)
      BY DEF Ips, TypeOK
    <2>2. /\ globalinmap' = [globalinmap EXCEPT ![s.ip] = new]
          /\ wrote' = wrote \cup {w0}
      BY <1>2 DEF Write
    <2>3. /\ Len(new) = Len(g) + 1 /\ Len(g) \in Nat
          /\ \A i \in 1..Len(g) : new[i] = g[i]
          /\ new[Len(g) + 1] = t
      BY <2>1, AppendProperties
    <2>4. w0.tid = t /\ w0.ip = s.ip
      OBVIOUS
    <2> HIDE DEF new, w0
    <2>5. /\ globalinmap'[s.ip] = new
          /\ \A ip \in Ips \ {s.ip} : globalinmap'[ip] = globalinmap[ip]
      BY <2>1, <2>2 DEF TypeOK
    <2>6. \A w \in wrote' : \E i \in 1..Len(globalinmap'[w.ip]) : globalinmap'[w.ip][i] = w.tid
      <3>1. ASSUME NEW w \in wrote
            PROVE  \E i \in 1..Len(globalinmap'[w.ip]) : globalinmap'[w.ip][i] = w.tid
        <4>1. PICK i \in 1..Len(globalinmap[w.ip]) : globalinmap[w.ip][i] = w.tid
          BY DEF WriteInv
        <4>2. CASE w.ip = s.ip
          <5>1. i \in 1..Len(new) /\ new[i] = w.tid
            BY <2>3, <4>1, <4>2
          <5> QED
            BY <2>5, <4>2, <5>1
        <4>3. CASE w.ip # s.ip
          <5>1. w.ip \in Ips
            BY DEF TypeOK
          <5>2. globalinmap'[w.ip] = globalinmap[w.ip]
            BY <2>5, <4>3, <5>1
          <5> QED
            BY <4>1, <5>2
        <4> QED
          BY <4>2, <4>3
      <3>2. Len(g) + 1 \in 1..Len(globalinmap'[w0.ip]) /\ globalinmap'[w0.ip][Len(g) + 1] = w0.tid
        BY <2>3, <2>4, <2>5
      <3> QED
        BY <2>2, <3>1, <3>2
    <2>7. \A ip \in Ips : \A i \in 1..Len(globalinmap'[ip]) :
            \E w \in wrote' : w.ip = ip /\ w.tid = globalinmap'[ip][i]
      <3> SUFFICES ASSUME NEW ip \in Ips, NEW i \in 1..Len(globalinmap'[ip])
                   PROVE  \E w \in wrote' : w.ip = ip /\ w.tid = globalinmap'[ip][i]
        OBVIOUS
      <3>1. CASE ip = s.ip /\ i = Len(g) + 1
        BY <2>2, <2>3, <2>4, <2>5, <3>1
      <3>2. CASE ip = s.ip /\ i # Len(g) + 1
        <4>1. i \in 1..Len(g) /\ globalinmap'[ip][i] = g[i]
          BY <2>3, <2>5, <3>2
        <4>2. PICK w \in wrote : w.ip = s.ip /\ w.tid = g[i]
          BY <2>1, <4>1 DEF WriteInv
        <4> QED
          BY <2>2, <3>2, <4>1, <4>2
      <3>3. CASE ip # s.ip
        <4>1. globalinmap'[ip] = globalinmap[ip]
          BY <2>5, <3>3
        <4>2. PICK w \in wrote : w.ip = ip /\ w.tid = globalinmap[ip][i]
          BY <4>1 DEF WriteInv
        <4> QED
          BY <2>2, <4>1, <4>2
      <3> QED
        BY <3>1, <3>2, <3>3
    <2>8. ASSUME NEW ip \in Ips, ip \notin glist',
                 NEW i \in 1..Len(globalinmap'[ip]), NEW j \in 1..Len(globalinmap'[ip])
          PROVE  globalinmap'[ip][i] = globalinmap'[ip][j]
      <3>1. \A k \in 1..(Len(globalinmap'[ip]) - 1) : globalinmap'[ip][k] = globalinmap'[ip][k + 1]
        BY <2>8 DEF glist
      <3>2. CASE ip # s.ip
        <4>1. globalinmap'[ip] = globalinmap[ip]
          BY <2>5, <3>2
        <4>2. ip \notin glist
          BY <3>1, <4>1 DEF glist
        <4> QED
          BY <2>8, <4>1, <4>2 DEF WriteInv
      <3>3. CASE ip = s.ip
        <4>1. \A k \in 1..Len(g) : new[k] = new[k + 1]
          BY <2>3, <2>5, <3>1, <3>3
        <4>2. s.ip \notin glist
          <5>1. \A k \in 1..(Len(g) - 1) : g[k] = g[k + 1]
            BY <2>3, <4>1
          <5> QED
            BY <5>1 DEF glist
        <4>3. \A k, l \in 1..Len(g) : g[k] = g[l]
          BY <2>1, <4>2 DEF WriteInv
        <4>4. ASSUME NEW k \in 1..Len(new) PROVE new[k] = t
          <5>1. CASE k = Len(g) + 1
            BY <2>3, <5>1
          <5>2. CASE k # Len(g) + 1
            <6>1. k \in 1..Len(g) /\ Len(g) \in 1..Len(g)
              BY <2>3, <5>2
            <6>2. g[k] = g[Len(g)] /\ new[k] = g[k] /\ new[Len(g)] = g[Len(g)]
              BY <2>3, <4>3, <6>1
            <6>3. new[Len(g)] = t
              BY <2>3, <4>1, <6>1
            <6> QED
              BY <6>2, <6>3
          <5> QED
            BY <5>1, <5>2
        <4> QED
          BY <2>5, <2>8, <3>3, <4>4
      <3> QED
        BY <3>2, <3>3
    <2> QED
      BY <2>6, <2>7, <2>8 DEF WriteInv
  <1>3. CASE ~\E t \in Ids, s \in Stores : Write(t, s)
    BY <1>1, <1>3
    DEF Next, vars, ThreadStart, Create, ChildStart, Join, ThreadFini, CondWait, CondSignal,
        WakeUnseen
  <1> QED
    BY <1>2, <1>3

\* With one instruction for each variable, an entry of glist is a variable that
\* two threads wrote to.
LEMMA SharedInGlist ==
  ASSUME TypeOK, WriteInv, OneToOne, NEW v \in wrote, NEW w \in wrote,
         v.var = w.var, v.tid # w.tid
  PROVE  v.ip \in glist /\ \E i \in 1..Len(globalinmap[v.ip]) : globalinmap[v.ip][i] = v.tid
  <1>1. v.ip = w.ip /\ v.ip \in Ips
    BY DEF OneToOne, TypeOK
  <1>2. PICK i \in 1..Len(globalinmap[v.ip]) : globalinmap[v.ip][i] = v.tid
    BY DEF WriteInv
  <1>3. PICK j \in 1..Len(globalinmap[w.ip]) : globalinmap[w.ip][j] = w.tid
    BY DEF WriteInv
  <1>4. v.ip \in glist
    BY <1>1, <1>2, <1>3 DEF WriteInv
  <1> QED
    BY <1>2, <1>4

LEMMA GlistIsShared ==
  ASSUME TypeOK, WriteInv, OneToOne, NEW ip \in glist,
         NEW i \in 1..Len(globalinmap[ip])
  PROVE  /\ Len(globalinmap[ip]) >= 2
         /\ \E v, w \in wrote : v.var = w.var /\ v.tid # w.tid /\ v.tid = globalinmap[ip][i]
  <1>1. PICK k \in 1..(Len(globalinmap[ip]) - 1) : globalinmap[ip][k] # globalinmap[ip][k + 1]
    BY DEF glist
  <1>2. ip \in Ips /\ Len(globalinmap[ip]) \in Nat
    BY DEF glist, TypeOK
  <1>3. k \in 1..Len(globalinmap[ip]) /\ k + 1 \in 1..Len(globalinmap[ip])
    BY <1>1, <1>2
  <1>4. PICK j \in 1..Len(globalinmap[ip]) : globalinmap[ip][j] # globalinmap[ip][i]
    BY <1>1, <1>3
  <1>5. PICK v \in wrote : v.ip = ip /\ v.tid = globalinmap[ip][i]
    BY <1>2 DEF WriteInv
  <1>6. PICK w \in wrote : w.ip = ip /\ w.tid = globalinmap[ip][j]
    BY <1>2 DEF WriteInv
  <1>7. v.var = w.var
    BY <1>5, <1>6 DEF OneToOne
  <1> QED
    BY <1>1, <1>2, <1>4, <1>5, <1>6, <1>7

\* The threading model that is reported fits the program, and so does the kind of
\* data access.
THEOREM VerdictIsMeant == Spec => []VerdictFits
  <1>1. Init => TableInv /\ WriteInv
    <2> SUFFICES ASSUME Init PROVE TableInv /\ WriteInv
      OBVIOUS
    <2>1. /\ DOMAIN createmap = {} /\ DOMAIN joinmap = {} /\ wrote = {}
          /\ \A ip \in Ips : Len(globalinmap[ip]) = 0
          /\ \A t \in Ids : made["create"][t] = 0 /\ made["join"][t] = 0
      BY DEF Init, None, Calls
    <2>2. TableInv
      BY <2>1 DEF TableInv
    <2>3. WriteInv
      BY <2>1 DEF WriteInv
    <2> QED
      BY <2>2, <2>3
  <1>2. TypeOK /\ TableInv /\ WriteInv => VerdictFits
    <2> SUFFICES ASSUME TypeOK, TableInv, WriteInv, OneToOne
                 PROVE  /\ Verdict \in {"Peer to Peer", "Pipeline"} => ParentShares
                        /\ Verdict = "Boss_Worker" => ~ParentShares /\ SomeJoin
                        /\ Verdict = "Pipeline" => ~SomeJoin
                        /\ Verdict = "Hybrid" => ParentShares \/ ~SomeJoin
                        /\ DataAccess = IF SomeShared THEN "Overlapped access"
                                        ELSE "Only local variables"
      BY DEF VerdictFits
    <2>1. IsJoin <=> SomeJoin
      BY DEF IsJoin, SomeJoin, TableInv, TypeOK
    <2>2. ASSUME DoesUpdate PROVE ParentShares
      <3>1. PICK t \in DOMAIN createmap, ip \in glist : \E i \in DOMAIN globalinmap[ip] : globalinmap[ip][i] = t
        BY <2>2 DEF DoesUpdate
      <3>2. ip \in Ips /\ DOMAIN globalinmap[ip] = 1..Len(globalinmap[ip])
        BY DEF glist, TypeOK
      <3>3. PICK i \in 1..Len(globalinmap[ip]) : globalinmap[ip][i] = t
        BY <3>1, <3>2
      <3>4. PICK v \in wrote, w \in wrote : v.var = w.var /\ v.tid # w.tid /\ v.tid = t
        BY <3>3, GlistIsShared
      <3>5. made["create"][t] > 0
        BY DEF TableInv, TypeOK
      <3> QED
        BY <3>4, <3>5 DEF ParentShares
    <2>3. ASSUME ParentShares PROVE DoesUpdate
      <3>1. PICK v \in wrote, w \in wrote :
              v.var = w.var /\ v.tid # w.tid /\ made["create"][v.tid] > 0
        BY <2>3 DEF ParentShares
      <3>2. v.tid \in DOMAIN createmap
        BY <3>1 DEF TableInv, TypeOK
      <3>3. PICK i \in 1..Len(globalinmap[v.ip]) : globalinmap[v.ip][i] = v.tid
        BY <3>1, SharedInGlist
      <3>4. v.ip \in glist
        BY <3>1, SharedInGlist
      <3>5. DOMAIN globalinmap[v.ip] = 1..Len(globalinmap[v.ip])
        BY DEF TypeOK
      <3> QED
        BY <3>2, <3>3, <3>4, <3>5 DEF DoesUpdate
    <2>4. DataAccess = IF SomeShared THEN "Overlapped access" ELSE "Only local variables"
      <3>1. CASE glist = {}
        <4>1. ~SomeShared
          BY <3>1, SharedInGlist DEF SomeShared
        <4> QED
          BY <3>1, <4>1 DEF DataAccess
      <3>2. CASE glist # {}
        <4>1. PICK ip \in glist : TRUE
          BY <3>2
        <4>2. 1 \in 1..Len(globalinmap[ip])
          BY DEF glist, TypeOK
        <4>3. Len(globalinmap[ip]) >= 2 /\ SomeShared
          BY <4>2, GlistIsShared DEF SomeShared
        <4> QED
          BY <3>2, <4>3 DEF DataAccess
      <3> QED
        BY <3>1, <3>2
    <2> QED
      BY <2>1, <2>2, <2>3, <2>4 DEF Verdict
  <1> QED
    BY <1>1, <1>2, NextTables, NextWrites, TypeCorrect, PTL DEF Spec

-----------------------------------------------------------------------------
(* What the rows of dataarray add up to.                                   *)

\* Pin started a thread with this id.
Listed(t) == \E j \in 1..Len(thlist) : thlist[j] = t

\* Who runs, made a call or wrote was started, and once only unless the id was
\* given again.
ListedInv ==
  /\ \A t \in DOMAIN alive : Listed(t)
  /\ \A call \in Calls : \A t \in Ids : made[call][t] > 0 => Listed(t)
  /\ \A ip \in Ips : \A i \in 1..Len(globalinmap[ip]) : Listed(globalinmap[ip][i])
  /\ ~reused => \A j, k \in 1..Len(thlist) : thlist[j] = thlist[k] => j = k

\* A call adds one to what its thread has made, and nothing else.
LEMMA MadeCounts ==
  ASSUME TypeOK, NEW t \in Ids, NEW call \in Calls, Makes(t, call)
  PROVE  /\ made'[call][t] = made[call][t] + 1
         /\ \A other \in Calls : \A u \in Ids :
              other # call \/ u # t => made'[other][u] = made[other][u]
  BY DEF Makes, TypeOK

LEMMA NextListed == TypeOK /\ ListedInv /\ [Next]_vars => ListedInv'
  <1> SUFFICES ASSUME TypeOK, ListedInv, [Next]_vars PROVE ListedInv'
    OBVIOUS
  <1>1. ASSUME thlist' = thlist, reused' = reused, DOMAIN alive' \subseteq DOMAIN alive,
               globalinmap' = globalinmap, made' = made
        PROVE  ListedInv'
    BY <1>1 DEF ListedInv, Listed
  <1>2. ASSUME NEW t \in Ids, NEW call \in Calls, Makes(t, call),
               thlist' = thlist, reused' = reused, DOMAIN alive' \subseteq DOMAIN alive,
               globalinmap' = globalinmap
        PROVE  ListedInv'
    <2>1. Listed(t)
      BY <1>2 DEF Makes, Running, ListedInv
    <2>2. \A other \in Calls : \A u \in Ids : made'[other][u] > 0 => Listed(u)
      BY <1>2, <2>1, MadeCounts DEF ListedInv
    <2> QED
      BY <1>2, <2>2 DEF ListedInv, Listed
  <1>3. CASE ThreadStart
    <2>1. PICK d \in Ids : ThreadStart!(d)
      BY <1>3 DEF ThreadStart
    <2>2. thlist \in Seq(Ids) /\ thlist' = Append(thlist, d)
      BY <2>1 DEF TypeOK
    <2>3. /\ Len(thlist') = Len(thlist) + 1 /\ Len(thlist) \in Nat
          /\ \A j \in 1..Len(thlist) : thlist'[j] = thlist[j]
          /\ thlist'[Len(thlist) + 1] = d
      BY <2>2, AppendProperties
    <2>4. ASSUME NEW u, Listed(u) \/ u = d PROVE Listed(u)'
      <3>1. \A j \in 1..Len(thlist) : j \in 1..Len(thlist')
        BY <2>3
      <3>2. Len(thlist) + 1 \in 1..Len(thlist')
        BY <2>3
      <3> QED
        BY <2>3, <2>4, <3>1, <3>2 DEF Listed
    <2>5. DOMAIN alive' = DOMAIN alive \cup {d} /\ made' = made /\ globalinmap' = globalinmap
      BY <2>1 DEF Put
    <2>6. ASSUME ~reused', NEW j \in 1..Len(thlist'), NEW k \in 1..Len(thlist'),
                 thlist'[j] = thlist'[k]
          PROVE  j = k
      <3>1. ~reused /\ \A i \in DOMAIN thlist : thlist[i] # d
        BY <2>1, <2>6
      <3>2. DOMAIN thlist = 1..Len(thlist)
        BY <2>2
      <3>3. \A i \in 1..Len(thlist') : i \in 1..Len(thlist) \/ i = Len(thlist) + 1
        BY <2>3
      <3> QED
        BY <2>3, <2>6, <3>1, <3>2, <3>3 DEF ListedInv
    <2> QED
      BY <2>4, <2>5, <2>6 DEF ListedInv
  <1>4. ASSUME NEW t \in Ids,
               \/ Create(t) \/ Join(t)
               \/ \E c \in Conds : \/ CondWait(t, c)
                                   \/ \E woken \in SUBSET Ids : CondSignal(t, c, woken)
        PROVE  ListedInv'
    <2>1. \E call \in Calls : Makes(t, call)
      BY <1>4 DEF Create, Join, CondWait, CondSignal, Calls
    <2>2. /\ thlist' = thlist /\ reused' = reused /\ globalinmap' = globalinmap
          /\ DOMAIN alive' \subseteq DOMAIN alive
      BY <1>4 DEF Create, Join, CondWait, CondSignal, Wake
    <2> QED
      BY <1>2, <2>1, <2>2
  <1>5. ASSUME NEW t \in Ids, ChildStart(t) \/ ThreadFini(t) PROVE ListedInv'
    BY <1>1, <1>5 DEF ChildStart, ThreadFini
  <1>6. ASSUME NEW c \in Conds, NEW woken \in SUBSET Ids, WakeUnseen(c, woken) PROVE ListedInv'
    BY <1>1, <1>6 DEF WakeUnseen, Wake
  <1>7. ASSUME NEW t \in Ids, NEW s \in Stores, Write(t, s) PROVE ListedInv'
    <2>1. s.ip \in Ips /\ globalinmap[s.ip] \in Seq(Ids)
      BY DEF Ips, TypeOK
    <2>2. globalinmap' = [globalinmap EXCEPT ![s.ip] = Append(globalinmap[s.ip], t)] /\ Listed(t)
      BY <1>7 DEF Write, Running, ListedInv
    <2> DEFINE new == Append(globalinmap[s.ip], t)
    <2>3. /\ Len(new) = Len(globalinmap[s.ip]) + 1 /\ Len(globalinmap[s.ip]) \in Nat
          /\ \A i \in 1..Len(globalinmap[s.ip]) : new[i] = globalinmap[s.ip][i]
          /\ new[Len(globalinmap[s.ip]) + 1] = t
      BY <2>1, AppendProperties
    <2>4. \A i \in 1..Len(new) : Listed(new[i])
      <3> HIDE DEF new
      <3>1. \A i \in 1..Len(new) : i \in 1..Len(globalinmap[s.ip]) \/ i = Len(globalinmap[s.ip]) + 1
        BY <2>3
      <3> QED
        BY <2>1, <2>2, <2>3, <3>1 DEF ListedInv
    <2>5. globalinmap' = [globalinmap EXCEPT ![s.ip] = new]
      BY <2>2
    <2> HIDE DEF new
    <2>6. \A ip \in Ips : globalinmap'[ip] = IF ip = s.ip THEN new ELSE globalinmap[ip]
      BY <2>1, <2>5 DEF TypeOK
    <2>7. thlist' = thlist /\ reused' = reused /\ alive' = alive /\ made' = made
      BY <1>7 DEF Write
    <2>8. \A ip \in Ips : \A i \in 1..Len(globalinmap'[ip]) : Listed(globalinmap'[ip][i])
      BY <2>4, <2>6 DEF ListedInv
    <2> QED
      BY <2>7, <2>8 DEF ListedInv, Listed
  <1>8. CASE UNCHANGED vars
    BY <1>1, <1>8 DEF vars
  <1> QED
    BY <1>3, <1>4, <1>5, <1>6, <1>7, <1>8 DEF Next

Joins(t) == IF t \in DOMAIN joinmap THEN joinmap[t].join ELSE 0

\* The tables of the rows count the calls.
CountedInv ==
  \A t \in Ids :
    /\ LenOf(createmap, t) = made["create"][t]
    /\ LenOf(signalmap, t) = made["signal"][t]
    /\ LenOf(condmap, t) = made["wait"][t]
    /\ Joins(t) = made["join"][t]

LEMMA PushCounts ==
  ASSUME NEW f, NEW x, NEW v, x \in DOMAIN f => Len(Append(f[x], v)) = Len(f[x]) + 1,
         NEW g, g = Push(f, x, v), NEW u
  PROVE  LenOf(g, u) = IF u = x THEN LenOf(f, x) + 1 ELSE LenOf(f, u)
  <1> DEFINE new == Pushed(f, x, v)
  <1>1. Len(new) = LenOf(f, x) + 1
    <2>1. CASE x \in DOMAIN f
      BY <2>1 DEF Pushed, LenOf
    <2>2. CASE x \notin DOMAIN f
      <3>1. new = <<v>> /\ Len(<<v>>) = 1 /\ LenOf(f, x) = 0
        BY <2>2 DEF Pushed, LenOf
      <3> QED
        BY <3>1
    <2> QED
      BY <2>1, <2>2
  <1>2. g = Put(f, x, new)
    BY DEF Push, Pushed
  <1> HIDE DEF new
  <1>3. /\ DOMAIN g = DOMAIN f \cup {x} /\ g[x] = new
        /\ u # x /\ u \in DOMAIN f => g[u] = f[u]
    BY <1>2 DEF Put
  <1> QED
    BY <1>1, <1>3 DEF LenOf

LEMMA NextCounted == TypeOK /\ CountedInv /\ [Next]_vars => CountedInv'
  <1> SUFFICES ASSUME TypeOK, CountedInv, [Next]_vars PROVE CountedInv'
    OBVIOUS
  <1>1. ASSUME createmap' = createmap, signalmap' = signalmap, condmap' = condmap,
               \A t \in Ids : Joins(t)' = Joins(t), made' = made
        PROVE  CountedInv'
    BY <1>1 DEF CountedInv, LenOf
  <1>2. ASSUME NEW t \in Ids, Create(t) PROVE CountedInv'
    <2>1. Makes(t, "create") /\ createmap' = Push(createmap, t, td + 1)
      BY <1>2 DEF Create
    <2>2. t \in DOMAIN createmap => createmap[t] \in Seq(Nat) /\ td + 1 \in Nat
      BY DEF TypeOK
    <2>3. t \in DOMAIN createmap =>
            Len(Append(createmap[t], td + 1)) = Len(createmap[t]) + 1
      BY <2>2, AppendProperties
    <2>4. ASSUME NEW u \in Ids
          PROVE  LenOf(createmap', u) =
                   IF u = t THEN LenOf(createmap, t) + 1 ELSE LenOf(createmap, u)
      BY <2>1, <2>3, PushCounts
    <2>5. signalmap' = signalmap /\ condmap' = condmap /\ \A u \in Ids : Joins(u)' = Joins(u)
      BY <1>2 DEF Create, Joins
    <2>6. "create" \in Calls /\ "signal" \in Calls /\ "wait" \in Calls /\ "join" \in Calls
      BY DEF Calls
    <2>7. /\ made'["create"][t] = made["create"][t] + 1
          /\ \A u \in Ids : /\ u # t => made'["create"][u] = made["create"][u]
                          /\ made'["signal"][u] = made["signal"][u]
                          /\ made'["wait"][u] = made["wait"][u]
                          /\ made'["join"][u] = made["join"][u]
      BY <2>1, <2>6, MadeCounts
    <2> QED
      BY <2>4, <2>5, <2>7 DEF CountedInv
  <1>3. ASSUME NEW t \in Ids, Join(t) PROVE CountedInv'
    <2> DEFINE v == IF t \in DOMAIN joinmap
                    THEN [join |-> joinmap[t].join + 1, exit |-> joinmap[t].exit]
                    ELSE [join |-> 1, exit |-> 0]
    <2>1. Makes(t, "join") /\ joinmap' = Put(joinmap, t, v)
      BY <1>3 DEF Join
    <2>2. v.join = Joins(t) + 1
      BY DEF Joins
    <2> HIDE DEF v
    <2>3. Joins(t)' = Joins(t) + 1 /\ \A u \in Ids : u # t => Joins(u)' = Joins(u)
      <3>1. /\ DOMAIN joinmap' = DOMAIN joinmap \cup {t} /\ joinmap'[t] = v
            /\ \A u \in DOMAIN joinmap : u # t => joinmap'[u] = joinmap[u]
        BY <2>1 DEF Put
      <3> QED
        BY <2>2, <3>1 DEF Joins
    <2>4. createmap' = createmap /\ signalmap' = signalmap /\ condmap' = condmap
      BY <1>3 DEF Join
    <2>5. "create" \in Calls /\ "signal" \in Calls /\ "wait" \in Calls /\ "join" \in Calls
      BY DEF Calls
    <2>6. /\ made'["join"][t] = made["join"][t] + 1
          /\ \A u \in Ids : /\ u # t => made'["join"][u] = made["join"][u]
                          /\ made'["create"][u] = made["create"][u]
                          /\ made'["signal"][u] = made["signal"][u]
                          /\ made'["wait"][u] = made["wait"][u]
      BY <2>1, <2>5, MadeCounts
    <2> QED
      BY <2>3, <2>4, <2>6 DEF CountedInv
  <1>4. ASSUME NEW t \in Ids, ThreadFini(t) PROVE CountedInv'
    <2> DEFINE v == [join |-> Joins(t), exit |-> exits + 1]
    <2>1. joinmap' = Put(joinmap, t, v)
      BY <1>4 DEF ThreadFini, Joins
    <2>2. v.join = Joins(t)
      OBVIOUS
    <2> HIDE DEF v
    <2>3. /\ DOMAIN joinmap' = DOMAIN joinmap \cup {t} /\ joinmap'[t] = v
          /\ \A u \in DOMAIN joinmap : u # t => joinmap'[u] = joinmap[u]
      BY <2>1 DEF Put
    <2>4. \A u \in Ids : Joins(u)' = Joins(u)
      BY <2>2, <2>3 DEF Joins
    <2> QED
      BY <1>1, <1>4, <2>4 DEF ThreadFini
  <1>5. ASSUME NEW t \in Ids, NEW c \in Conds, CondWait(t, c) PROVE CountedInv'
    <2>1. Makes(t, "wait") /\ condmap' = Push(condmap, t, c)
      BY <1>5 DEF CondWait
    <2>2. t \in DOMAIN condmap => Len(Append(condmap[t], c)) = Len(condmap[t]) + 1
      <3>1. t \in DOMAIN condmap => condmap[t] \in Seq(Conds)
        BY DEF TypeOK
      <3> QED
        BY <3>1, AppendProperties
    <2>3. ASSUME NEW u \in Ids
          PROVE  LenOf(condmap', u) =
                   IF u = t THEN LenOf(condmap, t) + 1 ELSE LenOf(condmap, u)
      BY <2>1, <2>2, PushCounts
    <2>4. createmap' = createmap /\ signalmap' = signalmap /\ \A u \in Ids : Joins(u)' = Joins(u)
      BY <1>5 DEF CondWait, Joins
    <2>5. "create" \in Calls /\ "signal" \in Calls /\ "wait" \in Calls /\ "join" \in Calls
      BY DEF Calls
    <2>6. /\ made'["wait"][t] = made["wait"][t] + 1
          /\ \A u \in Ids : /\ u # t => made'["wait"][u] = made["wait"][u]
                          /\ made'["create"][u] = made["create"][u]
                          /\ made'["signal"][u] = made["signal"][u]
                          /\ made'["join"][u] = made["join"][u]
      BY <2>1, <2>5, MadeCounts
    <2> QED
      BY <2>3, <2>4, <2>6 DEF CountedInv
  <1>6. ASSUME NEW t \in Ids, NEW c \in Conds, NEW woken \in SUBSET Ids, CondSignal(t, c, woken)
        PROVE  CountedInv'
    <2>1. Makes(t, "signal") /\ signalmap' = Push(signalmap, t, lastrec[c])
      BY <1>6 DEF CondSignal
    <2>2. t \in DOMAIN signalmap =>
            Len(Append(signalmap[t], lastrec[c])) = Len(signalmap[t]) + 1
      <3>1. (t \in DOMAIN signalmap => signalmap[t] \in Seq(Named)) /\ lastrec[c] \in Named
        BY DEF TypeOK
      <3> QED
        BY <3>1, AppendProperties
    <2>3. ASSUME NEW u \in Ids
          PROVE  LenOf(signalmap', u) =
                   IF u = t THEN LenOf(signalmap, t) + 1 ELSE LenOf(signalmap, u)
      BY <2>1, <2>2, PushCounts
    <2>4. createmap' = createmap /\ condmap' = condmap /\ \A u \in Ids : Joins(u)' = Joins(u)
      BY <1>6 DEF CondSignal, Joins
    <2>5. "create" \in Calls /\ "signal" \in Calls /\ "wait" \in Calls /\ "join" \in Calls
      BY DEF Calls
    <2>6. /\ made'["signal"][t] = made["signal"][t] + 1
          /\ \A u \in Ids : /\ u # t => made'["signal"][u] = made["signal"][u]
                          /\ made'["create"][u] = made["create"][u]
                          /\ made'["wait"][u] = made["wait"][u]
                          /\ made'["join"][u] = made["join"][u]
      BY <2>1, <2>5, MadeCounts
    <2> QED
      BY <2>3, <2>4, <2>6 DEF CountedInv
  <1>7. CASE \/ ThreadStart
             \/ \E t \in Ids : ChildStart(t) \/ \E s \in Stores : Write(t, s)
             \/ \E c \in Conds, woken \in SUBSET Ids : WakeUnseen(c, woken)
             \/ UNCHANGED vars
    <2>1. /\ createmap' = createmap /\ signalmap' = signalmap /\ condmap' = condmap
          /\ joinmap' = joinmap /\ made' = made
      BY <1>7 DEF ThreadStart, ChildStart, Write, WakeUnseen, vars
    <2> QED
      BY <1>1, <2>1 DEF Joins
  <1> QED
    BY <1>2, <1>3, <1>4, <1>5, <1>6, <1>7 DEF Next

\* A finite history writes by finitely many instructions.
Written == {ip \in Ips : Len(globalinmap[ip]) > 0}

LEMMA NextWritten == TypeOK /\ IsFiniteSet(Written) /\ [Next]_vars => IsFiniteSet(Written)'
  <1> SUFFICES ASSUME TypeOK, IsFiniteSet(Written), [Next]_vars PROVE IsFiniteSet(Written')
    OBVIOUS
  <1>1. CASE globalinmap' = globalinmap
    BY <1>1 DEF Written
  <1>2. ASSUME NEW t \in Ids, NEW s \in Stores, Write(t, s) PROVE IsFiniteSet(Written')
    <2>1. Written' \in SUBSET (Written \cup {s.ip})
      BY <1>2 DEF Written, Write, TypeOK
    <2>2. IsFiniteSet(Written \cup {s.ip})
      BY FS_AddElement
    <2> QED
      BY <2>1, <2>2, FS_Subset
  <1>3. CASE ~\E t \in Ids, s \in Stores : Write(t, s)
    BY <1>1, <1>3
    DEF Next, vars, ThreadStart, Create, ChildStart, Join, ThreadFini, CondWait, CondSignal,
        WakeUnseen
  <1> QED
    BY <1>2, <1>3

LEMMA IdsFinite == IsFiniteSet(Ids)
  BY FS_Interval, ThreadModelAssumption DEF Ids

\* A column whose entries are features of v adds up to v, in hundredths.
LEMMA ColumnTotal ==
  ASSUME TypeOK, ListedInv, ~reused, NEW col, NEW v,
         \A t \in Ids : v[t] \in Nat /\ Row(t)[col] = Feature(v[t], 15),
         \A t \in Ids : v[t] # 0 => Listed(t)
  PROVE  Total(col) = 100 * SumFunctionOnSet(v, Ids)
  <1> DEFINE J == 1..Len(thlist)
             per == [j \in J |-> v[thlist[j]]]
             shown == [j \in DOMAIN Rows |-> IF Rows[j][col] = 15 THEN 0 ELSE Rows[j][col]]
  <1>1. Len(thlist) \in Nat /\ \A j \in J : thlist[j] \in Ids
    BY DEF TypeOK
  <1>2. IsFiniteSet(J)
    BY <1>1, FS_Interval
  <1>3. DOMAIN Rows = J /\ \A j \in J : Rows[j][col] = Feature(v[thlist[j]], 15)
    BY <1>1 DEF Rows
  <1>4. ASSUME NEW j \in J PROVE per[j] \in Nat /\ shown[j] = 100 * per[j]
    <2> DEFINE count == v[thlist[j]]
    <2>1. count \in Nat
      BY <1>1
    <2>2. Rows[j][col] = Feature(count, 15) /\ per[j] = count
      BY <1>3
    <2>3. shown[j] = IF Rows[j][col] = 15 THEN 0 ELSE Rows[j][col]
      BY <1>3
    <2> HIDE DEF count, shown
    <2> QED
      BY <2>1, <2>2, <2>3 DEF Feature
  <1>5. SumFunctionOnSet(shown, J) = 100 * SumFunctionOnSet(per, J)
    <2> HIDE DEF J, per, shown
    <2> QED
      BY <1>2, <1>4, SumScaled
  <1>6. SumFunctionOnSet(per, J) = SumFunctionOnSet(v, Ids)
    <2>1. \A j \in J : thlist[j] \in Ids /\ per[j] = v[thlist[j]]
      BY <1>1
    <2>2. \A j, k \in J : thlist[j] = thlist[k] => j = k
      BY DEF ListedInv
    <2>3. \A t \in Ids : v[t] # 0 => \E j \in J : thlist[j] = t
      BY DEF Listed
    <2>4. \A t \in Ids : v[t] \in Nat
      OBVIOUS
    <2> HIDE DEF J, per
    <2> QED
      BY ONLY <1>2, <2>1, <2>2, <2>3, <2>4, IdsFinite, SumReindexed
  <1>7. Total(col) = SumFunctionOnSet(shown, J)
    BY <1>3 DEF Total, SumFunction
  <1> QED
    BY <1>5, <1>6, <1>7

\* The columns of calls.
LEMMA CallTotals ==
  ASSUME TypeOK, ListedInv, CountedInv, ~reused, NEW call \in Calls
  PROVE  /\ Total(call) = 100 * SumFunctionOnSet(made[call], Ids)
         /\ SumFunctionOnSet(made[call], Ids) \in Nat
         /\ SumFunction(made[call]) = SumFunctionOnSet(made[call], Ids)
  <1> DEFINE v == made[call]
  <1>1. DOMAIN v = Ids /\ \A t \in Ids : v[t] \in Nat
    BY DEF TypeOK
  <1>2. \A t \in Ids : v[t] # 0 => Listed(t)
    BY <1>1 DEF ListedInv
  <1>3. ASSUME NEW t \in Ids PROVE Row(t)[call] = Feature(v[t], 15)
    <2>1. /\ LenOf(createmap, t) = made["create"][t]
          /\ LenOf(signalmap, t) = made["signal"][t]
          /\ LenOf(condmap, t) = made["wait"][t]
          /\ (IF t \in DOMAIN joinmap THEN joinmap[t].join ELSE 0) = made["join"][t]
      BY DEF CountedInv, Joins
    <2> QED
      BY <2>1 DEF Row, Calls
  <1>4. SumFunction(v) = SumFunctionOnSet(v, Ids)
    BY <1>1 DEF SumFunction
  <1> HIDE DEF v
  <1>5. Total(call) = 100 * SumFunctionOnSet(v, Ids)
    BY <1>1, <1>2, <1>3, ColumnTotal
  <1>6. SumFunctionOnSet(v, Ids) \in Nat
    BY <1>1, IdsFinite, SumType
  <1> QED
    BY <1>4, <1>5, <1>6 DEF v

\* The writes of an id to what is in glist, by instruction.
UpdatesBy(t) == [ip \in glist |-> Cardinality({i \in DOMAIN globalinmap[ip] : globalinmap[ip][i] = t})]

\* glist is finite, and what is in it was written to.
LEMMA GlistFinite ==
  ASSUME TypeOK, IsFiniteSet(Written)
  PROVE  /\ IsFiniteSet(glist)
         /\ \A ip \in glist : /\ ip \in Ips
                              /\ IsFiniteSet(DOMAIN globalinmap[ip])
                              /\ Cardinality(DOMAIN globalinmap[ip]) = Len(globalinmap[ip])
                              /\ Len(globalinmap[ip]) \in Nat \ {0}
                              /\ \A i \in DOMAIN globalinmap[ip] : globalinmap[ip][i] \in Ids
  <1>1. ASSUME NEW ip \in glist
        PROVE  /\ ip \in Ips
               /\ IsFiniteSet(DOMAIN globalinmap[ip])
               /\ Cardinality(DOMAIN globalinmap[ip]) = Len(globalinmap[ip])
               /\ Len(globalinmap[ip]) \in Nat \ {0}
               /\ \A i \in DOMAIN globalinmap[ip] : globalinmap[ip][i] \in Ids
    <2>1. ip \in Ips /\ \E i \in 1..(Len(globalinmap[ip]) - 1) : TRUE
      BY DEF glist
    <2>2. globalinmap[ip] \in Seq(Ids)
      BY <2>1 DEF TypeOK
    <2>3. /\ Len(globalinmap[ip]) \in Nat /\ DOMAIN globalinmap[ip] = 1..Len(globalinmap[ip])
          /\ \A i \in DOMAIN globalinmap[ip] : globalinmap[ip][i] \in Ids
      BY <2>2
    <2>4. IsFiniteSet(1..Len(globalinmap[ip]))
          /\ Cardinality(1..Len(globalinmap[ip])) = Len(globalinmap[ip])
      BY <2>1, <2>3, FS_Interval
    <2> QED
      BY <2>1, <2>3, <2>4
  <1>2. glist \in SUBSET Written
    BY <1>1 DEF Written
  <1> QED
    BY <1>1, <1>2, FS_Subset

\* The column of the updates of shared variables.
LEMMA GlobalTotal ==
  ASSUME TypeOK, ListedInv, IsFiniteSet(Written), ~reused
  PROVE  /\ Total("global") = 100 * SumFunction([ip \in glist |-> Len(globalinmap[ip])])
         /\ TotalGlobals = 15 <=> Total("global") = 0
  <1> DEFINE v == [t \in Ids |-> GlobalUpdates(t)]
             a == [t \in Ids |-> UpdatesBy(t)]
             b == [ip \in glist |-> [t \in Ids |-> UpdatesBy(t)[ip]]]
             lens == [ip \in glist |-> Len(globalinmap[ip])]
             At(ip, t) == {i \in DOMAIN globalinmap[ip] : globalinmap[ip][i] = t}
  <1>1. IsFiniteSet(glist)
    BY GlistFinite
  <1>2. ASSUME NEW ip \in glist, NEW t \in Ids
        PROVE  /\ IsFiniteSet(At(ip, t)) /\ UpdatesBy(t)[ip] = Cardinality(At(ip, t))
               /\ UpdatesBy(t)[ip] \in Nat
    <2>1. IsFiniteSet(DOMAIN globalinmap[ip]) /\ At(ip, t) \in SUBSET DOMAIN globalinmap[ip]
      BY GlistFinite
    <2>2. IsFiniteSet(At(ip, t))
      BY <2>1, FS_Subset
    <2>3. Cardinality(At(ip, t)) \in Nat
      BY <2>2, FS_CardinalityType
    <2> QED
      BY <2>2, <2>3 DEF UpdatesBy
  <1>3. ASSUME NEW t \in Ids
        PROVE  GlobalUpdates(t) = SumFunctionOnSet(UpdatesBy(t), glist)
    BY DEF GlobalUpdates, UpdatesBy, SumFunction
  <1>4. ASSUME NEW t \in Ids PROVE v[t] \in Nat /\ (v[t] # 0 => Listed(t))
    <2> DEFINE f == UpdatesBy(t)
    <2>1. \A ip \in glist : f[ip] \in Nat
      BY <1>2
    <2>2. v[t] = SumFunctionOnSet(f, glist)
      BY <1>3
    <2>3. ASSUME NEW ip \in glist, f[ip] # 0 PROVE Listed(t)
      <3>1. At(ip, t) # {}
        BY <1>2, <2>3, FS_EmptySet
      <3>2. PICK i \in DOMAIN globalinmap[ip] : globalinmap[ip][i] = t
        BY <3>1
      <3>3. ip \in Ips /\ DOMAIN globalinmap[ip] = 1..Len(globalinmap[ip])
        BY GlistFinite DEF TypeOK
      <3> QED
        BY <3>2, <3>3 DEF ListedInv
    <2> HIDE DEF f, v, At
    <2>4. SumFunctionOnSet(f, glist) \in Nat
      BY <1>1, <2>1, SumType
    <2>5. SumFunctionOnSet(f, glist) # 0 => \E ip \in glist : f[ip] # 0
      BY ONLY <1>1, <2>1, SumIsZero
    <2> QED
      BY <2>2, <2>3, <2>4, <2>5
  <1>5. ASSUME NEW t \in Ids PROVE Row(t)["global"] = Feature(v[t], 15)
    BY DEF Row
  <1>6. Total("global") = 100 * SumFunctionOnSet(v, Ids)
    <2> HIDE DEF v
    <2> QED
      BY <1>4, <1>5, ColumnTotal
  <1>7. SumFunctionOnSet(v, Ids) = SumFunctionOnSet(lens, glist)
    <2>1. ASSUME NEW t \in Ids, NEW ip \in glist
          PROVE  a[t][ip] \in Nat /\ b[ip][t] = a[t][ip]
      BY <1>2
    <2>2. ASSUME NEW t \in Ids PROVE v[t] = SumFunctionOnSet(a[t], glist)
      BY <1>3
    <2>3. ASSUME NEW ip \in glist PROVE lens[ip] = SumFunctionOnSet(b[ip], Ids)
      <3> DEFINE D == DOMAIN globalinmap[ip]
                 s == globalinmap[ip]
                 count == b[ip]
      <3>1. IsFiniteSet(D) /\ Cardinality(D) = lens[ip] /\ \A i \in D : s[i] \in Ids
        BY GlistFinite
      <3>2. CountsOf(count, s, D, Ids)
        BY <3>1 DEF UpdatesBy, CountsOf
      <3> HIDE DEF D, s, count, lens, b
      <3>3. SumFunctionOnSet(count, Ids) = Cardinality(D)
        BY ONLY <3>1, <3>2, IdsFinite, CountedByValue
      <3> QED
        BY <3>1, <3>3 DEF count
    <2> HIDE DEF a, b, v, lens
    <2>4. Tables(a, b, Ids, glist, v, lens)
      BY <2>1, <2>2, <2>3 DEF Tables
    <2> QED
      BY <1>1, <2>4, IdsFinite, SumSwapped
  <1>8. Total("global") = 100 * SumFunctionOnSet(lens, glist)
    BY <1>6, <1>7
  <1>9. SumFunction(lens) = SumFunctionOnSet(lens, glist)
    BY DEF SumFunction
  <1>10. \A ip \in glist : lens[ip] \in Nat \ {0}
    BY GlistFinite
  <1> HIDE DEF lens, v, a, b, At
  <1>11. /\ SumFunctionOnSet(lens, glist) \in Nat
         /\ SumFunctionOnSet(lens, glist) = 0 <=> glist = {}
    <2>1. \A ip \in glist : lens[ip] \in Nat
      BY <1>10
    <2>2. SumFunctionOnSet(lens, glist) = 0 <=> \A ip \in glist : lens[ip] = 0
      BY ONLY <1>1, <2>1, SumIsZero
    <2> QED
      BY <1>1, <1>10, <2>1, <2>2, SumType
  <1>12. Cardinality(glist) \in Nat /\ (Cardinality(glist) = 0 <=> glist = {})
    BY <1>1, FS_CardinalityType, FS_EmptySet
  <1>13. TotalGlobals = 15 <=> glist = {}
    BY <1>12 DEF TotalGlobals, Feature
  <1>14. Total("global") = 100 * SumFunction([ip \in glist |-> Len(globalinmap[ip])])
    BY <1>8, <1>9 DEF lens
  <1> QED
    BY <1>8, <1>11, <1>13, <1>14

\* The column that has the creations of all threads in every row.
LEMMA CreateTotal ==
  ASSUME TypeOK, ListedInv, CountedInv, ~reused
  PROVE  TotalCreate = IF Total("create") = 0 THEN 35 ELSE Total("create")
  <1> DEFINE v == made["create"]
             lens == [t \in DOMAIN createmap |-> Len(createmap[t])]
  <1>1. "create" \in Calls
    BY DEF Calls
  <1>2. Total("create") = 100 * SumFunctionOnSet(v, Ids) /\ SumFunctionOnSet(v, Ids) \in Nat
    BY <1>1, CallTotals
  <1>3. /\ DOMAIN createmap \in SUBSET Ids
        /\ \A t \in Ids : v[t] \in Nat
        /\ \A t \in Ids \ DOMAIN createmap : v[t] = 0
        /\ \A t \in DOMAIN createmap : v[t] \in Nat /\ lens[t] = v[t]
    BY <1>1 DEF TypeOK, CountedInv, LenOf
  <1>4. TotalCreate = Feature(SumFunctionOnSet(lens, DOMAIN createmap), 35)
    BY DEF TotalCreate, SumFunction
  <1> HIDE DEF v, lens
  <1>5. SumFunctionOnSet(v, Ids) = SumFunctionOnSet(v, DOMAIN createmap)
    BY ONLY <1>3, IdsFinite, SumZeros
  <1>6. IsFiniteSet(DOMAIN createmap)
    BY <1>3, IdsFinite, FS_Subset
  <1>7. SumFunctionOnSet(lens, DOMAIN createmap) = SumFunctionOnSet(v, DOMAIN createmap)
    BY ONLY <1>3, <1>6, SumEqual
  <1> QED
    BY <1>2, <1>4, <1>5, <1>7 DEF Feature

\* The rows of dataarray account for every call and every update of a shared
\* variable exactly once, and agree with the totals, as long as no id is used
\* again and the array holds them, for every number of threads and
\* instructions.
THEOREM RowsAccountForCalls == Spec => []RowsAddUp
  <1>1. Init => ListedInv /\ CountedInv /\ IsFiniteSet(Written)
    <2> SUFFICES ASSUME Init PROVE ListedInv /\ CountedInv /\ IsFiniteSet(Written)
      OBVIOUS
    <2>1. /\ thlist = <<0>> /\ DOMAIN alive = {0}
          /\ made = [call \in Calls |-> [t \in Ids |-> 0]]
          /\ \A ip \in Ips : Len(globalinmap[ip]) = 0
      BY DEF Init
    <2>2. Len(thlist) = 1 /\ thlist[1] = 0
      BY <2>1
    <2>3. ListedInv
      BY <2>1, <2>2 DEF ListedInv, Listed
    <2>4. /\ DOMAIN createmap = {} /\ DOMAIN signalmap = {} /\ DOMAIN condmap = {}
          /\ DOMAIN joinmap = {}
      BY DEF Init, None
    <2>5. CountedInv
      BY <2>1, <2>4 DEF CountedInv, LenOf, Joins, Calls
    <2>6. Written = {}
      BY <2>1 DEF Written
    <2> QED
      BY <2>3, <2>5, <2>6, FS_EmptySet
  <1>2. TypeOK /\ ListedInv /\ CountedInv /\ IsFiniteSet(Written) => RowsAddUp
    BY CallTotals, GlobalTotal, CreateTotal DEF RowsAddUp
  <1> QED
    BY <1>1, <1>2, NextListed, NextCounted, NextWritten, TypeCorrect, PTL DEF Spec

=============================================================================
