-------------------------- MODULE StoreForwardProofs --------------------------
(***************************************************************************)
(* Proofs about StoreForward for every set of messages, quota and bound on  *)
(* copies.                                                                 *)
(***************************************************************************)
EXTENDS StoreForward, SequenceTheorems, TLAPS

\* The store after n copies of m were pushed: a sequence of messages within the
\* quota, each of which the store had or is m.
LEMMA NewestFacts ==
    ASSUME StoreAssumption, NEW s \in Seq(Messages)
    PROVE  /\ Newest(s) \in Seq(Messages)
           /\ Len(Newest(s)) <= Quota
           /\ \E k \in Nat : \A i \in DOMAIN Newest(s) :
                 i + k \in DOMAIN s /\ Newest(s)[i] = s[i + k]
<1> USE DEF StoreAssumption
<1>1. CASE Len(s) <= Quota
  <2>1. Newest(s) = s
    BY <1>1 DEF Newest
  <2>2. 0 \in Nat /\ \A i \in DOMAIN s : i + 0 \in DOMAIN s /\ s[i] = s[i + 0]
    OBVIOUS
  <2>3. QED
    BY <1>1, <2>1, <2>2
<1>2. CASE Len(s) > Quota
  <2> DEFINE k == Len(s) - Quota
  <2>1. k \in Nat /\ Newest(s) = SubSeq(s, k + 1, Len(s))
    BY <1>2 DEF Newest
  <2>2. \A i \in k + 1 .. Len(s) : s[i] \in Messages
    BY <2>1
  <2>3. /\ SubSeq(s, k + 1, Len(s)) \in Seq(Messages)
        /\ Len(SubSeq(s, k + 1, Len(s))) = Quota
        /\ \A i \in 1 .. Quota : SubSeq(s, k + 1, Len(s))[i] = s[k + i]
    <3>1. k + 1 \in Int /\ Len(s) \in Int /\ Len(s) - (k + 1) + 1 = Quota /\ k + 1 <= Len(s)
      BY <2>1
    <3> HIDE DEF k
    <3>2. QED
      BY <2>1, <2>2, <3>1, SubSeqProperties
  <2>4. DOMAIN Newest(s) = 1 .. Quota
    BY <2>1, <2>3
  <2>5. \A i \in 1 .. Quota : i + k \in DOMAIN s /\ Newest(s)[i] = s[i + k]
    BY <1>2, <2>1, <2>3
  <2>6. Newest(s) \in Seq(Messages) /\ Len(Newest(s)) <= Quota
    BY <2>1, <2>3
  <2> HIDE DEF k
  <2>7. QED
    BY <2>1, <2>4, <2>5, <2>6
<1>3. QED
  BY <1>1, <1>2

LEMMA OverfullFacts ==
    ASSUME TypeOK, NEW m \in Messages, NEW n \in Nat
    PROVE  /\ Overfull(m, n) \in Seq(Messages)
           /\ Len(Overfull(m, n)) = Len(store) + n
           /\ \A i \in 1 .. Len(store) : Overfull(m, n)[i] = store[i]
           /\ \A i \in Len(store) + 1 .. Len(store) + n : Overfull(m, n)[i] = m
<1>1. Copies(m, n) \in Seq(Messages) /\ Len(Copies(m, n)) = n
      /\ \A i \in 1 .. n : Copies(m, n)[i] = m
  BY DEF Copies
<1>2. store \in Seq(Messages)
  BY DEF TypeOK
<1>3. /\ store \o Copies(m, n) \in Seq(Messages)
      /\ Len(store \o Copies(m, n)) = Len(store) + n
      /\ \A i \in 1 .. Len(store) + n : (store \o Copies(m, n))[i]
            = IF i <= Len(store) THEN store[i] ELSE Copies(m, n)[i - Len(store)]
  BY <1>1, <1>2, ConcatProperties
<1>4. Len(store) \in Nat
  BY <1>2
<1>5. \A i \in Len(store) + 1 .. Len(store) + n : i - Len(store) \in 1 .. n /\ ~(i <= Len(store))
  BY <1>4
<1>6. QED
  BY <1>1, <1>3, <1>4, <1>5 DEF Overfull

-----------------------------------------------------------------------------
(* Types *)

LEMMA TypeInit == ASSUME StoreAssumption PROVE Init => TypeOK
<1> SUFFICES ASSUME Init PROVE TypeOK
  OBVIOUS
<1>1. store \in Seq(Messages) /\ Len(store) <= Quota
  BY DEF Init, StoreAssumption
<1>2. sent \in [Messages -> 0 .. MaxCopies] /\ doubt = sent
      /\ \A m \in Messages : doubt[m] <= sent[m]
  BY DEF Init, StoreAssumption
<1>3. enabled \in BOOLEAN /\ noticed \in BOOLEAN /\ running \in BOOLEAN
  BY DEF Init
<1>4. QED
  BY <1>1, <1>2, <1>3 DEF Init, TypeOK, Links

LEMMA SubmitTypes ==
    ASSUME StoreAssumption, TypeOK, NEW m \in Messages, SubmitTo(m)
    PROVE  /\ sent' \in [Messages -> 0 .. MaxCopies] /\ overlapped' \in BOOLEAN
           /\ doubt' \in [Messages -> 0 .. MaxCopies]
           /\ \A n \in Messages : doubt'[n] <= sent'[n]
<1>1. sent[m] + 1 \in 0 .. MaxCopies /\ doubt[m] + 1 <= sent[m] + 1 /\ doubt[m] + 1 \in 0 .. MaxCopies
      /\ doubt[m] <= sent[m] + 1
  BY DEF TypeOK, SubmitTo, StoreAssumption
<1>2. overlapped' \in BOOLEAN
  BY DEF SubmitTo, Idle
<1>3. QED
  BY <1>1, <1>2 DEF TypeOK, SubmitTo

LEMMA AnswerTypes ==
    ASSUME StoreAssumption, TypeOK, NEW m \in Messages, Answered(m)
    PROVE  sent[m] - 1 \in 0 .. MaxCopies /\ sent' \in [Messages -> 0 .. MaxCopies]
           /\ sent' = [sent EXCEPT ![m] = @ - 1]
  BY DEF TypeOK, Answered, StoreAssumption

LEMMA TypeStep ==
    ASSUME StoreAssumption, TypeOK, [Next]_vars
    PROVE  TypeOK'
<1>1. ASSUME NEW m \in Messages, Publish(m)
      PROVE  TypeOK'
  <2>1. SubmitTo(m)
    BY <1>1 DEF Publish
  <2>2. QED
    BY <1>1, <2>1, SubmitTypes DEF Publish, NewCallbacks, TypeOK
<1>2. ASSUME NEW m \in Messages, AnsweredSuccess(m)
      PROVE  TypeOK'
  <2>1. Answered(m)
    BY <1>2 DEF AnsweredSuccess
  <2>2. doubt' \in [Messages -> 0 .. MaxCopies] /\ \A n \in Messages : doubt'[n] <= sent'[n]
    BY <1>2, <2>1, AnswerTypes DEF AnsweredSuccess, TypeOK, StoreAssumption
  <2>3. QED
    BY <1>2, <2>1, <2>2, AnswerTypes DEF AnsweredSuccess, Answered, PendingAfter, TypeOK
<1>3. ASSUME NEW m \in Messages, AnsweredFailure(m)
      PROVE  TypeOK'
  <2>1. Answered(m)
    BY <1>3 DEF AnsweredFailure
  <2>2. doubt' \in [Messages -> 0 .. MaxCopies] /\ \A n \in Messages : doubt'[n] <= sent'[n]
    BY <1>3, <2>1, AnswerTypes DEF AnsweredFailure, TypeOK, StoreAssumption
  <2>3. pending \in Nat /\ Overfull(m, pending) \in Seq(Messages)
    BY OverfullFacts DEF TypeOK
  <2>4. store' \in Seq(Messages) /\ Len(store') <= Quota
    BY <1>3, <2>3, NewestFacts DEF AnsweredFailure, TypeOK
  <2>5. InStore(Overfull(m, pending)) \subseteq Messages
    BY <2>3 DEF InStore
  <2>6. excused' \subseteq Messages /\ received' \subseteq Messages
    BY <1>3, <2>5 DEF AnsweredFailure, TypeOK
  <2>7. QED
    BY <1>3, <2>1, <2>2, <2>4, <2>6, AnswerTypes
       DEF AnsweredFailure, Answered, PendingAfter, TypeOK
<1>4. CASE Tick
  <2>1. Applied.store \in {store, <<>>} /\ Applied.running \in BOOLEAN
    BY DEF Applied, TypeOK
  <2>2. excused' \subseteq Messages
    BY <1>4 DEF Tick, TypeOK, InStore
  <2>3. CASE UNCHANGED <<pending, sent, overlapped, doubt>> /\ store' = Applied.store
    <3>1. <<>> \in Seq(Messages) /\ Len(<<>>) <= Quota
      BY DEF StoreAssumption
    <3>2. Applied.store \in Seq(Messages) /\ Len(Applied.store) <= Quota
      BY <2>1, <3>1 DEF TypeOK
    <3>3. QED
      BY <1>4, <2>1, <2>2, <2>3, <3>2 DEF Tick, TypeOK
  <2>4. CASE /\ Applied.store # <<>> /\ SubmitTo(Head(Applied.store))
             /\ store' = Rest(Applied.store) /\ pending' = ResendCallbacks
    <3>1. Applied.store = store /\ store # <<>>
      BY <2>1, <2>4
    <3>2. Head(store) \in Messages /\ Tail(store) \in Seq(Messages) /\ Len(Tail(store)) <= Quota
      BY <3>1, HeadTailProperties DEF TypeOK, StoreAssumption
    <3>3. SubmitTo(Head(store)) /\ store' = Tail(store)
      BY <2>4, <3>1 DEF Rest
    <3>4. QED
      BY <1>4, <2>1, <2>2, <2>4, <3>2, <3>3, SubmitTypes, SMTT(30) DEF Tick, TypeOK, ResendCallbacks
  <2>5. QED
    BY <1>4, <2>3, <2>4 DEF Tick
<1>5. CASE LinkChange
  BY <1>5 DEF LinkChange, TypeOK
<1>6. CASE SetEnabled
  BY <1>6 DEF SetEnabled, TypeOK
<1>7. CASE Reboot
  BY <1>7 DEF Reboot, TypeOK, Links, StoreAssumption
<1>8. CASE UNCHANGED vars
  BY <1>8 DEF vars, TypeOK
<1>9. QED
  BY <1>1, <1>2, <1>3, <1>4, <1>5, <1>6, <1>7, <1>8 DEF Next

(* Type invariant; in particular the store never exceeds its quota. *)
THEOREM TypeCorrect == Spec => []TypeOK
<1>1. Init => TypeOK
  BY StoreAssumption, TypeInit
<1>2. TypeOK /\ [Next]_vars => TypeOK'
  BY StoreAssumption, TypeStep
<1>3. QED
  BY <1>1, <1>2, PTL DEF Spec

-----------------------------------------------------------------------------
(* No callback is left over: inductive with the types alone, because every   *)
(* answer clears the list that every send fills.                            *)

LEMMA StaleStep ==
    ASSUME TypeOK, NoStaleCallback, [Next]_vars
    PROVE  NoStaleCallback'
<1>1. ASSUME NEW m \in Messages, SubmitTo(m)
      PROVE  ~Idle'
  <2>1. sent'[m] = sent[m] + 1 /\ sent[m] \in Nat
    BY <1>1 DEF SubmitTo, TypeOK
  <2>2. QED
    BY <2>1 DEF Idle
<1>2. ASSUME NEW m \in Messages, Publish(m) \/ AnsweredSuccess(m) \/ AnsweredFailure(m)
      PROVE  NoStaleCallback'
  BY <1>1, <1>2 DEF Publish, AnsweredSuccess, AnsweredFailure, Answered, PendingAfter,
                    NoStaleCallback
<1>3. CASE Tick
  <2>1. CASE UNCHANGED <<pending, sent>>
    BY <2>1 DEF NoStaleCallback, Idle
  <2>2. CASE Applied.store # <<>> /\ SubmitTo(Head(Applied.store))
    <3>1. Applied.store = store
      BY <2>2 DEF Applied
    <3>2. Head(Applied.store) \in Messages
      BY <2>2, <3>1, HeadTailProperties DEF TypeOK
    <3>3. QED
      BY <1>1, <2>2, <3>2 DEF NoStaleCallback
  <2>3. QED
    BY <1>3, <2>1, <2>2 DEF Tick
<1>4. CASE LinkChange \/ SetEnabled \/ Reboot \/ UNCHANGED vars
  BY <1>4 DEF LinkChange, SetEnabled, Reboot, vars, NoStaleCallback, Idle
<1>5. QED
  BY <1>2, <1>3, <1>4 DEF Next

(* When no send waits, no callback does: none is run by a later message's   *)
(* answer, for any number of publishes that overlap.                        *)
THEOREM StaleFree == Spec => []NoStaleCallback
<1>1. Init => NoStaleCallback
  BY DEF Init, NoStaleCallback
<1>2. TypeOK /\ NoStaleCallback /\ [Next]_vars => NoStaleCallback'
  BY StaleStep
<1>3. QED
  BY TypeCorrect, <1>1, <1>2, PTL DEF Spec

-----------------------------------------------------------------------------
(* One publish at a time: a message is in the store once, or under way once, *)
(* and then its callback is the only one in the list, so that a failure      *)
(* puts it back.                                                            *)

OneWaits == \A m, n \in Messages : sent[m] > 0 /\ sent[n] > 0 => m = n
ItsCallback == \A m \in Messages : sent[m] > 0 => sent[m] = 1 /\ pending = 1
Distinct(s) == \A i, j \in DOMAIN s : s[i] = s[j] => i = j
NotInStore == \A m \in Messages : sent[m] > 0 => m \notin InStore(store)
OnlyMade == \A m \in Messages : sent[m] > 0 \/ m \in InStore(store) => m \in made

Alone ==
    ~overlapped =>
      OneWaits /\ ItsCallback /\ Distinct(store) /\ NotInStore /\ OnlyMade /\ Kept

\* A send that does not overlap another.
LEMMA SubmitAlone ==
    ASSUME TypeOK, NoStaleCallback, NEW m \in Messages, SubmitTo(m), ~overlapped'
    PROVE  /\ ~overlapped /\ Idle /\ pending = 0
           /\ sent'[m] = 1 /\ \A n \in Messages \ {m} : sent'[n] = 0
<1>1. ~overlapped /\ Idle
  BY DEF SubmitTo
<1>2. sent' = [sent EXCEPT ![m] = 1]
  <2>1. sent[m] + 1 = 1 /\ sent' = [sent EXCEPT ![m] = sent[m] + 1]
    BY <1>1 DEF SubmitTo, Idle
  <2>2. QED
    BY <2>1
<1>3. QED
  BY <1>1, <1>2 DEF Idle, TypeOK, NoStaleCallback

\* What one failure does to a store that does not hold m.
LEMMA PutBack ==
    ASSUME StoreAssumption, TypeOK, NEW m \in Messages, pending = 1,
           Distinct(store), m \notin InStore(store)
    PROVE  /\ Distinct(Newest(Overfull(m, pending)))
           /\ InStore(Newest(Overfull(m, pending))) \subseteq InStore(store) \cup {m}
           /\ InStore(store) \cup {m} \subseteq InStore(Overfull(m, pending))
<1> DEFINE o == Overfull(m, pending)
<1>1. /\ o \in Seq(Messages) /\ Len(o) = Len(store) + 1
      /\ \A i \in 1 .. Len(store) : o[i] = store[i]
      /\ o[Len(store) + 1] = m
  <2>1. 1 \in Nat /\ Len(store) \in Nat
    BY DEF TypeOK
  <2>2. Len(store) + 1 \in Len(store) + 1 .. Len(store) + 1
    BY <2>1
  <2>3. /\ Overfull(m, 1) \in Seq(Messages)
        /\ Len(Overfull(m, 1)) = Len(store) + 1
        /\ \A i \in 1 .. Len(store) : Overfull(m, 1)[i] = store[i]
        /\ \A i \in Len(store) + 1 .. Len(store) + 1 : Overfull(m, 1)[i] = m
    BY <2>1, OverfullFacts
  <2>4. QED
    BY <2>2, <2>3
<1> HIDE DEF o
<1>2. DOMAIN store = 1 .. Len(store) /\ DOMAIN o = 1 .. Len(store) + 1 /\ Len(store) \in Nat
  BY <1>1 DEF TypeOK
<1>3. Distinct(o)
  BY <1>1, <1>2 DEF Distinct, InStore
<1>4. InStore(o) = InStore(store) \cup {m}
  BY <1>1, <1>2 DEF InStore
<1>5. PICK k \in Nat : \A i \in DOMAIN Newest(o) : i + k \in DOMAIN o /\ Newest(o)[i] = o[i + k]
  BY <1>1, NewestFacts
<1>6. Newest(o) \in Seq(Messages)
  BY <1>1, NewestFacts
<1>7. DOMAIN Newest(o) \subseteq Nat
  BY <1>6
<1>8. Distinct(Newest(o))
  BY <1>3, <1>5, <1>7 DEF Distinct
<1>9. InStore(Newest(o)) \subseteq InStore(o)
  BY <1>5 DEF InStore
<1>10. QED
  BY <1>4, <1>8, <1>9 DEF o

LEMMA AloneStep ==
    ASSUME StoreAssumption, TypeOK, NoStaleCallback, Alone, [Next]_vars
    PROVE  Alone'
<1> SUFFICES ASSUME ~overlapped'
             PROVE  (OneWaits /\ ItsCallback /\ Distinct(store) /\ NotInStore /\ OnlyMade /\ Kept)'
  BY DEF Alone
<1>1. ASSUME NEW m \in Messages, Publish(m)
      PROVE  (OneWaits /\ ItsCallback /\ Distinct(store) /\ NotInStore /\ OnlyMade /\ Kept)'
  <2>1. /\ ~overlapped /\ Idle /\ sent'[m] = 1 /\ \A n \in Messages \ {m} : sent'[n] = 0
    BY <1>1, SubmitAlone DEF Publish
  <2>2. Distinct(store) /\ NotInStore /\ OnlyMade /\ Kept
    BY <2>1 DEF Alone
  <2>3. m \notin InStore(store) /\ pending' = 1 /\ store' = store /\ made' = made \cup {m}
        /\ received' = received /\ excused' = excused
    BY <1>1, <2>2 DEF Publish, OnlyMade, NewCallbacks
  <2>4. (OneWaits /\ ItsCallback /\ NotInStore /\ OnlyMade)'
    BY <2>1, <2>2, <2>3 DEF OneWaits, ItsCallback, NotInStore, OnlyMade
  <2>5. Kept'
    BY <2>1, <2>2, <2>3 DEF Kept, Idle, TypeOK
  <2>6. QED
    BY <2>2, <2>3, <2>4, <2>5
<1>2. ASSUME NEW m \in Messages, Answered(m)
      PROVE  /\ ~overlapped /\ pending = 1 /\ \A n \in Messages : sent'[n] = 0
             /\ OneWaits' /\ ItsCallback' /\ NotInStore'
             /\ OneWaits /\ ItsCallback /\ Distinct(store) /\ NotInStore /\ OnlyMade /\ Kept
  <2>1. ~overlapped /\ sent[m] > 0 /\ sent' = [sent EXCEPT ![m] = @ - 1]
    BY <1>2 DEF Answered
  <2>2. OneWaits /\ ItsCallback /\ Distinct(store) /\ NotInStore /\ OnlyMade /\ Kept
    BY <2>1 DEF Alone
  <2>3. pending = 1 /\ sent[m] = 1 /\ \A n \in Messages : n # m => sent[n] = 0
    BY <2>1, <2>2 DEF OneWaits, ItsCallback, TypeOK
  <2>4. \A n \in Messages : sent'[n] = 0
    BY <2>1, <2>3 DEF TypeOK
  <2>5. QED
    BY <2>1, <2>2, <2>3, <2>4 DEF OneWaits, ItsCallback, NotInStore
<1>3. ASSUME NEW m \in Messages, AnsweredSuccess(m)
      PROVE  (OneWaits /\ ItsCallback /\ Distinct(store) /\ NotInStore /\ OnlyMade /\ Kept)'
  <2>1. Answered(m) /\ store' = store /\ received' = received \cup {m}
        /\ excused' = excused /\ made' = made
    BY <1>3 DEF AnsweredSuccess, Answered
  <2>2. OnlyMade'
    BY <1>2, <2>1 DEF OnlyMade
  <2>3. Kept'
    BY <1>2, <2>1 DEF Kept, TypeOK, OneWaits, Answered
  <2>4. QED
    BY <1>2, <2>1, <2>2, <2>3
<1>4. ASSUME NEW m \in Messages, AnsweredFailure(m)
      PROVE  (OneWaits /\ ItsCallback /\ Distinct(store) /\ NotInStore /\ OnlyMade /\ Kept)'
  <2>1. Answered(m) /\ made' = made /\ received \subseteq received'
        /\ excused \subseteq excused' /\ sent[m] > 0
    BY <1>4 DEF AnsweredFailure, Answered
  <2>2. m \notin InStore(store) /\ m \in made
    BY <1>2, <2>1 DEF NotInStore, OnlyMade
  <2>3. CASE enabled /\ running
    <3>1. store' = Newest(Overfull(m, pending))
          /\ InStore(Overfull(m, pending)) \ InStore(store') \subseteq excused'
      BY <1>4, <2>3 DEF AnsweredFailure
    <3>2. Distinct(store') /\ InStore(store') \subseteq InStore(store) \cup {m}
          /\ InStore(store) \cup {m} \subseteq InStore(Overfull(m, pending))
      BY <1>2, <2>1, <2>2, <3>1, PutBack
    <3>3. OnlyMade'
      BY <1>2, <2>1, <2>2, <3>2 DEF OnlyMade
    <3>4. Kept'
      BY <1>2, <2>1, <3>1, <3>2 DEF Kept, TypeOK, OneWaits
    <3>5. QED
      BY <1>2, <2>1, <3>2, <3>3, <3>4
  <2>4. CASE ~(enabled /\ running)
    <3>1. store' = store /\ m \in excused'
      BY <1>4, <2>4 DEF AnsweredFailure
    <3>2. OnlyMade'
      BY <1>2, <2>1, <3>1 DEF OnlyMade
    <3>3. Kept'
      BY <1>2, <2>1, <3>1 DEF Kept, TypeOK, OneWaits
    <3>4. QED
      BY <1>2, <2>1, <3>1, <3>2, <3>3
  <2>5. QED
    BY <2>3, <2>4
<1>5. CASE Tick
  <2>1. Applied.store = store \/ Applied.store = <<>>
    BY DEF Applied
  <2>2. /\ made' = made /\ received' = received
        /\ excused' = excused \cup (InStore(store) \ InStore(Applied.store))
    BY <1>5 DEF Tick
  <2>3. CASE UNCHANGED <<pending, sent, overlapped>> /\ store' = Applied.store
    <3>1. OneWaits /\ ItsCallback /\ Distinct(store) /\ NotInStore /\ OnlyMade /\ Kept
      BY <2>3 DEF Alone
    <3>2. Distinct(store') /\ InStore(store') \subseteq InStore(store)
      BY <2>1, <2>3, <3>1 DEF Distinct, InStore
    <3>3. (OneWaits /\ ItsCallback)'
      BY <2>3, <3>1 DEF OneWaits, ItsCallback
    <3>4. (NotInStore /\ OnlyMade)'
      BY <2>2, <2>3, <3>1, <3>2 DEF NotInStore, OnlyMade
    <3>5. Kept'
      BY <2>2, <2>3, <3>1 DEF Kept
    <3>6. QED
      BY <3>2, <3>3, <3>4, <3>5
  <2>4. CASE /\ Applied.store # <<>> /\ SubmitTo(Head(Applied.store))
             /\ store' = Rest(Applied.store) /\ pending' = ResendCallbacks
    <3> DEFINE m == Head(store)
    <3>1. Applied.store = store /\ store # <<>> /\ store' = Tail(store) /\ SubmitTo(m)
      BY <2>1, <2>4 DEF Rest
    <3>2. /\ m \in Messages /\ m = store[1] /\ store' \in Seq(Messages)
          /\ Len(store') = Len(store) - 1 /\ Len(store) \in Nat \ {0}
          /\ \A i \in 1 .. Len(store') : store'[i] = store[i + 1]
      BY <3>1, HeadTailProperties DEF TypeOK
    <3> HIDE DEF m
    <3>3. /\ ~overlapped /\ Idle /\ pending = 0
          /\ sent'[m] = 1 /\ \A n \in Messages \ {m} : sent'[n] = 0
      BY <3>1, <3>2, SubmitAlone
    <3>4. Distinct(store) /\ OnlyMade /\ Kept
      BY <3>3 DEF Alone
    <3>5. DOMAIN store = 1 .. Len(store) /\ DOMAIN store' = 1 .. Len(store) - 1
      BY <3>2 DEF TypeOK
    <3>6. \A i \in DOMAIN store' : i + 1 \in DOMAIN store /\ store'[i] = store[i + 1] /\ i \in Nat /\ i + 1 # 1
      BY <3>2, <3>5
    <3>7. Distinct(store') /\ m \notin InStore(store')
      BY <3>2, <3>4, <3>5, <3>6 DEF Distinct, InStore
    <3>8. InStore(store) = InStore(store') \cup {m}
      <4>1. \A i \in DOMAIN store : i = 1 \/ (i - 1 \in DOMAIN store' /\ store[i] = store'[i - 1])
        BY <3>2, <3>5
      <4>2. 1 \in DOMAIN store
        BY <3>2, <3>5
      <4>3. \A x \in InStore(store) : x = m \/ x \in InStore(store')
        BY <3>2, <4>1 DEF InStore
      <4>4. m \in InStore(store) /\ InStore(store') \subseteq InStore(store)
        BY <3>2, <3>6, <4>2 DEF InStore
      <4>5. QED
        BY <4>3, <4>4
    <3>9. (OneWaits /\ ItsCallback)'
      BY <2>4, <3>2, <3>3 DEF OneWaits, ItsCallback, ResendCallbacks
    <3>10. (NotInStore /\ OnlyMade)'
      BY <2>2, <3>2, <3>3, <3>4, <3>7, <3>8 DEF NotInStore, OnlyMade
    <3>11. Kept'
      BY <2>2, <3>1, <3>2, <3>3, <3>4, <3>8 DEF Kept, Idle, TypeOK
    <3>12. QED
      BY <3>7, <3>9, <3>10, <3>11
  <2>5. QED
    BY <1>5, <2>3, <2>4 DEF Tick
<1>6. CASE LinkChange \/ SetEnabled \/ UNCHANGED vars
  BY <1>6 DEF LinkChange, SetEnabled, vars, Alone, OneWaits, ItsCallback, Distinct, NotInStore,
              OnlyMade, Kept
<1>7. CASE Reboot
  <2>1. /\ UNCHANGED <<store, made, received, overlapped>> /\ \A m \in Messages : sent'[m] = 0
        /\ excused' = excused \cup {m \in Messages : sent[m] > 0}
    BY <1>7 DEF Reboot
  <2>2. Distinct(store) /\ OnlyMade /\ Kept
    BY <2>1 DEF Alone
  <2>3. Kept'
    BY <2>1, <2>2 DEF Kept, TypeOK
  <2>4. QED
    BY <2>1, <2>2, <2>3 DEF OneWaits, ItsCallback, NotInStore, OnlyMade
<1>8. QED
  BY <1>1, <1>3, <1>4, <1>5, <1>6, <1>7 DEF Next

LEMMA AloneAlways == Spec => []Alone
<1>1. Init => Alone
  BY DEF Init, Alone, OneWaits, ItsCallback, Distinct, NotInStore, OnlyMade, Kept, InStore
<1>2. TypeOK /\ NoStaleCallback /\ Alone /\ [Next]_vars => Alone'
  BY StoreAssumption, AloneStep
<1>3. QED
  BY TypeCorrect, StaleFree, <1>1, <1>2, PTL DEF Spec

(* As long as each publish is answered before the next begins, no location  *)
(* is lost between RAM, disk and cloud, except to the quota, to switching    *)
(* off and to reboots.                                                      *)
THEOREM NothingLostAlone == Spec => []KeptAlone
<1>1. Alone => KeptAlone
  BY DEF Alone, KeptAlone
<1>2. QED
  BY AloneAlways, <1>1, PTL

(* Nor does one get into the store or under way twice. *)
THEOREM NothingDoubledAlone == Spec => []NoCopiesAlone
<1>1. TypeOK /\ Alone => NoCopiesAlone
  <2> SUFFICES ASSUME TypeOK, Alone, ~overlapped, NEW m \in Messages
               PROVE  /\ sent[m] <= 1 /\ (sent[m] = 1 => Stored(m) = {})
                      /\ \A i, j \in Stored(m) : i = j
    BY DEF NoCopiesAlone
  <2>1. ItsCallback /\ Distinct(store) /\ NotInStore
    BY DEF Alone
  <2>2. sent[m] = 0 \/ sent[m] = 1
    BY <2>1 DEF ItsCallback, TypeOK
  <2>3. sent[m] = 1 => Stored(m) = {}
    BY <2>1 DEF NotInStore, Stored, InStore
  <2>4. QED
    BY <2>1, <2>2, <2>3 DEF Distinct, Stored
<1>2. QED
  BY TypeCorrect, AloneAlways, <1>1, PTL

(* A location is in exactly one of RAM, disk and cloud until it is given up,  *)
(* as long as each publish is answered before the next begins.             *)
THEOREM OnePlace == Spec => []OnePlaceAlone
BY NothingLostAlone, NothingDoubledAlone, PTL DEF OnePlaceAlone
=============================================================================
