----------------------------- MODULE StoreProofs -----------------------------
(***************************************************************************)
(* Proofs about the parts of Store, for every value of their constants. A  *)
(* behaviour of Store is one of the part that runs, and leaves the others  *)
(* where they start: what every step of a part keeps, Store keeps.         *)
(***************************************************************************)
EXTENDS Store, Sequences, FiniteSetTheorems, TLAPS

-----------------------------------------------------------------------------
(* KeyedLock: withKeyedLock serves the calls of each key one at a time and in  *)
(* their order, for any number of calls and keys, whatever their work does.    *)

Same(c, d) == KeyOf[c] = KeyOf[d]

(* An entry of the map: a call with that key that has not returned, and every other call with *)
(* the key whose work is not over came before it. Without an entry there is no such call.      *)
EntriesAreLast ==
  \A k \in Key :
    /\ queues[k] = None => \A d \in Call : KeyOf[d] = k => ~Unsettled(d)
    /\ queues[k] # None => /\ KeyOf[queues[k]] = k
                           /\ pc[queues[k]] \in {"waiting", "working", "settled"}
                           /\ \A d \in Call \ {queues[k]} : KeyOf[d] = k /\ Unsettled(d) => d \in ahead[queues[k]]

(* The promise a call waits for stands for all calls it found: those that are not over are the *)
(* one it names or came before that one.                                                       *)
WaitsForAll ==
  \A c \in Call : pc[c] = "waiting" =>
    /\ previous[c] = None => \A d \in ahead[c] : Settled(d)
    /\ previous[c] # None => /\ pc[previous[c]] # "idle"
                             /\ \A d \in ahead[c] : Settled(d) \/ d = previous[c] \/ d \in ahead[previous[c]]

(* A call works when everything it found is over, and it stays so. *)
NoneAhead == \A c \in Call : pc[c] = "working" \/ Settled(c) => \A d \in ahead[c] : Settled(d)

(* Of two calls with one key that are not over, one found the other. *)
Ordered == \A c, d \in Call : c # d /\ Same(c, d) /\ Unsettled(c) /\ Unsettled(d) => c \in ahead[d] \/ d \in ahead[c]

(* A call that has not come stands in nobody's way. *)
AheadHasCome == \A c \in Call : \A d \in ahead[c] : pc[d] # "idle"

IInv == TypeOK /\ EntriesAreLast /\ WaitsForAll /\ NoneAhead /\ Ordered /\ AheadHasCome

-----------------------------------------------------------------------------
(* A call that enters finds all unsettled calls with its key, and is found by none. *)
LEMMA EnterKeeps ==
  ASSUME IInv, NEW c \in Call, Enter(c)
  PROVE  IInv'
<1> DEFINE found == {d \in Call \ {c} : KeyOf[d] = KeyOf[c] /\ Unsettled(d)}
<1> USE CallAssumption, KeyAssumption
<1>1. /\ pc[c] = "idle" /\ pc' = [pc EXCEPT ![c] = "waiting"]
      /\ previous' = [previous EXCEPT ![c] = queues[KeyOf[c]]]
      /\ queues' = [queues EXCEPT ![KeyOf[c]] = c]
      /\ ahead' = [ahead EXCEPT ![c] = found]
      /\ failed' = failed
  BY DEF Enter
<1>2. TypeOK
  BY DEF IInv
<1>3. TypeOK'
  BY <1>1, <1>2 DEF TypeOK
<1>4. /\ pc'[c] = "waiting" /\ \A d \in Call \ {c} : pc'[d] = pc[d]
      /\ previous'[c] = queues[KeyOf[c]] /\ \A d \in Call \ {c} : previous'[d] = previous[d]
      /\ ahead'[c] = found /\ \A d \in Call \ {c} : ahead'[d] = ahead[d]
      /\ queues'[KeyOf[c]] = c /\ \A k \in Key \ {KeyOf[c]} : queues'[k] = queues[k]
  BY <1>1, <1>2 DEF TypeOK
<1>5. \A d \in Call \ {c} : (Unsettled(d))' = Unsettled(d) /\ (Settled(d))' = Settled(d)
  BY <1>4 DEF Unsettled, Settled
<1>6. (Unsettled(c))' /\ ~Unsettled(c) /\ ~Settled(c) /\ ~(Settled(c))'
  BY <1>1, <1>4 DEF Unsettled, Settled
<1>7. \A d \in Call : c \notin ahead[d]
  BY <1>1 DEF IInv, AheadHasCome
<1>8. EntriesAreLast'
  <2>1. SUFFICES ASSUME NEW k \in Key
                 PROVE /\ queues'[k] = None => \A d \in Call : KeyOf[d] = k => ~(Unsettled(d))'
                       /\ queues'[k] # None =>
                            /\ KeyOf[queues'[k]] = k
                            /\ pc'[queues'[k]] \in {"waiting", "working", "settled"}
                            /\ \A d \in Call \ {queues'[k]} : KeyOf[d] = k /\ (Unsettled(d))' => d \in ahead'[queues'[k]]
    BY DEF EntriesAreLast
  <2>2. CASE k = KeyOf[c]
    BY <1>4, <1>5, <2>2
  <2>3. CASE k # KeyOf[c]
    <3>1. queues'[k] = queues[k] /\ queues[k] # c /\ (queues[k] # None => queues[k] \in Call)
      BY <1>2, <1>4, <2>3 DEF IInv, EntriesAreLast, TypeOK
    <3> QED
      BY <1>4, <1>5, <2>3, <3>1 DEF IInv, EntriesAreLast
  <2> QED
    BY <2>2, <2>3
<1>9. WaitsForAll'
  <2>1. SUFFICES ASSUME NEW d \in Call, pc'[d] = "waiting"
                 PROVE /\ previous'[d] = None => \A e \in ahead'[d] : (Settled(e))'
                       /\ previous'[d] # None =>
                            /\ pc'[previous'[d]] # "idle"
                            /\ \A e \in ahead'[d] : (Settled(e))' \/ e = previous'[d] \/ e \in ahead'[previous'[d]]
    BY DEF WaitsForAll
  <2>2. CASE d = c
    <3>1. CASE queues[KeyOf[c]] = None
      BY <1>4, <2>2, <3>1 DEF IInv, EntriesAreLast
    <3>2. CASE queues[KeyOf[c]] # None
      <4> DEFINE q == queues[KeyOf[c]]
      <4>1. q \in Call /\ pc[q] \in {"waiting", "working", "settled"} /\ q # c
        BY <1>1, <1>2, <3>2 DEF IInv, EntriesAreLast, TypeOK
      <4>2. \A e \in found : e = q \/ e \in ahead[q]
        BY <3>2 DEF IInv, EntriesAreLast
      <4>3. previous'[d] = q /\ ahead'[d] = found /\ ahead'[q] = ahead[q] /\ pc'[q] = pc[q]
        BY <1>4, <2>2, <4>1
      <4> HIDE DEF q, found
      <4> QED
        BY <4>1, <4>2, <4>3
    <3> QED
      BY <3>1, <3>2
  <2>3. CASE d # c
    <3>1. pc[d] = "waiting" /\ previous'[d] = previous[d] /\ ahead'[d] = ahead[d] /\ ahead[d] \in SUBSET Call
      BY <1>2, <1>4, <2>1, <2>3 DEF TypeOK
    <3>2. \A e \in ahead[d] : (Settled(e))' = Settled(e)
      BY <1>5, <1>7, <3>1
    <3>3. previous[d] # None => previous[d] \in Call /\ previous[d] # c
      BY <1>1, <1>2, <3>1 DEF IInv, WaitsForAll, TypeOK
    <3> QED
      BY <1>4, <3>1, <3>2, <3>3 DEF IInv, WaitsForAll
  <2> QED
    BY <2>2, <2>3
<1>10. NoneAhead'
  <2>1. SUFFICES ASSUME NEW d \in Call, pc'[d] = "working" \/ (Settled(d))', NEW e \in ahead'[d] PROVE (Settled(e))'
    BY DEF NoneAhead
  <2>2. d # c /\ ahead'[d] = ahead[d] /\ e \in ahead[d] /\ e \in Call /\ e # c
    BY <1>2, <1>4, <1>6, <1>7, <2>1 DEF TypeOK
  <2>3. pc[d] = "working" \/ Settled(d)
    BY <1>4, <1>5, <2>1, <2>2
  <2> QED
    BY <1>5, <2>2, <2>3 DEF IInv, NoneAhead
<1>11. Ordered'
  <2>1. SUFFICES ASSUME NEW d \in Call, NEW e \in Call, d # e, Same(d, e), (Unsettled(d))', (Unsettled(e))'
                 PROVE d \in ahead'[e] \/ e \in ahead'[d]
    BY DEF Ordered, Same
  <2>2. CASE d = c
    BY <1>4, <1>5, <2>1, <2>2 DEF Same
  <2>3. CASE e = c
    BY <1>4, <1>5, <2>1, <2>3 DEF Same
  <2>4. CASE d # c /\ e # c
    BY <1>4, <1>5, <2>1, <2>4 DEF IInv, Ordered
  <2> QED
    BY <2>2, <2>3, <2>4
<1>12. AheadHasCome'
  <2>1. SUFFICES ASSUME NEW d \in Call, NEW e \in ahead'[d] PROVE pc'[e] # "idle"
    BY DEF AheadHasCome
  <2>2. e \in Call
    BY <1>3, <2>1 DEF TypeOK
  <2>3. CASE d = c
    BY <1>4, <2>1, <2>2, <2>3 DEF Unsettled
  <2>4. CASE d # c
    BY <1>4, <2>1, <2>2, <2>4 DEF IInv, AheadHasCome
  <2> QED
    BY <2>3, <2>4
<1> QED
  BY <1>3, <1>8, <1>9, <1>10, <1>11, <1>12 DEF IInv

(* When a call starts, nothing it found is unsettled: by WaitsForAll only the call it waited for *)
(* and those ahead of that one could be, and by NoneAhead they are over when that one is.        *)
LEMMA StartIsInTurn ==
  ASSUME IInv, NEW c \in Call, Start(c)
  PROVE  \A d \in ahead[c] : Settled(d)
<1> USE CallAssumption
<1>1. pc[c] = "waiting" /\ (previous[c] # None => Settled(previous[c]))
  BY DEF Start
<1>2. CASE previous[c] = None
  BY <1>1, <1>2 DEF IInv, WaitsForAll
<1>3. CASE previous[c] # None
  <2>1. previous[c] \in Call /\ Settled(previous[c])
    BY <1>1, <1>3 DEF IInv, TypeOK
  <2>2. \A d \in ahead[previous[c]] : Settled(d)
    BY <2>1 DEF IInv, NoneAhead
  <2> QED
    BY <1>1, <1>3, <2>1, <2>2 DEF IInv, WaitsForAll
<1> QED
  BY <1>2, <1>3

(* Starting and settling move one call forward and leave map and history alone. *)
LEMMA WorkKeeps ==
  ASSUME IInv, NEW c \in Call, Start(c) \/ Settle(c)
  PROVE  IInv'
<1> USE CallAssumption, KeyAssumption
<1>1. UNCHANGED <<queues, previous, ahead>>
  BY DEF Start, Settle
<1>2. \/ pc[c] = "waiting" /\ pc' = [pc EXCEPT ![c] = "working"]
      \/ pc[c] = "working" /\ pc' = [pc EXCEPT ![c] = "settled"]
  BY DEF Start, Settle
<1>3. TypeOK /\ TypeOK'
  BY DEF IInv, TypeOK, Start, Settle
<1>4. /\ \A d \in Call \ {c} : pc'[d] = pc[d]
      /\ pc'[c] \in {"working", "settled"} /\ pc[c] \in {"waiting", "working"}
  BY <1>2, <1>3 DEF TypeOK
<1>5. \A d \in Call : (Settled(d) => (Settled(d))') /\ ((Unsettled(d))' => Unsettled(d)) /\ (pc'[d] = "waiting" => pc[d] = "waiting")
  BY <1>4 DEF Settled, Unsettled
<1>6. EntriesAreLast'
  <2>1. \A k \in Key : queues[k] # None => queues[k] \in Call
    BY <1>3 DEF TypeOK
  <2> QED
    BY <1>1, <1>4, <1>5, <2>1 DEF IInv, EntriesAreLast
<1>7. WaitsForAll'
  <2>1. \A d \in Call : (previous[d] # None => previous[d] \in Call) /\ ahead[d] \in SUBSET Call
    BY <1>3 DEF TypeOK
  <2> QED
    BY <1>1, <1>4, <1>5, <2>1 DEF IInv, WaitsForAll
<1>8. NoneAhead'
  <2>1. SUFFICES ASSUME NEW d \in Call, pc'[d] = "working" \/ (Settled(d))', NEW e \in ahead[d] PROVE (Settled(e))'
    BY <1>1 DEF NoneAhead
  <2>2. e \in Call
    BY <1>3, <2>1 DEF TypeOK
  <2>3. CASE d # c \/ Settle(c)
    <3>1. pc[d] = "working" \/ Settled(d)
      BY <1>4, <2>1, <2>3 DEF Settled, Settle
    <3> QED
      BY <1>5, <2>1, <2>2, <3>1 DEF IInv, NoneAhead
  <2>4. CASE d = c /\ Start(c)
    BY <1>5, <2>1, <2>2, <2>4, StartIsInTurn
  <2> QED
    BY <2>3, <2>4
<1>9. Ordered'
  BY <1>1, <1>5 DEF IInv, Ordered, Same
<1>10. AheadHasCome'
  <2>1. \A d \in Call : ahead[d] \in SUBSET Call
    BY <1>3 DEF TypeOK
  <2> QED
    BY <1>1, <1>4, <2>1 DEF IInv, AheadHasCome
<1> QED
  BY <1>3, <1>6, <1>7, <1>8, <1>9, <1>10 DEF IInv

(* A caller that resumes takes its own entry away: nobody with its key is unsettled then. *)
LEMMA ReturnKeeps ==
  ASSUME IInv, NEW c \in Call, Return(c)
  PROVE  IInv'
<1> USE CallAssumption, KeyAssumption
<1>1. /\ pc[c] = "settled" /\ pc' = [pc EXCEPT ![c] = "returned"]
      /\ queues' = IF queues[KeyOf[c]] = c THEN [queues EXCEPT ![KeyOf[c]] = None] ELSE queues
      /\ UNCHANGED <<previous, failed, ahead>>
  BY DEF Return
<1>2. TypeOK /\ TypeOK'
  BY <1>1 DEF IInv, TypeOK
<1>3. pc'[c] = "returned" /\ \A d \in Call \ {c} : pc'[d] = pc[d]
  BY <1>1, <1>2 DEF TypeOK
<1>4. \A d \in Call : (Settled(d))' = Settled(d) /\ (Unsettled(d))' = Unsettled(d)
  BY <1>1, <1>3 DEF Settled, Unsettled
<1>5. EntriesAreLast'
  <2>1. SUFFICES ASSUME NEW k \in Key
                 PROVE /\ queues'[k] = None => \A d \in Call : KeyOf[d] = k => ~Unsettled(d)
                       /\ queues'[k] # None =>
                            /\ KeyOf[queues'[k]] = k
                            /\ pc'[queues'[k]] \in {"waiting", "working", "settled"}
                            /\ \A d \in Call \ {queues'[k]} : KeyOf[d] = k /\ Unsettled(d) => d \in ahead[queues'[k]]
    BY <1>1, <1>4 DEF EntriesAreLast
  <2>2. queues[k] # None => queues[k] \in Call
    BY <1>2 DEF TypeOK
  <2>3. CASE queues[k] # c
    <3>1. queues'[k] = queues[k]
      BY <1>1, <1>2, <2>3 DEF TypeOK
    <3> QED
      BY <1>3, <2>2, <2>3, <3>1 DEF IInv, EntriesAreLast
  <2>4. CASE queues[k] = c
    <3>1. KeyOf[c] = k /\ queues'[k] = None
      BY <1>1, <1>2, <2>4 DEF IInv, EntriesAreLast, TypeOK
    <3>2. \A d \in ahead[c] : Settled(d)
      BY <1>1 DEF IInv, NoneAhead, Settled
    <3>3. \A d \in Call : KeyOf[d] = k /\ Unsettled(d) => d = c \/ d \in ahead[c]
      BY <2>4 DEF IInv, EntriesAreLast
    <3>4. \A d \in Call : Settled(d) => ~Unsettled(d)
      BY DEF Settled, Unsettled
    <3>5. Settled(c)
      BY <1>1 DEF Settled
    <3> QED
      BY <3>1, <3>2, <3>3, <3>4, <3>5
  <2> QED
    BY <2>3, <2>4
<1>6. WaitsForAll'
  <2>1. \A d \in Call : (previous[d] # None => previous[d] \in Call) /\ ahead[d] \in SUBSET Call
    BY <1>2 DEF TypeOK
  <2> QED
    BY <1>1, <1>3, <1>4, <2>1 DEF IInv, WaitsForAll
<1>7. NoneAhead'
  <2>1. \A d \in Call : ahead[d] \in SUBSET Call
    BY <1>2 DEF TypeOK
  <2> QED
    BY <1>1, <1>3, <1>4, <2>1 DEF IInv, NoneAhead
<1>8. Ordered'
  BY <1>1, <1>4 DEF IInv, Ordered, Same
<1>9. AheadHasCome'
  <2>1. \A d \in Call : ahead[d] \in SUBSET Call
    BY <1>2 DEF TypeOK
  <2> QED
    BY <1>1, <1>3, <2>1 DEF IInv, AheadHasCome
<1> QED
  BY <1>2, <1>5, <1>6, <1>7, <1>8, <1>9 DEF IInv

(* The inductive invariant holds of every behaviour. *)
LEMMA Invariant == Spec => []IInv
<1>1. Init => IInv
  BY DEF Init, IInv, TypeOK, EntriesAreLast, WaitsForAll, NoneAhead, Ordered, AheadHasCome, Unsettled, Settled
<1>2. IInv /\ [Next]_vars => IInv'
  <2>1. SUFFICES ASSUME IInv, [Next]_vars PROVE IInv'
    OBVIOUS
  <2>2. CASE UNCHANGED vars
    BY <2>1, <2>2 DEF vars, IInv, TypeOK, EntriesAreLast, WaitsForAll, NoneAhead, Ordered, AheadHasCome, Unsettled, Settled
  <2> QED
    BY <2>1, <2>2, EnterKeeps, WorkKeeps, ReturnKeeps DEF Next
<1> QED
  BY <1>1, <1>2, PTL DEF Spec

-----------------------------------------------------------------------------
(* The theorems. *)

(* Two calls with one key never work at the same time. *)
THEOREM MutualExclusion == Spec => []OneAtATime
<1>1. IInv => OneAtATime
  <2>1. SUFFICES ASSUME IInv, NEW c \in Call, NEW d \in Call, KeyOf[c] = KeyOf[d],
                        pc[c] = "working", pc[d] = "working", c # d
                 PROVE FALSE
    BY DEF OneAtATime
  <2>2. c \in ahead[d] \/ d \in ahead[c]
    BY <2>1 DEF IInv, Ordered, Same, Unsettled
  <2> QED
    BY <2>1, <2>2 DEF IInv, NoneAhead, Settled
<1> QED
  BY <1>1, Invariant, PTL

(* No promise is kept once the call it belongs to has returned. *)
THEOREM MapIsCleared == Spec => []NoEntryLeftBehind
<1>1. IInv => NoEntryLeftBehind
  BY DEF IInv, EntriesAreLast, NoEntryLeftBehind
<1> QED
  BY <1>1, Invariant, PTL

(* The promise chain implements taking turns: an entry is a coming, a start a beginning in turn, *)
(* settling the end, and the return of the caller is not seen.                                    *)
THEOREM ImplementsTurns == Spec => TakesTurns
<1>1. Init => T!Init
  BY DEF Init, T!Init, TurnsStage, Settled
<1>2. IInv /\ [Next]_vars => [T!Next]_(T!vars)
  <2>1. SUFFICES ASSUME IInv, [Next]_vars PROVE [T!Next]_(T!vars)
    OBVIOUS
  <2>2. TypeOK
    BY <2>1 DEF IInv
  <2>3. \A d \in Call : TurnsStage[d] = IF Settled(d) THEN "over" ELSE pc[d]
    BY DEF TurnsStage
  <2>4. ASSUME NEW c \in Call, Enter(c) PROVE T!Come(c)
    <3>1. TurnsStage[c] = "idle"
      BY <2>3, <2>4 DEF Enter, Settled
    <3>2. TurnsStage' = [TurnsStage EXCEPT ![c] = "waiting"]
      BY <2>2, <2>4 DEF Enter, TurnsStage, Settled, TypeOK
    <3>3. {d \in Call \ {c} : KeyOf[d] = KeyOf[c] /\ Unsettled(d)} = T!Present(c)
      BY <2>3 DEF T!Present, Unsettled, Settled
    <3> QED
      BY <2>4, <3>1, <3>2, <3>3 DEF T!Come, Enter
  <2>5. ASSUME NEW c \in Call, Start(c) PROVE T!Begin(c)
    <3>1. TurnsStage[c] = "waiting"
      BY <2>3, <2>5 DEF Start, Settled
    <3>2. TurnsStage' = [TurnsStage EXCEPT ![c] = "working"]
      BY <2>2, <2>5 DEF Start, TurnsStage, Settled, TypeOK
    <3>3. \A d \in ahead[c] : T!Over(d)
      BY <2>1, <2>2, <2>3, <2>5, StartIsInTurn DEF T!Over, TypeOK
    <3> QED
      BY <2>5, <3>1, <3>2, <3>3 DEF T!Begin, Start
  <2>6. ASSUME NEW c \in Call, Settle(c) PROVE T!End(c)
    <3>1. TurnsStage[c] = "working"
      BY <2>3, <2>6 DEF Settle, Settled
    <3>2. TurnsStage' = [TurnsStage EXCEPT ![c] = "over"]
      BY <2>2, <2>6 DEF Settle, TurnsStage, Settled, TypeOK
    <3> QED
      BY <2>6, <3>1, <3>2 DEF T!End, Settle
  <2>7. ASSUME NEW c \in Call, Return(c) PROVE UNCHANGED T!vars
    <3>1. TurnsStage' = TurnsStage
      BY <2>2, <2>7 DEF Return, TurnsStage, Settled, TypeOK
    <3> QED
      BY <2>7, <3>1 DEF Return, T!vars
  <2>8. CASE UNCHANGED vars
    BY <2>8 DEF vars, T!vars, TurnsStage, Settled
  <2> QED
    BY <2>1, <2>4, <2>5, <2>6, <2>7, <2>8 DEF Next, T!Next
<1> QED
  BY <1>1, <1>2, Invariant, PTL DEF Spec, TakesTurns, T!Spec

-----------------------------------------------------------------------------
(* ConnectionPool: the pool locks itself up only when builds hold all of it,   *)
(* and a node has one set of keys of a kind, for any size of the pool and any  *)
(* number of statements, builders, keys and failures.                          *)

(* Finite sets and their sizes are the same in the instance.                   *)
LEMMA PoolSets == \A S : Cn!Cardinality(S) = Cardinality(S) /\ (Cn!IsFiniteSet(S) <=> IsFiniteSet(S))
  BY DEF Cn!Cardinality, Cardinality, Cn!IsFiniteSet, IsFiniteSet

LEMMA PoolRuns == StoreSpec => Cn!Init /\ [][Cn!Next]_poolVars
<1>1. [StoreNext]_storeVars => [Cn!Next]_poolVars
  BY DEF StoreNext, storeVars
<1>2. StoreInit => Cn!Init
  BY DEF StoreInit
<1> QED
  BY <1>1, <1>2, PTL DEF StoreSpec

(* Every connection is idle, lent for a statement, or kept for a transaction. *)
Conserved == idle + Cardinality(got) + Cardinality(open) = PoolMax

(* A transaction keeps a connection exactly from BEGIN to its end, and a call with one for a   *)
(* statement is at a step that sends a statement.                                              *)
Borrowed ==
  /\ open = {b \in Builders : at[b] \in Cn!Inside}
  /\ \A c \in got : at[c] \in Cn!Sending

(* What a builder knows at each of its steps. From its second look to COMMIT it holds the lock *)
(* of its keys, so that what the look told it stays true; what it read later stays stored.     *)
Knows ==
  \A b \in Builders :
    /\ at[b] \in {"check", "make", "commit"} => lock[PoolKeyOf[b]] = b
    /\ at[b] = "make" => keys[PoolKeyOf[b]] = {}
    /\ at[b] = "commit" => result[b] \in Builders /\ keys[PoolKeyOf[b]] \subseteq {result[b]}
    /\ at[b] = "read" => result[b] \in keys[PoolKeyOf[b]]

OneMade == \A k \in PoolKeys : \A x, y \in keys[k] : x = y

PoolInv == Cn!TypeOK /\ Conserved /\ Borrowed
KeysInv == Cn!TypeOK /\ Knows /\ OneMade

-----------------------------------------------------------------------------
LEMMA FiniteCalls ==
  ASSUME Cn!PoolAssumption
  PROVE  /\ IsFiniteSet(Cn!Calls)
         /\ \A S \in SUBSET Cn!Calls : IsFiniteSet(S) /\ Cardinality(S) \in Nat
<1>1. IsFiniteSet(Cn!Calls)
  BY FS_Union, PoolSets DEF Cn!PoolAssumption, Cn!Calls
<1> QED
  BY <1>1, FS_Subset, FS_CardinalityType

LEMMA PoolStep ==
  ASSUME Cn!Next
  PROVE  \E c \in Cn!Calls : Cn!Step(c) \/ (c \in Builders /\ Cn!BuilderStep(c))
BY DEF Cn!Next, Cn!Calls

(* Where a step leads the call that takes it, and that the others stay where they are; only    *)
(* the failure of the start-up statements ends the calls that await them too.                  *)
LEMMA PoolMoves ==
  ASSUME Cn!TypeOK, NEW c \in Cn!Calls, NEW s, Cn!GoTo(c, s)
  PROVE  at'[c] = s /\ \A d \in Cn!Calls \ {c} : at'[d] = at[d]
BY DEF Cn!TypeOK, Cn!GoTo

LEMMA PoolFirst ==
  ASSUME NEW c \in Cn!Calls
  PROVE  Cn!First(c) \in {"look", "statement"} /\ (Cn!First(c) = "look" <=> c \in Builders)
BY DEF Cn!First

-----------------------------------------------------------------------------
(* The types of the variables. COMMIT stores the name of a builder because the look under the  *)
(* lock, or the making, has left one.                                                          *)
LEMMA PoolTyped ==
  ASSUME Cn!PoolAssumption, Cn!TypeOK, Knows, [Cn!Next]_poolVars
  PROVE  Cn!TypeOK'
<1> USE DEF Cn!Sending, Cn!Inside
<1>1. CASE UNCHANGED poolVars
  BY <1>1 DEF poolVars, Cn!TypeOK
<1>2. CASE Cn!Next
  <2>1. PICK c \in Cn!Calls : Cn!Step(c) \/ (c \in Builders /\ Cn!BuilderStep(c))
    BY <1>2, PoolStep
  <2>2. Cn!First(c) \in {"look", "statement"}
    BY PoolFirst
  <2>3. c \in Builders => PoolKeyOf[c] \in PoolKeys
    BY DEF Cn!PoolAssumption
  <2>4. CASE Cn!Enter(c) \/ Cn!Ready(c) \/ Cn!Borrow(c)
    BY <2>2, <2>4 DEF Cn!Enter, Cn!Ready, Cn!Borrow, Cn!GoTo, Cn!TypeOK
  <2>5. CASE Cn!Seeded(c) \/ Cn!Answered(c)
    BY <2>2, <2>5 DEF Cn!Seeded, Cn!Answered, Cn!Returned, Cn!GoTo, Cn!TypeOK
  <2>6. CASE Cn!SeedFails(c)
    BY <2>6 DEF Cn!SeedFails, Cn!Failing, Cn!Returned, Cn!PoolAssumption, Cn!TypeOK
  <2>7. CASE Cn!Fails(c)
    BY <2>7 DEF Cn!Fails, Cn!Failing, Cn!Unlocked, Cn!GoTo, Cn!PoolAssumption, Cn!TypeOK
  <2>8. ASSUME c \in Builders, Cn!Look(c) \/ Cn!Begin(c) \/ Cn!Lock(c) PROVE Cn!TypeOK'
    BY <2>3, <2>8 DEF Cn!Look, Cn!Begin, Cn!Lock, Cn!Returned, Cn!GoTo, Cn!TypeOK
  <2>9. ASSUME c \in Builders, Cn!Check(c) \/ Cn!Make(c) PROVE Cn!TypeOK'
    BY <2>3, <2>9 DEF Cn!Check, Cn!Make, Cn!Returned, Cn!GoTo, Cn!TypeOK
  <2>10. ASSUME c \in Builders, Cn!Commit(c) PROVE Cn!TypeOK'
    <3>1. result[c] \in Builders
      BY <2>10 DEF Cn!Commit, Knows
    <3> QED
      BY <2>3, <2>10, <3>1 DEF Cn!Commit, Cn!Unlocked, Cn!GoTo, Cn!TypeOK
  <2> QED
    BY <2>1, <2>4, <2>5, <2>6, <2>7, <2>8, <2>9, <2>10 DEF Cn!Step, Cn!BuilderStep
<1> QED
  BY <1>1, <1>2

-----------------------------------------------------------------------------
LEMMA PoolLent ==
  ASSUME Cn!PoolAssumption, Cn!TypeOK, NEW c \in Cn!Calls
  PROVE  /\ Cardinality(got) \in Nat /\ Cardinality(open) \in Nat
         /\ c \notin got => Cardinality(got \cup {c}) = Cardinality(got) + 1
         /\ c \in got => Cardinality(got \ {c}) = Cardinality(got) - 1
         /\ c \notin open => Cardinality(open \cup {c}) = Cardinality(open) + 1
         /\ c \in open => Cardinality(open \ {c}) = Cardinality(open) - 1
<1>1. IsFiniteSet(got) /\ IsFiniteSet(open)
  BY FiniteCalls DEF Cn!TypeOK, Cn!Calls
<1> QED
  BY <1>1, FS_AddElement, FS_RemoveElement, FS_CardinalityType

(* Every step gives back exactly what the call that takes it had. *)
LEMMA PoolKept ==
  ASSUME Cn!PoolAssumption, PoolInv, Cn!TypeOK', [Cn!Next]_poolVars
  PROVE  Conserved' /\ Borrowed'
<1> USE DEF Cn!Sending, Cn!Inside
<1>1. CASE UNCHANGED poolVars
  BY <1>1 DEF poolVars, PoolInv, Conserved, Borrowed
<1>2. CASE Cn!Next
  <2>1. PICK c \in Cn!Calls : Cn!Step(c) \/ (c \in Builders /\ Cn!BuilderStep(c))
    BY <1>2, PoolStep
  <2>2. Cn!First(c) \in {"look", "statement"}
    BY PoolFirst
  <2>3. Cn!TypeOK /\ idle \in Nat /\ got \in SUBSET Cn!Calls /\ open \in SUBSET Builders
    BY DEF PoolInv, Cn!TypeOK
  <2>4. /\ idle + Cardinality(got) + Cardinality(open) = PoolMax
        /\ open = {b \in Builders : at[b] \in Cn!Inside}
        /\ \A d \in got : at[d] \in Cn!Sending
    BY DEF PoolInv, Conserved, Borrowed
  <2>5. /\ Cardinality(got) \in Nat /\ Cardinality(open) \in Nat
        /\ c \notin got => Cardinality(got \cup {c}) = Cardinality(got) + 1
        /\ c \in got => Cardinality(got \ {c}) = Cardinality(got) - 1
        /\ c \notin open => Cardinality(open \cup {c}) = Cardinality(open) + 1
        /\ c \in open => Cardinality(open \ {c}) = Cardinality(open) - 1
    BY <2>3, PoolLent
  <2>6. Builders \subseteq Cn!Calls
    BY DEF Cn!Calls
  <2>7. ASSUME NEW s, Cn!GoTo(c, s) PROVE at'[c] = s /\ \A d \in Cn!Calls \ {c} : at'[d] = at[d]
    BY <2>3, <2>7, PoolMoves
  <2>8. CASE Cn!Enter(c) \/ Cn!Ready(c)
    <3>1. PICK s \in {"seed", "waiting", "look", "statement"} : Cn!GoTo(c, s)
      BY <2>2, <2>8 DEF Cn!Enter, Cn!Ready
    <3>2. idle' = idle /\ got' = got /\ open' = open /\ at[c] \in {"off", "waiting"}
      BY <2>8 DEF Cn!Enter, Cn!Ready
    <3>3. at'[c] = s /\ \A d \in Cn!Calls \ {c} : at'[d] = at[d]
      BY <2>7, <3>1
    <3> QED
      BY <2>3, <2>4, <2>6, <3>2, <3>3 DEF Conserved, Borrowed
  <2>9. CASE Cn!Borrow(c)
    BY <2>3, <2>4, <2>5, <2>9 DEF Cn!Borrow, Conserved, Borrowed
  <2>10. ASSUME NEW s \in {"done", "begin", "read", "look", "statement", "make", "commit"},
                c \in got, Cn!Returned(c), open' = open, Cn!GoTo(c, s), s \in Cn!Inside <=> at[c] \in Cn!Inside
         PROVE  Conserved' /\ Borrowed'
    <3>1. at'[c] = s /\ \A d \in Cn!Calls \ {c} : at'[d] = at[d]
      BY <2>7, <2>10
    <3>2. Conserved'
      BY <2>3, <2>4, <2>5, <2>10 DEF Cn!Returned, Conserved
    <3>3. open' = {b \in Builders : at'[b] \in Cn!Inside}
      BY <2>4, <2>6, <2>10, <3>1
    <3>4. \A d \in got' : at'[d] \in Cn!Sending
      BY <2>3, <2>4, <2>10, <3>1 DEF Cn!Returned
    <3> QED
      BY <3>2, <3>3, <3>4 DEF Borrowed
  <2>11. CASE Cn!Seeded(c) \/ Cn!Answered(c)
    BY <2>2, <2>10, <2>11 DEF Cn!Seeded, Cn!Answered
  <2>12. CASE Cn!SeedFails(c)
    <3>1. /\ c \in got /\ at[c] = "seed" /\ open' = open /\ Cn!Returned(c)
          /\ \A d \in Cn!Calls : at'[d] = IF d = c \/ at[d] = "waiting" THEN "done" ELSE at[d]
      BY <2>12 DEF Cn!SeedFails, Cn!Failing
    <3>2. Conserved'
      BY <2>3, <2>4, <2>5, <3>1 DEF Cn!Returned, Conserved
    <3> QED
      BY <2>3, <2>4, <2>6, <3>1, <3>2 DEF Cn!Returned, Borrowed
  <2>13. CASE Cn!Fails(c)
    <3>1. /\ c \in got /\ got' = got \ {c} /\ Cn!GoTo(c, "done")
          /\ c \in open => open' = open \ {c} /\ idle' = idle + 2
          /\ c \notin open => open' = open /\ idle' = idle + 1
      BY <2>13 DEF Cn!Fails, Cn!Failing
    <3>2. at'[c] = "done" /\ \A d \in Cn!Calls \ {c} : at'[d] = at[d]
      BY <2>7, <3>1
    <3>3. Conserved'
      <4>1. Cardinality(got') = Cardinality(got) - 1
        BY <2>5, <3>1
      <4>2. CASE c \in open
        <5>1. Cardinality(open') = Cardinality(open) - 1 /\ idle' = idle + 2
          BY <2>5, <3>1, <4>2
        <5> QED
          BY <2>3, <2>4, <2>5, <4>1, <5>1 DEF Conserved
      <4>3. CASE c \notin open
        <5>1. Cardinality(open') = Cardinality(open) /\ idle' = idle + 1
          BY <3>1, <4>3
        <5> QED
          BY <2>3, <2>4, <2>5, <4>1, <5>1 DEF Conserved
      <4> QED
        BY <4>2, <4>3
    <3>4. open' = open \ {c}
      BY <3>1
    <3>5. open' = {b \in Builders : at'[b] \in Cn!Inside}
      BY <2>4, <2>6, <3>2, <3>4
    <3>6. \A d \in got' : at'[d] \in Cn!Sending
      BY <2>3, <2>4, <3>1, <3>2
    <3> QED
      BY <3>3, <3>5, <3>6 DEF Borrowed
  <2>14. ASSUME c \in Builders, Cn!Look(c) \/ Cn!Check(c) \/ Cn!Make(c) PROVE Conserved' /\ Borrowed'
    <3>1. /\ c \in got /\ Cn!Returned(c) /\ open' = open
          /\ \E s \in {"done", "begin", "read", "make", "commit"} : Cn!GoTo(c, s) /\ (s \in Cn!Inside <=> at[c] \in Cn!Inside)
      BY <2>14 DEF Cn!Look, Cn!Check, Cn!Make
    <3> QED
      BY <2>10, <3>1
  <2>15. ASSUME c \in Builders, Cn!Begin(c) PROVE Conserved' /\ Borrowed'
    <3>1. at[c] = "begin" /\ idle > 0 /\ idle' = idle - 1 /\ open' = open \cup {c} /\ got' = got /\ Cn!GoTo(c, "lock")
      BY <2>15 DEF Cn!Begin
    <3>2. at'[c] = "lock" /\ \A d \in Cn!Calls \ {c} : at'[d] = at[d]
      BY <2>7, <3>1
    <3>3. c \notin open /\ c \notin got
      BY <2>4, <3>1
    <3> QED
      BY <2>3, <2>4, <2>5, <2>6, <2>15, <3>1, <3>2, <3>3 DEF Conserved, Borrowed
  <2>16. ASSUME c \in Builders, Cn!Lock(c) PROVE Conserved' /\ Borrowed'
    <3>1. at[c] = "lock" /\ idle' = idle /\ open' = open /\ got' = got /\ Cn!GoTo(c, "check")
      BY <2>16 DEF Cn!Lock
    <3>2. at'[c] = "check" /\ \A d \in Cn!Calls \ {c} : at'[d] = at[d]
      BY <2>7, <3>1
    <3> QED
      BY <2>3, <2>4, <2>6, <3>1, <3>2 DEF Conserved, Borrowed
  <2>17. ASSUME c \in Builders, Cn!Commit(c) PROVE Conserved' /\ Borrowed'
    <3>1. at[c] = "commit" /\ idle' = idle + 1 /\ open' = open \ {c} /\ got' = got /\ Cn!GoTo(c, "read")
      BY <2>17 DEF Cn!Commit
    <3>2. at'[c] = "read" /\ \A d \in Cn!Calls \ {c} : at'[d] = at[d]
      BY <2>7, <3>1
    <3>3. c \in open
      BY <2>4, <2>17, <3>1
    <3> QED
      BY <2>3, <2>4, <2>5, <2>6, <3>1, <3>2, <3>3 DEF Conserved, Borrowed
  <2> QED
    BY <2>1, <2>8, <2>9, <2>11, <2>12, <2>13, <2>14, <2>15, <2>16, <2>17 DEF Cn!Step, Cn!BuilderStep
<1> QED
  BY <1>1, <1>2

-----------------------------------------------------------------------------
(* The builders that a step does not concern keep what they know, if the step leaves their     *)
(* lock alone and changes the keys of a place only for the builder that holds its lock; keys   *)
(* are never taken away.                                                                       *)
LEMMA BuildersKnow ==
  ASSUME KeysInv, NEW c \in Cn!Calls, PoolKeyOf \in [Builders -> PoolKeys],
         \A d \in Builders \ {c} : /\ at'[d] = at[d] \/ at'[d] = "done"
                                   /\ result'[d] = result[d]
                                   /\ lock[PoolKeyOf[d]] = d => lock'[PoolKeyOf[d]] = d,
         \A k \in PoolKeys : keys[k] \subseteq keys'[k] /\ (lock[k] # c => keys'[k] = keys[k])
  PROVE  \A d \in Builders \ {c} :
           /\ at'[d] \in {"check", "make", "commit"} => lock'[PoolKeyOf[d]] = d
           /\ at'[d] = "make" => keys'[PoolKeyOf[d]] = {}
           /\ at'[d] = "commit" => result'[d] \in Builders /\ keys'[PoolKeyOf[d]] \subseteq {result'[d]}
           /\ at'[d] = "read" => result'[d] \in keys'[PoolKeyOf[d]]
<1>1. SUFFICES ASSUME NEW d \in Builders \ {c}
               PROVE  /\ at'[d] \in {"check", "make", "commit"} => lock'[PoolKeyOf[d]] = d
                      /\ at'[d] = "make" => keys'[PoolKeyOf[d]] = {}
                      /\ at'[d] = "commit" => result'[d] \in Builders /\ keys'[PoolKeyOf[d]] \subseteq {result'[d]}
                      /\ at'[d] = "read" => result'[d] \in keys'[PoolKeyOf[d]]
  OBVIOUS
<1>2. PoolKeyOf[d] \in PoolKeys /\ result'[d] = result[d] /\ keys[PoolKeyOf[d]] \subseteq keys'[PoolKeyOf[d]]
  OBVIOUS
<1>3. /\ at[d] \in {"check", "make", "commit"} => lock[PoolKeyOf[d]] = d /\ keys'[PoolKeyOf[d]] = keys[PoolKeyOf[d]]
      /\ at[d] = "make" => keys[PoolKeyOf[d]] = {}
      /\ at[d] = "commit" => result[d] \in Builders /\ keys[PoolKeyOf[d]] \subseteq {result[d]}
      /\ at[d] = "read" => result[d] \in keys[PoolKeyOf[d]]
  BY <1>2 DEF KeysInv, Knows
<1>4. CASE at'[d] = "done"
  BY <1>4
<1>5. CASE at'[d] = at[d]
  BY <1>2, <1>3, <1>5
<1> QED
  BY <1>4, <1>5

LEMMA KeysKept ==
  ASSUME Cn!PoolAssumption, KeysInv, Cn!TypeOK', [Cn!Next]_poolVars
  PROVE  Knows' /\ OneMade'
<1>1. CASE UNCHANGED poolVars
  BY <1>1 DEF poolVars, KeysInv, Knows, OneMade
<1>2. CASE Cn!Next
  <2>1. PICK c \in Cn!Calls : Cn!Step(c) \/ (c \in Builders /\ Cn!BuilderStep(c))
    BY <1>2, PoolStep
  <2>2. Cn!First(c) \in {"look", "statement"}
    BY PoolFirst
  <2>3. /\ Cn!TypeOK /\ PoolKeyOf \in [Builders -> PoolKeys] /\ Cn!Nobody \notin Builders
        /\ lock \in [PoolKeys -> Builders \cup {Cn!Nobody}] /\ keys \in [PoolKeys -> SUBSET Builders]
        /\ result \in [Builders -> Builders \cup {Cn!Nobody}]
    BY DEF KeysInv, Cn!TypeOK, Cn!PoolAssumption
  <2>4. ASSUME NEW s, Cn!GoTo(c, s) PROVE at'[c] = s /\ \A d \in Cn!Calls \ {c} : at'[d] = at[d]
    BY <2>3, <2>4, PoolMoves
  <2>5. Builders \subseteq Cn!Calls
    BY DEF Cn!Calls
  <2>6. c \in Builders => /\ at[c] \in {"check", "make", "commit"} => lock[PoolKeyOf[c]] = c
                          /\ at[c] = "make" => keys[PoolKeyOf[c]] = {}
                          /\ at[c] = "commit" => result[c] \in Builders /\ keys[PoolKeyOf[c]] \subseteq {result[c]}
    BY DEF KeysInv, Knows
  <2>7. \A k \in PoolKeys : \A x, y \in keys[k] : x = y
    BY DEF KeysInv, OneMade
  \* A step that leaves the locks and the keys alone.
  <2>8. ASSUME lock' = lock, keys' = keys, result' = result,
               at'[c] \notin {"check", "make", "commit", "read"},
               \A d \in Cn!Calls \ {c} : at'[d] = at[d] \/ at'[d] = "done"
        PROVE  Knows' /\ OneMade'
    <3>1. \A d \in Builders \ {c} :
            /\ at'[d] \in {"check", "make", "commit"} => lock'[PoolKeyOf[d]] = d
            /\ at'[d] = "make" => keys'[PoolKeyOf[d]] = {}
            /\ at'[d] = "commit" => result'[d] \in Builders /\ keys'[PoolKeyOf[d]] \subseteq {result'[d]}
            /\ at'[d] = "read" => result'[d] \in keys'[PoolKeyOf[d]]
      BY <2>3, <2>5, <2>8, BuildersKnow
    <3> QED
      BY <2>7, <2>8, <3>1 DEF Knows, OneMade
  <2>9. CASE Cn!Enter(c) \/ Cn!Ready(c)
    <3>1. PICK s \in {"seed", "waiting", "look", "statement"} : Cn!GoTo(c, s)
      BY <2>2, <2>9 DEF Cn!Enter, Cn!Ready
    <3>2. lock' = lock /\ keys' = keys /\ result' = result
      BY <2>9 DEF Cn!Enter, Cn!Ready
    <3> QED
      BY <2>4, <2>8, <3>1, <3>2
  <2>10. CASE Cn!Borrow(c)
    BY <2>7, <2>10 DEF Cn!Borrow, KeysInv, Knows, OneMade
  <2>11. CASE Cn!Seeded(c) \/ Cn!Answered(c)
    <3>1. PICK s \in {"done", "look", "statement"} : Cn!GoTo(c, s)
      BY <2>2, <2>11 DEF Cn!Seeded, Cn!Answered
    <3>2. lock' = lock /\ keys' = keys /\ result' = result
      BY <2>11 DEF Cn!Seeded, Cn!Answered
    <3> QED
      BY <2>4, <2>8, <3>1, <3>2
  <2>12. CASE Cn!SeedFails(c)
    <3>1. /\ lock' = lock /\ keys' = keys /\ result' = result
          /\ \A d \in Cn!Calls : at'[d] = IF d = c \/ at[d] = "waiting" THEN "done" ELSE at[d]
      BY <2>12 DEF Cn!SeedFails
    <3> QED
      BY <2>8, <3>1
  <2>13. CASE Cn!Fails(c)
    <3>1. Cn!GoTo(c, "done") /\ Cn!Unlocked(c) /\ keys' = keys /\ result' = result
      BY <2>13 DEF Cn!Fails
    <3>2. at'[c] = "done" /\ \A d \in Cn!Calls \ {c} : at'[d] = at[d]
      BY <2>4, <3>1
    <3>3. \A d \in Builders \ {c} : lock[PoolKeyOf[d]] = d => lock'[PoolKeyOf[d]] = d
      BY <2>3, <3>1 DEF Cn!Unlocked
    <3>4. \A d \in Builders \ {c} :
            /\ at'[d] \in {"check", "make", "commit"} => lock'[PoolKeyOf[d]] = d
            /\ at'[d] = "make" => keys'[PoolKeyOf[d]] = {}
            /\ at'[d] = "commit" => result'[d] \in Builders /\ keys'[PoolKeyOf[d]] \subseteq {result'[d]}
            /\ at'[d] = "read" => result'[d] \in keys'[PoolKeyOf[d]]
      BY <2>3, <2>5, <3>1, <3>2, <3>3, BuildersKnow
    <3> QED
      BY <2>7, <3>1, <3>2, <3>4 DEF Knows, OneMade
  <2>14. ASSUME c \in Builders, Cn!BuilderStep(c) PROVE Knows' /\ OneMade'
    \* A step of a builder: what it must know where the step leads it.
    <3> DEFINE k == PoolKeyOf[c]
    <3>1. k \in PoolKeys
      BY <2>3, <2>14
    <3>2. ASSUME NEW s, Cn!GoTo(c, s),
                 \A d \in Builders \ {c} : result'[d] = result[d] /\ (lock[PoolKeyOf[d]] = d => lock'[PoolKeyOf[d]] = d),
                 \A j \in PoolKeys : keys[j] \subseteq keys'[j] /\ (lock[j] # c => keys'[j] = keys[j]),
                 s \in {"check", "make", "commit"} => lock'[k] = c,
                 s = "make" => keys'[k] = {},
                 s = "commit" => result'[c] \in Builders /\ keys'[k] \subseteq {result'[c]},
                 s = "read" => result'[c] \in keys'[k],
                 OneMade'
          PROVE  Knows' /\ OneMade'
      <4>1. at'[c] = s /\ \A d \in Cn!Calls \ {c} : at'[d] = at[d]
        BY <2>4, <3>2
      <4>2. \A d \in Builders \ {c} :
              /\ at'[d] \in {"check", "make", "commit"} => lock'[PoolKeyOf[d]] = d
              /\ at'[d] = "make" => keys'[PoolKeyOf[d]] = {}
              /\ at'[d] = "commit" => result'[d] \in Builders /\ keys'[PoolKeyOf[d]] \subseteq {result'[d]}
              /\ at'[d] = "read" => result'[d] \in keys'[PoolKeyOf[d]]
        BY <2>3, <2>5, <3>2, <4>1, BuildersKnow
      <4> QED
        BY <2>14, <3>2, <4>1, <4>2 DEF Knows
    <3>3. CASE Cn!Look(c)
      <4>1. lock' = lock /\ keys' = keys /\ \A d \in Builders \ {c} : result'[d] = result[d]
        BY <2>3, <3>3 DEF Cn!Look
      <4>2. PICK s \in {"begin", "done", "read"} : Cn!GoTo(c, s) /\ (s = "read" => result'[c] \in keys[k])
        BY <2>3, <2>14, <3>3 DEF Cn!Look
      <4> QED
        BY <2>7, <3>2, <4>1, <4>2 DEF OneMade
    <3>4. CASE Cn!Begin(c)
      BY <2>7, <3>2, <3>4 DEF Cn!Begin, OneMade
    <3>5. CASE Cn!Lock(c)
      <4>1. Cn!GoTo(c, "check") /\ keys' = keys /\ result' = result /\ lock[k] = Cn!Nobody
            /\ lock' = [lock EXCEPT ![k] = c]
        BY <3>5 DEF Cn!Lock
      <4>2. lock'[k] = c /\ \A d \in Builders \ {c} : lock[PoolKeyOf[d]] = d => lock'[PoolKeyOf[d]] = d
        BY <2>3, <3>1, <4>1
      <4> QED
        BY <2>7, <3>2, <4>1, <4>2 DEF OneMade
    <3>6. CASE Cn!Check(c)
      <4>1. lock' = lock /\ keys' = keys /\ lock[k] = c /\ \A d \in Builders \ {c} : result'[d] = result[d]
        BY <2>3, <2>6, <2>14, <3>6 DEF Cn!Check
      <4>2. PICK s \in {"make", "commit"} :
              /\ Cn!GoTo(c, s)
              /\ s = "make" => keys[k] = {}
              /\ s = "commit" => result'[c] \in Builders /\ keys[k] \subseteq {result'[c]}
        <5>1. CASE keys[k] = {}
          BY <2>3, <2>14, <3>6, <5>1 DEF Cn!Check
        <5>2. CASE keys[k] # {}
          <6>1. PICK x \in keys[k] : result' = [result EXCEPT ![c] = x] /\ Cn!GoTo(c, "commit")
            BY <3>6, <5>2 DEF Cn!Check
          <6>2. result'[c] = x /\ x \in Builders /\ keys[k] \subseteq {x}
            BY <2>3, <2>7, <2>14, <3>1, <6>1
          <6> QED
            BY <6>1, <6>2
        <5> QED
          BY <5>1, <5>2
      <4> QED
        BY <2>7, <3>2, <4>1, <4>2 DEF OneMade
    <3>7. CASE Cn!Make(c)
      <4>1. /\ Cn!GoTo(c, "commit") /\ lock' = lock /\ lock[k] = c /\ keys[k] = {}
            /\ keys' = [keys EXCEPT ![k] = @ \cup {c}] /\ result' = [result EXCEPT ![c] = c]
        BY <2>6, <2>14, <3>7 DEF Cn!Make
      <4>2. keys'[k] = {c} /\ result'[c] = c /\ (\A j \in PoolKeys \ {k} : keys'[j] = keys[j])
            /\ (\A d \in Builders \ {c} : result'[d] = result[d])
        BY <2>3, <2>14, <3>1, <4>1
      <4>3. OneMade'
        BY <2>7, <4>2 DEF OneMade
      <4>4. \A j \in PoolKeys : keys[j] \subseteq keys'[j] /\ (lock[j] # c => keys'[j] = keys[j])
        BY <4>1, <4>2
      <4> QED
        BY <2>14, <3>2, <4>1, <4>2, <4>3, <4>4
    <3>8. CASE Cn!Commit(c)
      <4>1. /\ Cn!GoTo(c, "read") /\ Cn!Unlocked(c) /\ result' = result /\ lock[k] = c
            /\ result[c] \in Builders /\ keys[k] \subseteq {result[c]}
            /\ keys' = [keys EXCEPT ![k] = @ \cup {result[c]}]
        BY <2>6, <2>14, <3>8 DEF Cn!Commit
      <4>2. keys'[k] = {result[c]} /\ \A j \in PoolKeys \ {k} : keys'[j] = keys[j]
        BY <2>3, <3>1, <4>1
      <4>3. OneMade'
        BY <2>7, <4>2 DEF OneMade
      <4>4. \A j \in PoolKeys : keys[j] \subseteq keys'[j] /\ (lock[j] # c => keys'[j] = keys[j])
        BY <4>1, <4>2
      <4>5. \A d \in Builders \ {c} : lock[PoolKeyOf[d]] = d => lock'[PoolKeyOf[d]] = d
        BY <2>3, <4>1 DEF Cn!Unlocked
      <4> QED
        BY <2>14, <3>2, <4>1, <4>2, <4>3, <4>4, <4>5
    <3> QED
      BY <2>14, <3>3, <3>4, <3>5, <3>6, <3>7, <3>8 DEF Cn!BuilderStep
  <2> QED
    BY <2>1, <2>9, <2>10, <2>11, <2>12, <2>13, <2>14 DEF Cn!Step
<1> QED
  BY <1>1, <1>2

-----------------------------------------------------------------------------
LEMMA PoolStarts ==
  ASSUME Cn!PoolAssumption, Cn!Init
  PROVE  PoolInv /\ KeysInv
<1>1. Cn!TypeOK
  BY DEF Cn!Init, Cn!TypeOK, Cn!PoolAssumption
<1>2. Conserved
  BY FS_EmptySet DEF Cn!Init, Conserved, Cn!PoolAssumption
<1>3. Borrowed
  BY DEF Cn!Init, Borrowed, Cn!Inside, Cn!Calls
<1>4. Knows /\ OneMade
  BY DEF Cn!Init, Knows, OneMade, Cn!Calls, Cn!PoolAssumption
<1> QED
  BY <1>1, <1>2, <1>3, <1>4 DEF PoolInv, KeysInv

LEMMA PoolInvariants == StoreSpec => [](PoolInv /\ KeysInv)
<1>0. Cn!PoolAssumption
  BY Assumptions
<1>1. Cn!Init => PoolInv /\ KeysInv
  BY <1>0, PoolStarts
<1>2. PoolInv /\ KeysInv /\ [Cn!Next]_poolVars => (PoolInv /\ KeysInv)'
  <2>1. SUFFICES ASSUME PoolInv, KeysInv, [Cn!Next]_poolVars PROVE (PoolInv /\ KeysInv)'
    OBVIOUS
  <2>2. Cn!TypeOK /\ Knows
    BY <2>1 DEF KeysInv
  <2>3. Cn!TypeOK'
    BY <2>1, <2>2, <1>0, PoolTyped
  <2>4. Conserved' /\ Borrowed'
    BY <2>1, <2>3, <1>0, PoolKept
  <2>5. Knows' /\ OneMade'
    BY <2>1, <2>3, <1>0, KeysKept
  <2> QED
    BY <2>3, <2>4, <2>5 DEF PoolInv, KeysInv
<1> QED
  BY <1>1, <1>2, PoolRuns, PTL

(* Only builders that are open at once can use up the pool of server/db.ts: when no call can   *)
(* go on for lack of a connection, there are as many builds inside their transactions as the   *)
(* pool has connections, and each waits for another connection or for the lock of one that     *)
(* does. So a pool with more connections than there are builders never locks itself up, and no *)
(* failing statement or rollback ever loses a connection.                                      *)
THEOREM PoolBlocksOnBuilds == StoreSpec => []Cn!OnlyBuildsBlock
<1>1. PoolInv => Cn!OnlyBuildsBlock
  <2>1. SUFFICES ASSUME PoolInv, idle = 0, got = {}, \A b \in open : at[b] # "commit"
                 PROVE  Cardinality(open) = PoolMax /\ \A b \in open : at[b] \in Cn!Inside \ {"commit"}
    BY PoolSets DEF Cn!OnlyBuildsBlock, Cn!NeverStuck
  <2>3. open \subseteq Builders /\ IsFiniteSet(Builders) /\ PoolMax \in Nat
    BY <2>1, Assumptions, PoolSets DEF PoolInv, Cn!TypeOK, Cn!PoolAssumption
  <2>4. Cardinality(open) \in Nat /\ Cardinality(got) = 0
    BY <2>1, <2>3, FS_Subset, FS_CardinalityType, FS_EmptySet
  <2>5. Cardinality(open) = PoolMax
    BY <2>1, <2>3, <2>4 DEF PoolInv, Conserved
  <2>6. \A b \in open : at[b] \in Cn!Inside
    BY <2>1, <2>3, PoolSets DEF PoolInv, Borrowed
  <2> QED
    BY <2>1, <2>5, <2>6
<1> QED
  BY <1>1, PoolInvariants, PTL

(* ensureStealthServer and ensureRealityService make one set of keys for a node, however many  *)
(* of their calls race, and every caller works with that one: the look under the advisory lock *)
(* sees what the last holder of the lock stored, although it goes through another connection.  *)
THEOREM OneSetOfKeys == StoreSpec => []OneServer
<1>1. KeysInv => OneServer
  <2>1. SUFFICES ASSUME KeysInv PROVE Cn!OneServer
    BY DEF OneServer
  <2>2. ASSUME NEW k \in PoolKeys PROVE Cardinality(keys[k]) <= 1
    <3>1. CASE keys[k] = {}
      BY <3>1, FS_EmptySet
    <3>2. CASE keys[k] # {}
      <4>1. PICK x \in keys[k] : keys[k] = {x}
        BY <2>1, <3>2 DEF KeysInv, OneMade
      <4>2. Cardinality({x}) = 1
        BY FS_Singleton
      <4> QED
        BY <4>1, <4>2
    <3> QED
      BY <3>1, <3>2
  <2>3. \A b \in Builders : at[b] = "read" => result[b] \in keys[PoolKeyOf[b]]
    BY <2>1 DEF KeysInv, Knows
  <2> QED
    BY <2>2, <2>3, PoolSets DEF Cn!OneServer
<1> QED
  BY <1>1, PoolInvariants, PTL

-----------------------------------------------------------------------------
(* Migrations: one-time changes take effect once and in order.                *)

MigrationRun == [at : {"off", "look", "schema", "grants", "record", "later", "grant", "up"}, next : Nat, first : BOOLEAN]

(* Who works holds the lock; what is recorded is what has taken effect. *)
Migrated(c) ==
    /\ run[c].at \notin {"off", "up"} => mutex = c
    /\ run[c].at \in {"look", "schema", "grants", "record"} => recorded = 0
    /\ run[c].at = "later" => run[c].next = recorded + 1
    /\ run[c].at \in {"grant", "up"} => recorded = Mi!Last

MigrationInv ==
    /\ recorded \in 0..Mi!Last
    /\ effects \in [1..Len(Later) -> Nat]
    /\ run \in [Containers -> MigrationRun]
    /\ \A i \in 1..Len(Later) : effects[i] = (IF i < recorded THEN 1 ELSE 0)
    /\ chosen # "nothing" => limit = chosen /\ recorded = Mi!Last
    /\ \A c \in Containers : Migrated(c)

LEMMA MigrationsRun == StoreSpec => Mi!Init /\ [][Mi!Next]_migrationVars
<1>1. StoreInit => Mi!Init
  BY DEF StoreInit
<1>2. [StoreNext]_storeVars => [Mi!Next]_migrationVars
  BY DEF StoreNext, storeVars, migrationVars
<1> QED
  BY <1>1, <1>2, PTL DEF StoreSpec

LEMMA MigrationConstants == Len(Later) \in Nat /\ "nobody" \notin Containers /\ Mi!Last = Len(Later) + 1
<1>1. Later \in Seq({Later[i] : i \in DOMAIN Later})
  BY Assumptions DEF Mi!MigrationAssumption
<1>2. PICK S : S = {Later[i] : i \in DOMAIN Later}
  OBVIOUS
<1>3. Len(Later) \in Nat
  BY <1>1, <1>2
<1> QED
  BY <1>3, Assumptions DEF Mi!MigrationAssumption, Mi!Last

LEMMA MigrationsInit == Mi!Init => MigrationInv
<1> SUFFICES ASSUME Mi!Init PROVE MigrationInv
  OBVIOUS
<1>1. /\ recorded = 0 /\ effects = [i \in 1..Len(Later) |-> 0] /\ chosen = "nothing"
      /\ run = [c \in Containers |-> Mi!Idle]
  BY DEF Mi!Init
<1>2. Mi!Idle \in MigrationRun /\ Mi!Idle.at = "off"
  BY DEF Mi!Idle, MigrationRun
<1>3. run \in [Containers -> MigrationRun] /\ \A c \in Containers : run[c].at = "off"
  BY <1>1, <1>2
<1>4. \A c \in Containers : Migrated(c)
  BY <1>3 DEF Migrated
<1> QED
  BY <1>1, <1>3, <1>4, MigrationConstants DEF MigrationInv

LEMMA MigrationKeeps ==
    ASSUME MigrationInv, NEW c \in Containers, NEW state \in MigrationRun, run' = [run EXCEPT ![c] = state],
           recorded' \in 0..Mi!Last, effects' \in [1..Len(Later) -> Nat],
           \A i \in 1..Len(Later) : effects'[i] = (IF i < recorded' THEN 1 ELSE 0),
           chosen' # "nothing" => limit' = chosen' /\ recorded' = Mi!Last,
           Migrated(c)', \A d \in Containers : d # c => Migrated(d)'
    PROVE  MigrationInv'
<1>1. run' \in [Containers -> MigrationRun]
  BY DEF MigrationInv
<1> QED
  BY <1>1 DEF MigrationInv

(* Only the container that holds the lock can be anywhere but off and up. *)
LEMMA WorksAlone ==
    ASSUME MigrationInv, NEW c \in Containers, mutex \in {c, "nobody"}, NEW state \in MigrationRun, run' = [run EXCEPT ![c] = state],
           recorded = Mi!Last => recorded' = recorded
    PROVE  \A d \in Containers : d # c => Migrated(d)'
<1>1. ASSUME NEW d \in Containers, d # c PROVE Migrated(d)'
  <2>1. run'[d] = run[d] /\ Migrated(d) /\ run[d] \in MigrationRun
    BY <1>1 DEF MigrationInv
  <2>2. run[d].at \in {"off", "up"}
    BY <1>1, <2>1, MigrationConstants DEF Migrated
  <2> QED
    BY <2>1, <2>2 DEF Migrated
<1> QED
  BY <1>1

LEMMA OthersGoOn ==
    ASSUME MigrationInv, NEW c \in Containers, NEW state \in MigrationRun, run' = [run EXCEPT ![c] = state],
           recorded' = recorded, mutex' = mutex
    PROVE  \A d \in Containers : d # c => Migrated(d)'
BY DEF MigrationInv, Migrated

LEMMA MigrationBegins == ASSUME MigrationInv, NEW c \in Containers, Mi!Begin(c) PROVE MigrationInv'
<1> PICK state : state = [at |-> IF recorded = 0 THEN "look" ELSE "later", next |-> recorded + 1, first |-> FALSE]
  OBVIOUS
<1>1. /\ run[c].at = "off" /\ mutex = "nobody" /\ mutex' = c /\ run' = [run EXCEPT ![c] = state]
      /\ UNCHANGED <<recorded, effects, limit, chosen>>
  BY DEF Mi!Begin, Mi!Nobody, Mi!data
<1>2. state \in MigrationRun /\ state.next = recorded + 1 /\ state.at = IF recorded = 0 THEN "look" ELSE "later"
  BY MigrationConstants DEF MigrationRun, MigrationInv
<1>3. run'[c] = state
  BY <1>1 DEF MigrationInv
<1>4. Migrated(c)'
  BY <1>1, <1>2, <1>3 DEF Migrated
<1>5. mutex = "nobody" /\ mutex' = c /\ recorded' = recorded
  BY <1>1
<1>6. /\ recorded' \in 0..Mi!Last /\ effects' \in [1..Len(Later) -> Nat]
      /\ \A i \in 1..Len(Later) : effects'[i] = (IF i < recorded' THEN 1 ELSE 0)
      /\ chosen' # "nothing" => limit' = chosen' /\ recorded' = Mi!Last
  BY <1>1 DEF MigrationInv
<1>7. state \in MigrationRun /\ run' = [run EXCEPT ![c] = state] /\ mutex \in {c, "nobody"}
  BY <1>1, <1>2
<1>8. \A d \in Containers : d # c => Migrated(d)'
  BY <1>5, <1>7, WorksAlone
<1> QED
  BY <1>4, <1>6, <1>7, <1>8, MigrationKeeps

LEMMA BaselineSteps ==
    ASSUME MigrationInv, NEW c \in Containers, Mi!Look(c) \/ Mi!Schema(c) \/ Mi!Grants(c) \/ Mi!Record(c) PROVE MigrationInv'
<1>0. run \in [Containers -> MigrationRun] /\ recorded \in Nat /\ Migrated(c)
  BY MigrationConstants DEF MigrationInv
<1>1. ASSUME Mi!Look(c) \/ Mi!Schema(c) \/ Mi!Grants(c) PROVE MigrationInv'
  <2>1. /\ run[c].at \in {"look", "schema", "grants"} /\ UNCHANGED <<recorded, effects, limit, chosen, mutex>>
    BY <1>1 DEF Mi!Look, Mi!Schema, Mi!Grants, Mi!data
  <2>2. PICK state \in MigrationRun : run' = [run EXCEPT ![c] = state] /\ state.at \in {"schema", "grants", "record"}
    <3>1. CASE Mi!Look(c)
      <4>1. run' = [run EXCEPT ![c].at = "schema", ![c].first = ~schema]
        BY <3>1 DEF Mi!Look
      <4>2. PICK next : next = [run[c] EXCEPT !.at = "schema", !.first = ~schema]
        OBVIOUS
      <4>3. run' = [run EXCEPT ![c] = next]
        BY <1>0, <4>1, <4>2
      <4>4. next \in MigrationRun /\ next.at = "schema"
        BY <1>0, <4>2 DEF MigrationRun
      <4> QED
        BY <4>3, <4>4
    <3>2. CASE Mi!Schema(c) \/ Mi!Grants(c)
      <4>1. PICK step \in {"grants", "record"} : run' = [run EXCEPT ![c].at = step]
        BY <3>2 DEF Mi!Schema, Mi!Grants, Mi!Goes
      <4>2. PICK next : next = [run[c] EXCEPT !.at = step]
        OBVIOUS
      <4>3. run' = [run EXCEPT ![c] = next]
        BY <1>0, <4>1, <4>2
      <4>4. next \in MigrationRun /\ next.at = step
        BY <1>0, <4>2 DEF MigrationRun
      <4> QED
        BY <4>3, <4>4
    <3> QED
      BY <1>1, <3>1, <3>2
  <2>3. Migrated(c)'
    BY <1>0, <2>1, <2>2 DEF Migrated
  <2>4. mutex' = mutex /\ recorded' = recorded
    BY <2>1
  <2>5. /\ recorded' \in 0..Mi!Last /\ effects' \in [1..Len(Later) -> Nat]
        /\ \A i \in 1..Len(Later) : effects'[i] = (IF i < recorded' THEN 1 ELSE 0)
        /\ chosen' # "nothing" => limit' = chosen' /\ recorded' = Mi!Last
    BY <2>1 DEF MigrationInv
  <2>6. \A d \in Containers : d # c => Migrated(d)'
    BY <2>2, <2>4, OthersGoOn
  <2> QED
    BY <2>2, <2>3, <2>5, <2>6, MigrationKeeps
<1>2. ASSUME Mi!Record(c) PROVE MigrationInv'
  <2>1. /\ run[c].at = "record" /\ recorded' = 1 /\ UNCHANGED <<effects, limit, chosen, mutex>>
        /\ run' = [run EXCEPT ![c].at = "later", ![c].next = 2]
    BY <1>2 DEF Mi!Record, Mi!data
  <2>2. PICK state : state = [run[c] EXCEPT !.at = "later", !.next = 2]
    OBVIOUS
  <2>3. state \in MigrationRun /\ state.at = "later" /\ state.next = 2
    BY <1>0, <2>2 DEF MigrationRun
  <2>4. run' = [run EXCEPT ![c] = state] /\ run'[c] = state
    BY <1>0, <2>1, <2>2
  <2>5. recorded = 0 /\ mutex = c /\ chosen = "nothing"
    BY <1>0, <2>1, MigrationConstants DEF Migrated, MigrationInv
  <2>6. Migrated(c)'
    BY <2>1, <2>3, <2>4, <2>5 DEF Migrated
  <2>7. \A i \in 1..Len(Later) : effects'[i] = (IF i < recorded' THEN 1 ELSE 0)
    BY <2>1, <2>5, MigrationConstants DEF MigrationInv
  <2>8. recorded' \in 0..Mi!Last /\ recorded' > recorded /\ recorded # Mi!Last
    BY <2>1, <2>5, MigrationConstants
  <2>9. effects' \in [1..Len(Later) -> Nat]
    BY <2>1 DEF MigrationInv
  <2>10. chosen' # "nothing" => limit' = chosen' /\ recorded' = Mi!Last
    BY <2>1, <2>5
  <2>11. \A d \in Containers : d # c => Migrated(d)'
    BY <2>3, <2>4, <2>5, <2>8, WorksAlone
  <2> QED
    BY <2>3, <2>4, <2>6, <2>7, <2>8, <2>9, <2>10, <2>11, MigrationKeeps
<1> QED
  BY <1>1, <1>2

LEMMA LaterSteps == ASSUME MigrationInv, NEW c \in Containers, Mi!ApplyLater(c) PROVE MigrationInv'
<1>0. run \in [Containers -> MigrationRun] /\ recorded \in Nat /\ Migrated(c)
  BY MigrationConstants DEF MigrationInv
<1> PICK i : i = run[c].next - 1
  OBVIOUS
<1>1. /\ run[c].at = "later" /\ run[c].next <= Mi!Last /\ recorded < run[c].next
      /\ effects' = [effects EXCEPT ![i] = @ + 1] /\ recorded' = run[c].next
      /\ run' = [run EXCEPT ![c].next = run[c].next + 1] /\ UNCHANGED <<chosen, mutex>>
  BY DEF Mi!ApplyLater, Mi!Effect
<1>2. run[c].next = recorded + 1 /\ i = recorded /\ mutex = c
  BY <1>0, <1>1 DEF Migrated
<1>3. recorded < Mi!Last /\ recorded' = recorded + 1 /\ recorded' \in 0..Mi!Last
  BY <1>0, <1>1, <1>2, MigrationConstants
<1>4. chosen = "nothing"
  BY <1>0, <1>3, MigrationConstants DEF MigrationInv
<1>5. PICK state : state = [run[c] EXCEPT !.next = run[c].next + 1]
  OBVIOUS
<1>6. state \in MigrationRun /\ state.at = "later" /\ state.next = recorded' + 1
  BY <1>0, <1>1, <1>2, <1>3, <1>5 DEF MigrationRun
<1>7. run' = [run EXCEPT ![c] = state] /\ run'[c] = state
  <2>1. run' = [run EXCEPT ![c] = [run[c] EXCEPT !.next = run[c].next + 1]]
    BY <1>0, <1>1, Zenon
  <2> QED
    BY <1>0, <1>5, <2>1
<1>8. effects' \in [1..Len(Later) -> Nat]
  <2>1. effects \in [1..Len(Later) -> Nat]
    BY DEF MigrationInv
  <2>2. i \in 1..Len(Later) => effects[i] + 1 \in Nat
    BY <2>1
  <2> QED
    BY <1>1, <2>1, <2>2
<1>9. \A k \in 1..Len(Later) : effects'[k] = (IF k < recorded' THEN 1 ELSE 0)
  <2>1. ASSUME NEW k \in 1..Len(Later) PROVE effects'[k] = (IF k < recorded' THEN 1 ELSE 0)
    <3>1. effects[k] = (IF k < recorded THEN 1 ELSE 0) /\ effects \in [1..Len(Later) -> Nat]
      BY <2>1 DEF MigrationInv
    <3>2. CASE k = i
      BY <1>0, <1>1, <1>2, <1>3, <3>1, <3>2, MigrationConstants
    <3>3. CASE k # i
      BY <1>0, <1>1, <1>2, <1>3, <3>1, <3>3, MigrationConstants
    <3> QED
      BY <3>2, <3>3
  <2> QED
    BY <2>1
<1>10. Migrated(c)'
  BY <1>1, <1>2, <1>6, <1>7 DEF Migrated
<1>11. chosen' # "nothing" => limit' = chosen' /\ recorded' = Mi!Last
  BY <1>1, <1>4
<1>12. \A d \in Containers : d # c => Migrated(d)'
  <2>1. recorded # Mi!Last
    BY <1>0, <1>3, MigrationConstants
  <2> QED
    BY <1>2, <1>6, <1>7, <2>1, WorksAlone
<1> QED
  BY <1>3, <1>6, <1>7, <1>8, <1>9, <1>10, <1>11, <1>12, MigrationKeeps

LEMMA MigrationEnds ==
    ASSUME MigrationInv, NEW c \in Containers, Mi!Owner(c) \/ Mi!OwnerGrant(c) \/ Mi!Crash(c) \/ Mi!Edit(c) \/ Mi!Redeploy(c)
    PROVE  MigrationInv'
<1>0. run \in [Containers -> MigrationRun] /\ recorded \in 0..Mi!Last /\ Migrated(c)
  BY DEF MigrationInv
<1>1. /\ recorded' = recorded /\ effects' = effects
      /\ (chosen' = chosen /\ limit' = limit) \/ (limit' = chosen' /\ run[c].at = "up")
  <2>1. CASE Mi!Edit(c)
    BY <2>1 DEF Mi!Edit
  <2>2. CASE Mi!Owner(c) \/ Mi!OwnerGrant(c)
    <3>1. recorded' = recorded /\ effects' = effects /\ chosen' = chosen /\ limit' = limit
      BY <2>2 DEF Mi!Owner, Mi!OwnerGrant
    <3> QED
      BY <3>1
  <2>3. CASE Mi!Crash(c) \/ Mi!Redeploy(c)
    <3>1. recorded' = recorded /\ effects' = effects /\ chosen' = chosen /\ limit' = limit
      BY <2>3 DEF Mi!Crash, Mi!Redeploy, Mi!data
    <3> QED
      BY <3>1
  <2> QED
    BY <2>1, <2>2, <2>3
<1>2. \A i \in 1..Len(Later) : effects'[i] = (IF i < recorded' THEN 1 ELSE 0)
  BY <1>1 DEF MigrationInv
<1>3. chosen' # "nothing" => limit' = chosen' /\ recorded' = Mi!Last
  BY <1>0, <1>1 DEF MigrationInv, Migrated
<1>4. effects' \in [1..Len(Later) -> Nat]
  BY <1>1 DEF MigrationInv
<1>5. PICK state \in MigrationRun : run' = [run EXCEPT ![c] = state]
  <2>1. Mi!Idle \in MigrationRun
    BY DEF Mi!Idle, MigrationRun
  <2>2. \A step \in {"grant", "up"} : [run[c] EXCEPT !.at = step] \in MigrationRun
    BY <1>0 DEF MigrationRun
  <2>3. CASE Mi!Owner(c) \/ Mi!OwnerGrant(c)
    <3>1. PICK step \in {"grant", "up"} : run' = [run EXCEPT ![c].at = step]
      BY <2>3 DEF Mi!Owner, Mi!OwnerGrant, Mi!Goes
    <3>2. run' = [run EXCEPT ![c] = [run[c] EXCEPT !.at = step]]
      BY <1>0, <3>1
    <3> QED
      BY <2>2, <3>2
  <2>4. CASE Mi!Crash(c) \/ Mi!Redeploy(c)
    BY <2>1, <2>4 DEF Mi!Crash, Mi!Redeploy
  <2>5. CASE Mi!Edit(c)
    <3>1. run' = run
      BY <2>5 DEF Mi!Edit
    <3>2. run' = [run EXCEPT ![c] = run[c]] /\ run[c] \in MigrationRun
      BY <1>0, <3>1
    <3> QED
      BY <3>2
  <2> QED
    BY <2>3, <2>4, <2>5
<1>6. mutex' = mutex \/ mutex = c
  BY <1>0 DEF Mi!Owner, Mi!OwnerGrant, Mi!Crash, Mi!Edit, Mi!Redeploy, Migrated
<1>7. Migrated(c)'
  <2>1. CASE Mi!Owner(c)
    <3>1. run[c].next = recorded + 1 /\ run[c].next > Mi!Last
      BY <1>0, <2>1 DEF Mi!Owner, Migrated
    <3>2. recorded = Mi!Last
      BY <1>0, <3>1, MigrationConstants
    <3>3. run'[c].at = (IF owner = "none" THEN "grant" ELSE "up") /\ mutex' = (IF owner = "none" THEN mutex ELSE "nobody") /\ mutex = c
      BY <1>0, <2>1 DEF Mi!Owner, Mi!Goes, Mi!Nobody, Migrated
    <3> QED
      BY <1>1, <3>2, <3>3 DEF Migrated
  <2>2. CASE Mi!OwnerGrant(c)
    BY <1>0, <1>1, <2>2 DEF Mi!OwnerGrant, Mi!Goes, Migrated
  <2>3. CASE Mi!Crash(c) \/ Mi!Redeploy(c)
    BY <1>0, <1>1, <2>3 DEF Mi!Crash, Mi!Redeploy, Mi!Idle, Migrated
  <2>4. CASE Mi!Edit(c)
    BY <1>0, <1>1, <2>4 DEF Mi!Edit, Migrated
  <2> QED
    BY <2>1, <2>2, <2>3, <2>4
<1>8. recorded' = recorded /\ recorded' \in 0..Mi!Last
  BY <1>0, <1>1
<1>9. \A d \in Containers : d # c => Migrated(d)'
  BY <1>5, <1>6, <1>8, OthersGoOn, WorksAlone
<1> QED
  BY <1>2, <1>3, <1>4, <1>5, <1>7, <1>8, <1>9, MigrationKeeps

(* However many containers start together, stop in the middle and start again,  *)
(* every one-time change takes effect once and in the order of the list, also   *)
(* on what an operator has chosen since; a container serves when all are there. *)
THEOREM ChangesTakeEffectOnce == StoreSpec => []OnceInOrder
<1>1. MigrationInv /\ [Mi!Next]_migrationVars => MigrationInv'
  <2> SUFFICES ASSUME MigrationInv, [Mi!Next]_migrationVars PROVE MigrationInv'
    OBVIOUS
  <2>1. ASSUME NEW c \in Containers, \/ Mi!Begin(c) \/ Mi!Look(c) \/ Mi!Schema(c) \/ Mi!Grants(c) \/ Mi!Record(c) \/ Mi!ApplyLater(c)
                                     \/ Mi!Owner(c) \/ Mi!OwnerGrant(c) \/ Mi!Crash(c) \/ Mi!Edit(c) \/ Mi!Redeploy(c)
        PROVE  MigrationInv'
    BY <2>1, MigrationBegins, BaselineSteps, LaterSteps, MigrationEnds
  <2>2. CASE UNCHANGED migrationVars
    BY <2>2 DEF migrationVars, MigrationInv, Migrated
  <2> QED
    BY <2>1, <2>2 DEF Mi!Next
<1>2. MigrationInv => OnceInOrder
  BY DEF OnceInOrder, Mi!OnceInOrder, MigrationInv, Migrated
<1> QED
  BY <1>1, <1>2, MigrationsRun, MigrationsInit, PTL

-----------------------------------------------------------------------------
(* UserBundles: a list is there for as long as it may be read.                *)

BundleRow == [kind : Kinds, value : {ValueOf[s] : s \in Sources}, source : Sources \union {Ub!NoSource}, day : Nat, there : BOOLEAN]
BundleTask == [kind : Kinds, bundle : Nat, status : {"pending", "running", "succeeded", "failed", "deleted"}, attempts : Nat]
BundleBuild == [at : {"idle", "create", "source", "collect", "write", "enqueue"}, source : Sources \union {Ub!NoSource}, bundle : Nat]

BundleTyped ==
    /\ today \in Nat /\ users \in [Kinds -> Sources]
    /\ bundle \in Seq(BundleRow) /\ tasks \in Seq(BundleTask)
    /\ desired \in [Kinds -> Nat] /\ build \in [Kinds -> BundleBuild]

(* The newest list of a kind, while its build works: only the build makes lists of that kind. *)
IsNewest(b, k) ==
    /\ b \in 1..Len(bundle) /\ bundle[b].kind = k /\ bundle[b].there
    /\ \A c \in 1..Len(bundle) : bundle[c].kind = k /\ bundle[c].there => c <= b

BuildHolds(k) ==
    /\ build[k].at \in {"idle", "create"} => build[k].bundle = 0
    /\ build[k].at \notin {"idle", "create"} => IsNewest(build[k].bundle, k)
    /\ build[k].at = "create" => build[k].source \in Sources
IsThere(b) == b \in 1..Len(bundle) /\ bundle[b].there
DesiredThere(k) == desired[k] # 0 => IsThere(desired[k])
TaskThere(t) == tasks[t].bundle \in 1..Len(bundle) /\ (Ub!Wanted(t) => IsThere(tasks[t].bundle))

BundleInv ==
    /\ BundleTyped
    /\ \A k \in Kinds : BuildHolds(k) /\ DesiredThere(k)
    /\ \A t \in 1..Len(tasks) : TaskThere(t)

LEMMA BundlesRun == StoreSpec => Ub!Init /\ [][Ub!Next]_bundleVars
<1>1. StoreInit => Ub!Init
  BY DEF StoreInit
<1>2. [StoreNext]_storeVars => [Ub!Next]_bundleVars
  BY DEF StoreNext, storeVars, bundleVars
<1> QED
  BY <1>1, <1>2, PTL DEF StoreSpec

LEMMA BundleConstants == DOMAIN ValueOf = Sources /\ MaxAttempts \in Nat
BY Assumptions DEF Ub!BundleAssumption

LEMMA BundlesInit == Ub!Init => BundleInv
<1> SUFFICES ASSUME Ub!Init PROVE BundleInv
  OBVIOUS
<1>1. /\ today = 0 /\ \E s \in Sources : users = [k \in Kinds |-> s]
      /\ bundle = << >> /\ tasks = << >> /\ desired = [k \in Kinds |-> 0] /\ build = [k \in Kinds |-> Ub!Resting]
  BY DEF Ub!Init
<1>2. Ub!Resting \in BundleBuild /\ Ub!Resting.at = "idle" /\ Ub!Resting.bundle = 0
  BY DEF Ub!Resting, BundleBuild
<1>3. BundleTyped
  BY <1>1, <1>2 DEF BundleTyped
<1>4. \A k \in Kinds : BuildHolds(k) /\ DesiredThere(k)
  BY <1>1, <1>2 DEF BuildHolds, DesiredThere
<1>5. Len(tasks) = 0
  BY <1>1
<1> QED
  BY <1>3, <1>4, <1>5 DEF BundleInv

(* A set of positions that is not empty has a last one. *)
LEMMA LastPosition ==
    ASSUME NEW n \in Nat, NEW S \in SUBSET (1..n), S # {} PROVE \E b \in S : \A c \in S : c <= b
<1> DEFINE Above(x) == {c \in S : c > x}
           Tops == {Above(x) : x \in S}
<1>1. FiniteSubsetsOf(S) = SUBSET S
  <2>1. IsFiniteSet(1..n)
    BY FS_Interval
  <2>2. IsFiniteSet(S)
    BY <2>1, FS_Subset
  <2> QED
    BY <2>2, FS_FiniteSubsetsOfFinite
<1>2. IsWellFoundedOn(StrictSubsetOrdering(S), SUBSET S)
  BY <1>1, FS_StrictSubsetOrderingWellFounded
<1>3. Tops \subseteq SUBSET S /\ Tops # {}
  OBVIOUS
<1>4. PICK top \in Tops : \A other \in Tops : <<other, top>> \notin StrictSubsetOrdering(S)
  <2> HIDE DEF Tops
  <2> QED
    BY <1>2, <1>3, WFMin
<1>5. PICK b \in S : top = Above(b)
  OBVIOUS
<1>6. ASSUME NEW c \in S, c > b PROVE FALSE
  <2>1. b \in Int /\ \A x \in S : x \in Int
    OBVIOUS
  <2>2. \A x \in S : x > c => x > b
    BY <1>6, <2>1
  <2>3. Above(c) \subseteq top
    BY <1>5, <2>2, Zenon
  <2>4. c \in top /\ c \notin Above(c)
    BY <1>5, <1>6, <2>1
  <2>5. <<Above(c), top>> \in StrictSubsetOrdering(S)
    BY <1>3, <2>3, <2>4 DEF StrictSubsetOrdering
  <2> QED
    BY <1>4, <2>5
<1> QED
  BY <1>6

LEMMA NewestIsNewest ==
    ASSUME BundleTyped, NEW k \in Kinds
    PROVE  /\ Ub!Newest(k) # 0 => IsNewest(Ub!Newest(k), k)
           /\ \A b : IsNewest(b, k) => Ub!Newest(k) = b
<1> PICK mine : mine = {b \in 1..Len(bundle) : bundle[b].kind = k /\ bundle[b].there}
  OBVIOUS
<1>1. Len(bundle) \in Nat /\ mine \in SUBSET (1..Len(bundle))
  BY DEF BundleTyped
<1>2. Ub!Newest(k) = IF mine = {} THEN 0 ELSE CHOOSE b \in mine : \A c \in mine : c <= b
  BY DEF Ub!Newest, Ub!Ids
<1>3. ASSUME Ub!Newest(k) # 0 PROVE IsNewest(Ub!Newest(k), k)
  <2>1. \E b \in mine : \A c \in mine : c <= b
    BY <1>1, <1>2, <1>3, LastPosition
  <2>2. Ub!Newest(k) \in mine /\ \A c \in mine : c <= Ub!Newest(k)
    BY <1>2, <1>3, <2>1
  <2> QED
    BY <2>2 DEF IsNewest
<1>4. ASSUME NEW b, IsNewest(b, k) PROVE Ub!Newest(k) = b
  <2>1. b \in mine /\ \A c \in mine : c <= b
    BY <1>4 DEF IsNewest
  <2>2. Ub!Newest(k) \in mine /\ \A c \in mine : c <= Ub!Newest(k)
    BY <1>2, <2>1
  <2> QED
    BY <1>1, <2>1, <2>2
<1> QED
  BY <1>3, <1>4

(* What a list is for depends on the lists only.                              *)
LEMMA ListsStay ==
    ASSUME bundle' = bundle
    PROVE  /\ \A b, k : IsNewest(b, k)' <=> IsNewest(b, k)
           /\ \A b : IsThere(b)' <=> IsThere(b)
BY DEF IsNewest, IsThere

LEMMA OtherBuilds ==
    ASSUME bundle' = bundle, NEW k \in Kinds, build'[k] = build[k], BuildHolds(k) PROVE BuildHolds(k)'
BY DEF BuildHolds, IsNewest

LEMMA TasksStay ==
    ASSUME BundleInv, bundle' = bundle, tasks' = tasks PROVE \A t \in 1..Len(tasks') : TaskThere(t)'
BY DEF BundleInv, TaskThere, Ub!Wanted, IsThere

LEMMA DesiredStays ==
    ASSUME BundleInv, bundle' = bundle, desired' = desired PROVE \A k \in Kinds : DesiredThere(k)'
BY DEF BundleInv, DesiredThere, IsThere

(* A build picks the newest list, or none: it decrypts, or reuses. *)
LEMMA BuildBegins ==
    ASSUME BundleInv, NEW k \in Kinds, Ub!Reuse(k) \/ Ub!Decrypt(k) PROVE BundleInv'
<1>1. /\ bundle' = bundle /\ tasks' = tasks /\ desired' = desired /\ today' = today /\ users' = users
      /\ \E new \in [at : {"collect", "write", "source", "create"}, source : Sources, bundle : Nat] :
            /\ build' = [build EXCEPT ![k] = new]
            /\ new.at = "create" => new.bundle = 0
            /\ new.at # "create" => new.bundle # 0 /\ new.bundle = Ub!Newest(k)
  <2>1. users[k] \in Sources
    BY DEF BundleInv, BundleTyped
  <2>2. Ub!Newest(k) # 0 => Ub!Newest(k) \in Nat
    BY NewestIsNewest DEF BundleInv, IsNewest
  <2>3. CASE Ub!Reuse(k)
    <3>1. PICK new : new = [at |-> IF k = "vless" THEN "collect" ELSE "write", source |-> users[k], bundle |-> Ub!Newest(k)]
      OBVIOUS
    <3>2. build' = [build EXCEPT ![k] = new] /\ Ub!Newest(k) # 0
      BY <2>3, <3>1 DEF Ub!Reuse, Ub!Unchanged
    <3>3. /\ new \in [at : {"collect", "write", "source", "create"}, source : Sources, bundle : Nat]
          /\ new.at # "create" /\ new.bundle = Ub!Newest(k)
      BY <2>1, <2>2, <3>1, <3>2
    <3> QED
      BY <2>3, <3>2, <3>3 DEF Ub!Reuse
  <2>4. CASE Ub!Decrypt(k)
    <3>1. PICK same \in BOOLEAN : same = (Ub!Newest(k) # 0 /\ bundle[Ub!Newest(k)].value = ValueOf[users[k]])
      OBVIOUS
    <3>2. PICK new : new = [at |-> IF same THEN "source" ELSE "create", source |-> users[k],
                            bundle |-> IF same THEN Ub!Newest(k) ELSE 0]
      OBVIOUS
    <3>3. build' = [build EXCEPT ![k] = new]
      BY <2>4, <3>1, <3>2 DEF Ub!Decrypt
    <3>4. /\ new \in [at : {"collect", "write", "source", "create"}, source : Sources, bundle : Nat]
          /\ new.at = "create" => new.bundle = 0
          /\ new.at # "create" => new.bundle # 0 /\ new.bundle = Ub!Newest(k)
      BY <2>1, <2>2, <3>1, <3>2
    <3> QED
      BY <2>4, <3>3, <3>4 DEF Ub!Decrypt
  <2> QED
    BY <2>3, <2>4
<1>2. PICK new \in [at : {"collect", "write", "source", "create"}, source : Sources, bundle : Nat] :
            /\ build' = [build EXCEPT ![k] = new]
            /\ new.at = "create" => new.bundle = 0
            /\ new.at # "create" => new.bundle # 0 /\ new.bundle = Ub!Newest(k)
  BY <1>1
<1>3. build \in [Kinds -> BundleBuild]
  BY DEF BundleInv, BundleTyped
<1>4. build'[k] = new /\ \A l \in Kinds : l # k => build'[l] = build[l]
  BY <1>2, <1>3
<1>5. BundleTyped'
  <2>1. new \in BundleBuild
    BY <1>2 DEF BundleBuild
  <2> QED
    BY <1>1, <1>2, <2>1 DEF BundleInv, BundleTyped
<1>6. BuildHolds(k)'
  <2>1. new.at # "create" => IsNewest(new.bundle, k)
    BY <1>2, NewestIsNewest DEF BundleInv
  <2>2. new.at # "create" => IsNewest(new.bundle, k)'
    BY <1>1, <2>1, ListsStay
  <2>3. new.at # "idle" /\ build'[k] = new
    BY <1>2, <1>4
  <2> QED
    BY <1>2, <2>2, <2>3 DEF BuildHolds
<1>7. \A l \in Kinds : BuildHolds(l)'
  BY <1>1, <1>4, <1>6, OtherBuilds DEF BundleInv
<1> QED
  BY <1>1, <1>5, <1>7, TasksStay, DesiredStays DEF BundleInv

(* The newest list becomes what the desired state names. *)
LEMMA BuildWrites ==
    ASSUME BundleInv, NEW k \in Kinds, Ub!WriteDesired(k) PROVE BundleInv'
<1>1. /\ build[k].at = "write" /\ desired' = [desired EXCEPT ![k] = build[k].bundle]
      /\ bundle' = bundle /\ tasks' = tasks /\ today' = today /\ users' = users
      /\ build' = [build EXCEPT ![k].at = "enqueue"] \/ build' = [build EXCEPT ![k] = Ub!Resting]
  BY DEF Ub!WriteDesired, Ub!Step
<1>2. build \in [Kinds -> BundleBuild] /\ build[k] \in BundleBuild /\ desired \in [Kinds -> Nat]
  BY DEF BundleInv, BundleTyped
<1>3. IsNewest(build[k].bundle, k)
  BY <1>1 DEF BundleInv, BuildHolds
<1>4. Ub!Resting \in BundleBuild /\ Ub!Resting.at = "idle" /\ Ub!Resting.bundle = 0
  BY DEF Ub!Resting, BundleBuild
<1>5. /\ build' \in [Kinds -> BundleBuild] /\ \A l \in Kinds : l # k => build'[l] = build[l]
      /\ \/ build'[k].at = "enqueue" /\ build'[k].bundle = build[k].bundle
         \/ build'[k].at = "idle" /\ build'[k].bundle = 0
  <2>1. CASE build' = [build EXCEPT ![k].at = "enqueue"]
    <3>1. PICK new : new = [build[k] EXCEPT !.at = "enqueue"]
      OBVIOUS
    <3>2. new \in BundleBuild /\ new.at = "enqueue" /\ new.bundle = build[k].bundle
      BY <1>2, <3>1 DEF BundleBuild
    <3>3. build' = [build EXCEPT ![k] = new]
      BY <2>1, <3>1
    <3> QED
      BY <1>2, <3>2, <3>3
  <2>2. CASE build' = [build EXCEPT ![k] = Ub!Resting]
    BY <1>2, <1>4, <2>2
  <2> QED
    BY <1>1, <2>1, <2>2
<1>6. BundleTyped'
  <2>1. desired' \in [Kinds -> Nat]
    BY <1>1, <1>2 DEF BundleBuild
  <2> QED
    BY <1>1, <1>5, <2>1 DEF BundleInv, BundleTyped
<1>7. BuildHolds(k)'
  <2>1. PICK b : b = build[k].bundle
    OBVIOUS
  <2>2. IsNewest(b, k)'
    BY <1>1, <1>3, <2>1, ListsStay
  <2> QED
    BY <1>5, <2>1, <2>2 DEF BuildHolds
<1>8. \A l \in Kinds : BuildHolds(l)'
  BY <1>1, <1>5, <1>7, OtherBuilds DEF BundleInv
<1>9. \A l \in Kinds : DesiredThere(l)'
  BY <1>1, <1>2, <1>3 DEF BundleInv, DesiredThere, IsThere, IsNewest
<1> QED
  BY <1>1, <1>6, <1>8, <1>9, TasksStay DEF BundleInv

(* A task names the list that its build has just published. *)
LEMMA BuildQueues ==
    ASSUME BundleInv, NEW k \in Kinds, Ub!Enqueue(k) PROVE BundleInv'
<1>1. PICK task : task = [kind |-> k, bundle |-> build[k].bundle, status |-> "pending", attempts |-> 0]
  OBVIOUS
<1>2. /\ build[k].at = "enqueue" /\ tasks' = Append(tasks, task) /\ build' = [build EXCEPT ![k] = Ub!Resting]
      /\ bundle' = bundle /\ desired' = desired /\ today' = today /\ users' = users
  BY <1>1 DEF Ub!Enqueue
<1>3. build \in [Kinds -> BundleBuild] /\ build[k] \in BundleBuild /\ tasks \in Seq(BundleTask)
  BY DEF BundleInv, BundleTyped
<1>4. Ub!Resting \in BundleBuild /\ Ub!Resting.at = "idle" /\ Ub!Resting.bundle = 0
  BY DEF Ub!Resting, BundleBuild
<1>5. IsThere(build[k].bundle)
  BY <1>2 DEF BundleInv, BuildHolds, IsNewest, IsThere
<1>6. task \in BundleTask /\ task.bundle = build[k].bundle
  BY <1>1, <1>3 DEF BundleTask, BundleBuild
<1>7. /\ Len(tasks') = Len(tasks) + 1 /\ tasks'[Len(tasks) + 1] = task
      /\ \A t \in 1..Len(tasks) : tasks'[t] = tasks[t]
  BY <1>2, <1>3
<1>8. BundleTyped'
  BY <1>2, <1>3, <1>4, <1>6 DEF BundleInv, BundleTyped
<1>9. \A l \in Kinds : BuildHolds(l)'
  <2>1. BuildHolds(k)'
    BY <1>2, <1>3, <1>4 DEF BuildHolds
  <2> QED
    BY <1>2, <1>3, <2>1, OtherBuilds DEF BundleInv
<1>10. ASSUME NEW t \in 1..Len(tasks') PROVE TaskThere(t)'
  <2>1. CASE t = Len(tasks) + 1
    BY <1>2, <1>5, <1>6, <1>7, <2>1 DEF TaskThere, IsThere
  <2>2. CASE t # Len(tasks) + 1
    <3>1. t \in 1..Len(tasks)
      BY <1>3, <1>7, <2>2
    <3> QED
      BY <1>2, <1>7, <3>1 DEF BundleInv, TaskThere, IsThere, Ub!Wanted
  <2> QED
    BY <2>1, <2>2
<1> QED
  BY <1>2, <1>8, <1>9, <1>10, DesiredStays DEF BundleInv

(* A step after which every list that was the newest of its kind still is, and *)
(* everything that was named is still there.                                   *)
LEMMA ListsKept ==
    ASSUME BundleInv, BundleTyped', desired' = desired, tasks' = tasks, Len(bundle') = Len(bundle),
           \A l \in Kinds : build'[l].bundle = build[l].bundle,
           \A l \in Kinds : (build'[l].at \in {"idle", "create"}) = (build[l].at \in {"idle", "create"}),
           \A l \in Kinds : build'[l].at = "create" => build'[l].source = build[l].source /\ build[l].at = "create",
           \A l \in Kinds, b \in Nat : IsNewest(b, l) => IsNewest(b, l)',
           \A l \in Kinds : DesiredThere(l)',
           \A t \in 1..Len(tasks) : Ub!Wanted(t) => IsThere(tasks[t].bundle)'
    PROVE  BundleInv'
<1>1. ASSUME NEW l \in Kinds PROVE BuildHolds(l)'
  <2>1. PICK b : b = build[l].bundle
    OBVIOUS
  <2>2. b \in Nat
    BY <2>1 DEF BundleInv, BundleTyped, BundleBuild
  <2>3. build[l].at \notin {"idle", "create"} => IsNewest(b, l)'
    BY <2>1, <2>2 DEF BundleInv, BuildHolds
  <2> QED
    BY <2>1, <2>3 DEF BundleInv, BuildHolds
<1>2. ASSUME NEW t \in 1..Len(tasks) PROVE TaskThere(t)'
  <2>1. Ub!Wanted(t)' => Ub!Wanted(t)
    BY DEF Ub!Wanted
  <2> QED
    BY <2>1 DEF BundleInv, TaskThere
<1> QED
  BY <1>1, <1>2 DEF BundleInv

(* UPDATE secret_materials leaves the lists where they are. *)
LEMMA BuildMarks ==
    ASSUME BundleInv, NEW k \in Kinds, Ub!SetSource(k) PROVE BundleInv'
<1>1. PICK b : b = build[k].bundle
  OBVIOUS
<1>2. /\ build[k].at = "source" /\ bundle' = [bundle EXCEPT ![b].source = build[k].source]
      /\ build' = [build EXCEPT ![k].at = "collect"]
      /\ tasks' = tasks /\ desired' = desired /\ today' = today /\ users' = users
  BY <1>1 DEF Ub!SetSource, Ub!Step
<1>3. build \in [Kinds -> BundleBuild] /\ build[k] \in BundleBuild /\ bundle \in Seq(BundleRow) /\ b \in 1..Len(bundle)
  BY <1>1, <1>2 DEF BundleInv, BundleTyped, BuildHolds, IsNewest
<1>4. PICK new : new = [bundle[b] EXCEPT !.source = build[k].source]
  OBVIOUS
<1>5. bundle[b] \in BundleRow
  BY <1>3
<1>6. new \in BundleRow /\ new.kind = bundle[b].kind /\ new.there = bundle[b].there
  BY <1>3, <1>4, <1>5 DEF BundleRow, BundleBuild
<1>7. bundle' = [bundle EXCEPT ![b] = new]
  BY <1>2, <1>4
<1>8. /\ bundle' \in Seq(BundleRow) /\ Len(bundle') = Len(bundle)
      /\ \A c \in 1..Len(bundle) : bundle'[c] = IF c = b THEN new ELSE bundle[c]
  BY <1>3, <1>6, <1>7
<1>9. \A c \in 1..Len(bundle) : bundle'[c].kind = bundle[c].kind /\ bundle'[c].there = bundle[c].there
  BY <1>6, <1>8
<1>10. PICK next : next = [build[k] EXCEPT !.at = "collect"]
  OBVIOUS
<1>11. next \in BundleBuild /\ next.at = "collect" /\ next.bundle = build[k].bundle
  BY <1>3, <1>10 DEF BundleBuild
<1>12. build'[k] = next /\ build' \in [Kinds -> BundleBuild] /\ \A l \in Kinds : l # k => build'[l] = build[l]
  BY <1>2, <1>3, <1>10, <1>11
<1>13. BundleTyped'
  BY <1>2, <1>8, <1>12 DEF BundleInv, BundleTyped
<1>14. \A l \in Kinds, c \in Nat : IsNewest(c, l) => IsNewest(c, l)'
  BY <1>8, <1>9 DEF IsNewest
<1>15. \A l \in Kinds : DesiredThere(l)'
  BY <1>2, <1>8, <1>9 DEF BundleInv, DesiredThere, IsThere
<1>16. \A t \in 1..Len(tasks) : Ub!Wanted(t) => IsThere(tasks[t].bundle)'
  BY <1>2, <1>8, <1>9 DEF BundleInv, TaskThere, IsThere
<1>17. /\ \A l \in Kinds : build'[l].bundle = build[l].bundle
       /\ \A l \in Kinds : (build'[l].at \in {"idle", "create"}) = (build[l].at \in {"idle", "create"})
       /\ \A l \in Kinds : build'[l].at = "create" => build'[l].source = build[l].source /\ build[l].at = "create"
  BY <1>2, <1>11, <1>12
<1> QED
  BY <1>2, <1>8, <1>13, <1>14, <1>15, <1>16, <1>17, ListsKept

(* What is collected is neither the newest of its kind nor named by anything. *)
LEMMA CollectionSpares ==
    ASSUME BundleInv, bundle' = Ub!Collected, tasks' = tasks, desired' = desired, today' = today, users' = users,
           build' \in [Kinds -> BundleBuild],
           \A l \in Kinds : build'[l].bundle = build[l].bundle,
           \A l \in Kinds : (build'[l].at \in {"idle", "create"}) = (build[l].at \in {"idle", "create"}),
           \A l \in Kinds : build'[l].at = "create" => build'[l].source = build[l].source /\ build[l].at = "create"
    PROVE  BundleInv'
<1>1. bundle \in Seq(BundleRow) /\ Len(bundle) \in Nat
  BY DEF BundleInv, BundleTyped
<1>2. PICK taken : taken = Ub!Garbage
  OBVIOUS
<1>3. bundle' = [b \in 1..Len(bundle) |-> IF b \in taken THEN [bundle[b] EXCEPT !.there = FALSE] ELSE bundle[b]]
  BY <1>2 DEF Ub!Collected, Ub!Ids
<1>4. /\ Len(bundle') = Len(bundle) /\ bundle' \in Seq(BundleRow)
      /\ \A b \in 1..Len(bundle) : /\ bundle'[b].kind = bundle[b].kind
                                   /\ bundle'[b].there => bundle[b].there
                                   /\ b \notin taken => bundle'[b] = bundle[b]
  <2>1. ASSUME NEW b \in 1..Len(bundle)
        PROVE  /\ bundle'[b] \in BundleRow /\ bundle'[b].kind = bundle[b].kind
               /\ bundle'[b].there => bundle[b].there
               /\ b \notin taken => bundle'[b] = bundle[b]
    <3>1. bundle[b] \in BundleRow
      BY <1>1
    <3>2. PICK new : new = [bundle[b] EXCEPT !.there = FALSE]
      OBVIOUS
    <3>3. new \in BundleRow /\ new.kind = bundle[b].kind /\ new.there = FALSE
      BY <3>1, <3>2 DEF BundleRow
    <3>4. bundle'[b] = IF b \in taken THEN new ELSE bundle[b]
      BY <1>3, <3>2
    <3> QED
      BY <3>1, <3>3, <3>4
  <2>2. Len(bundle') = Len(bundle)
    BY <1>1, <1>3
  <2>3. bundle' \in Seq(BundleRow)
    BY <1>1, <1>3, <2>1
  <2> QED
    BY <2>1, <2>2, <2>3
<1>5. \A l \in Kinds, c \in Nat : IsNewest(c, l) => c \notin taken
  BY <1>2, NewestIsNewest DEF Ub!Garbage, BundleInv, IsNewest
<1>6. \A l \in Kinds, c \in Nat : IsNewest(c, l) => IsNewest(c, l)'
  BY <1>4, <1>5 DEF IsNewest
<1>7. \A l \in Kinds : DesiredThere(l)'
  <2>1. ASSUME NEW l \in Kinds PROVE desired[l] \notin taken
    BY <1>2 DEF Ub!Garbage
  <2> QED
    BY <1>4, <2>1 DEF BundleInv, DesiredThere, IsThere
<1>8. ASSUME NEW t \in 1..Len(tasks), Ub!Wanted(t) PROVE IsThere(tasks[t].bundle)'
  <2>1. tasks[t].bundle \notin taken
    BY <1>2, <1>8 DEF Ub!Garbage, Ub!TaskIds
  <2>2. IsThere(tasks[t].bundle)
    BY <1>8 DEF BundleInv, TaskThere
  <2> QED
    BY <1>4, <2>1, <2>2 DEF IsThere
<1>9. BundleTyped'
  BY <1>4 DEF BundleInv, BundleTyped
<1> QED
  BY <1>4, <1>6, <1>7, <1>8, <1>9, ListsKept

LEMMA Collections ==
    ASSUME BundleInv, (\E k \in Kinds : Ub!Collect(k)) \/ Ub!HeartbeatCollects PROVE BundleInv'
<1>1. build \in [Kinds -> BundleBuild]
  BY DEF BundleInv, BundleTyped
<1>2. ASSUME NEW k \in Kinds, Ub!Collect(k) PROVE BundleInv'
  <2>1. /\ build[k].at = "collect" /\ build' = [build EXCEPT ![k].at = "write"] /\ bundle' = Ub!Collected
        /\ today' = today /\ users' = users /\ desired' = desired /\ tasks' = tasks
    BY <1>2 DEF Ub!Collect, Ub!Step
  <2>2. PICK next : next = [build[k] EXCEPT !.at = "write"]
    OBVIOUS
  <2>3. build[k] \in BundleBuild
    BY <1>1
  <2>4. next \in BundleBuild /\ next.at = "write" /\ next.bundle = build[k].bundle
    BY <2>2, <2>3 DEF BundleBuild
  <2>5. build'[k] = next /\ build' \in [Kinds -> BundleBuild] /\ \A l \in Kinds : l # k => build'[l] = build[l]
    BY <1>1, <2>1, <2>2, <2>4
  <2>6. /\ \A l \in Kinds : build'[l].bundle = build[l].bundle
        /\ \A l \in Kinds : (build'[l].at \in {"idle", "create"}) = (build[l].at \in {"idle", "create"})
        /\ \A l \in Kinds : build'[l].at = "create" => build'[l].source = build[l].source /\ build[l].at = "create"
    BY <2>1, <2>4, <2>5
  <2> QED
    BY <2>1, <2>5, <2>6, CollectionSpares
<1>3. ASSUME Ub!HeartbeatCollects PROVE BundleInv'
  <2>1. /\ build' = build /\ bundle' = Ub!Collected
        /\ today' = today /\ users' = users /\ desired' = desired /\ tasks' = tasks
    BY <1>3 DEF Ub!HeartbeatCollects
  <2> QED
    BY <1>1, <2>1, CollectionSpares
<1> QED
  BY <1>2, <1>3

(* A new list is the newest of its kind, and takes nothing from the others. *)
LEMMA BuildCreates ==
    ASSUME BundleInv, NEW k \in Kinds, Ub!Create(k) PROVE BundleInv'
<1>1. PICK new : new = [kind |-> k, value |-> ValueOf[build[k].source], source |-> Ub!NoSource, day |-> today, there |-> TRUE]
  OBVIOUS
<1>2. /\ build[k].at = "create" /\ bundle' = Append(bundle, new)
      /\ build' = [build EXCEPT ![k].at = "source", ![k].bundle = Len(bundle) + 1]
      /\ today' = today /\ users' = users /\ desired' = desired /\ tasks' = tasks
  BY <1>1 DEF Ub!Create
<1>3. /\ build \in [Kinds -> BundleBuild] /\ build[k] \in BundleBuild /\ bundle \in Seq(BundleRow) /\ Len(bundle) \in Nat
      /\ today \in Nat /\ build[k].source \in Sources
  BY <1>2 DEF BundleInv, BundleTyped, BuildHolds
<1>4. new \in BundleRow /\ new.kind = k /\ new.there
  BY <1>1, <1>3 DEF BundleRow
<1>5. /\ Len(bundle') = Len(bundle) + 1 /\ bundle'[Len(bundle) + 1] = new /\ bundle' \in Seq(BundleRow)
      /\ \A b \in 1..Len(bundle) : bundle'[b] = bundle[b]
  BY <1>2, <1>3, <1>4
<1>6. PICK next : next = [build[k] EXCEPT !.at = "source", !.bundle = Len(bundle) + 1]
  OBVIOUS
<1>7. next \in BundleBuild /\ next.at = "source" /\ next.bundle = Len(bundle) + 1
  <2>1. next = [at |-> "source", source |-> build[k].source, bundle |-> Len(bundle) + 1]
    BY <1>3, <1>6 DEF BundleBuild
  <2> QED
    BY <1>3, <2>1 DEF BundleBuild
<1>8. build'[k] = next /\ build' \in [Kinds -> BundleBuild] /\ \A l \in Kinds : l # k => build'[l] = build[l]
  BY <1>2, <1>3, <1>6, <1>7
<1>9. BundleTyped'
  BY <1>2, <1>5, <1>8 DEF BundleInv, BundleTyped
<1>10. \A b : IsThere(b) => IsThere(b)'
  BY <1>3, <1>5 DEF IsThere
<1>11. ASSUME NEW l \in Kinds, l # k PROVE BuildHolds(l)'
  <2>1. PICK b : b = build[l].bundle
    OBVIOUS
  <2>2. IsNewest(b, l) => IsNewest(b, l)'
    BY <1>3, <1>4, <1>5, <1>11 DEF IsNewest
  <2> QED
    BY <1>8, <1>11, <2>1, <2>2 DEF BundleInv, BuildHolds
<1>12. BuildHolds(k)'
  <2>1. PICK b : b = Len(bundle) + 1
    OBVIOUS
  <2>2. IsNewest(b, k)'
    BY <1>3, <1>4, <1>5, <2>1 DEF IsNewest
  <2> QED
    BY <1>7, <1>8, <2>1, <2>2 DEF BuildHolds
<1>13. \A l \in Kinds : DesiredThere(l)'
  <2> TAKE l \in Kinds
  <2>1. PICK b : b = desired[l]
    OBVIOUS
  <2>2. b # 0 => IsThere(b)'
    BY <1>10, <2>1 DEF BundleInv, DesiredThere
  <2> QED
    BY <1>2, <2>1, <2>2 DEF DesiredThere
<1>14. ASSUME NEW t \in 1..Len(tasks) PROVE TaskThere(t)'
  <2>1. PICK b : b = tasks[t].bundle
    OBVIOUS
  <2>2. b \in 1..Len(bundle') /\ (Ub!Wanted(t) => IsThere(b)')
    BY <1>3, <1>5, <1>10, <2>1 DEF BundleInv, TaskThere
  <2>3. Ub!Wanted(t)' <=> Ub!Wanted(t)
    BY <1>2 DEF Ub!Wanted
  <2> QED
    BY <1>2, <2>1, <2>2, <2>3 DEF TaskThere
<1>15. tasks' = tasks
  BY <1>2
<1>16. \A l \in Kinds : BuildHolds(l)'
  BY <1>11, <1>12
<1>17. \A t \in 1..Len(tasks') : TaskThere(t)'
  BY <1>14, <1>15
<1> QED
  BY <1>9, <1>13, <1>16, <1>17 DEF BundleInv

(* A task only ever moves to where it still finds its list. *)
LEMMA BundleTaskMoves ==
    ASSUME BundleInv, NEW t \in Ub!TaskIds, Ub!Pull(t) \/ Ub!TaskMoves(t) PROVE BundleInv'
<1>1. t \in 1..Len(tasks) /\ tasks \in Seq(BundleTask) /\ tasks[t] \in BundleTask
  BY DEF Ub!TaskIds, BundleInv, BundleTyped
<1>2. today' = today /\ users' = users /\ bundle' = bundle /\ desired' = desired /\ build' = build
  BY DEF Ub!Pull, Ub!TaskMoves
<1>3. \E new \in BundleTask :
         /\ tasks' = [tasks EXCEPT ![t] = new] /\ new.bundle = tasks[t].bundle
         /\ new.status \in {"pending", "running"} => Ub!Wanted(t)
         /\ new.status = "failed" => tasks[t].status = "running"
  <2>1. CASE Ub!Pull(t)
    <3>1. PICK new : new = [tasks[t] EXCEPT !.status = "running", !.attempts = @ + 1]
      OBVIOUS
    <3>2. tasks' = [tasks EXCEPT ![t] = new] /\ tasks[t].status = "pending"
      BY <2>1, <3>1 DEF Ub!Pull
    <3>3. new \in BundleTask /\ new.bundle = tasks[t].bundle /\ new.status = "running"
      <4>1. new = [kind |-> tasks[t].kind, bundle |-> tasks[t].bundle, status |-> "running", attempts |-> tasks[t].attempts + 1]
        BY <1>1, <3>1 DEF BundleTask
      <4> QED
        BY <1>1, <4>1 DEF BundleTask
    <3> QED
      BY <3>2, <3>3 DEF Ub!Wanted
  <2>2. CASE Ub!TaskMoves(t)
    <3>1. PICK to \in {"pending", "running", "succeeded", "failed", "deleted"} :
             /\ tasks' = [tasks EXCEPT ![t].status = to]
             /\ to = "pending" => Ub!Wanted(t)
             /\ to # "running"
             /\ to = "failed" => tasks[t].status = "running"
      BY <2>2 DEF Ub!TaskMoves, Ub!Becomes, Ub!Wanted
    <3>2. PICK new : new = [tasks[t] EXCEPT !.status = to]
      OBVIOUS
    <3>3. tasks' = [tasks EXCEPT ![t] = new]
      BY <3>1, <3>2
    <3>4. new \in BundleTask /\ new.bundle = tasks[t].bundle /\ new.status = to
      BY <1>1, <3>2 DEF BundleTask
    <3> QED
      BY <3>1, <3>3, <3>4
  <2> QED
    BY <2>1, <2>2
<1>4. PICK new \in BundleTask :
         /\ tasks' = [tasks EXCEPT ![t] = new] /\ new.bundle = tasks[t].bundle
         /\ new.status \in {"pending", "running"} => Ub!Wanted(t)
         /\ new.status = "failed" => tasks[t].status = "running"
  BY <1>3
<1>5. /\ tasks' \in Seq(BundleTask) /\ Len(tasks') = Len(tasks) /\ tasks'[t] = new
      /\ \A s \in 1..Len(tasks) : s # t => tasks'[s] = tasks[s]
  BY <1>1, <1>4
<1>6. BundleTyped'
  BY <1>2, <1>5 DEF BundleInv, BundleTyped
<1>7. ASSUME NEW s \in 1..Len(tasks) PROVE TaskThere(s)'
  <2>1. tasks'[s].bundle = tasks[s].bundle
    BY <1>4, <1>5
  <2>2. Ub!Wanted(s)' => Ub!Wanted(s)
    <3>1. CASE s = t
      BY <1>4, <1>5, <3>1 DEF Ub!Wanted
    <3>2. CASE s # t
      BY <1>5, <3>2 DEF Ub!Wanted
    <3> QED
      BY <3>1, <3>2
  <2> QED
    BY <1>2, <2>1, <2>2 DEF BundleInv, TaskThere, IsThere
<1>8. \A l \in Kinds : BuildHolds(l)'
  BY <1>2, OtherBuilds DEF BundleInv
<1> QED
  BY <1>2, <1>5, <1>6, <1>7, <1>8, DesiredStays DEF BundleInv

LEMMA BundleRest ==
    ASSUME BundleInv, Ub!UsersChange \/ Ub!NextDay \/ Ub!Crash PROVE BundleInv'
<1>1. bundle' = bundle /\ desired' = desired /\ tasks' = tasks
  BY DEF Ub!UsersChange, Ub!NextDay, Ub!Crash
<1>2. Ub!Resting \in BundleBuild /\ Ub!Resting.at = "idle" /\ Ub!Resting.bundle = 0
  BY DEF Ub!Resting, BundleBuild
<1>3. build' = build \/ build' = [l \in Kinds |-> Ub!Resting]
  BY DEF Ub!UsersChange, Ub!NextDay, Ub!Crash
<1>4. BundleTyped'
  <2>1. users' \in [Kinds -> Sources] /\ today' \in Nat
    <3>1. users \in [Kinds -> Sources] /\ today \in Nat
      BY DEF BundleInv, BundleTyped
    <3>2. CASE Ub!UsersChange
      BY <3>1, <3>2 DEF Ub!UsersChange
    <3>3. CASE Ub!NextDay
      BY <3>1, <3>3 DEF Ub!NextDay
    <3>4. CASE Ub!Crash
      BY <3>1, <3>4 DEF Ub!Crash
    <3> QED
      BY <3>2, <3>3, <3>4
  <2>2. build' \in [Kinds -> BundleBuild]
    BY <1>2, <1>3 DEF BundleInv, BundleTyped
  <2> QED
    BY <1>1, <2>1, <2>2 DEF BundleInv, BundleTyped
<1>5. ASSUME NEW l \in Kinds PROVE BuildHolds(l)'
  <2>1. CASE build' = build
    BY <1>1, <2>1, OtherBuilds DEF BundleInv
  <2>2. CASE build' = [m \in Kinds |-> Ub!Resting]
    BY <1>2, <2>2 DEF BuildHolds
  <2> QED
    BY <1>3, <2>1, <2>2
<1> QED
  BY <1>1, <1>4, <1>5, TasksStay, DesiredStays DEF BundleInv

(* collectUserBundles never takes a list that the desired state, a task that   *)
(* can still be handed out or retried, or a build in progress names: with any   *)
(* number of kinds, lists and tasks, and wherever the Controller stops.         *)
THEOREM ListsStayReadable == StoreSpec => []BundlesReadable
<1>1. BundleInv /\ [Ub!Next]_bundleVars => BundleInv'
  <2> SUFFICES ASSUME BundleInv, [Ub!Next]_bundleVars PROVE BundleInv'
    OBVIOUS
  <2>1. ASSUME NEW k \in Kinds, Ub!BuildStep(k) PROVE BundleInv'
    <3>1. \/ Ub!Reuse(k) \/ Ub!Decrypt(k) \/ Ub!Create(k) \/ Ub!SetSource(k)
          \/ Ub!Collect(k) \/ Ub!WriteDesired(k) \/ Ub!Enqueue(k)
      BY <2>1 DEF Ub!BuildStep
    <3> QED
      BY <3>1, BuildBegins, BuildCreates, BuildMarks, Collections, BuildWrites, BuildQueues
  <2>2. ASSUME Ub!HeartbeatCollects \/ Ub!UsersChange \/ Ub!NextDay \/ Ub!Crash PROVE BundleInv'
    BY <2>2, Collections, BundleRest
  <2>3. ASSUME NEW t \in Ub!TaskIds, Ub!Pull(t) \/ Ub!TaskMoves(t) PROVE BundleInv'
    BY <2>3, BundleTaskMoves
  <2>4. CASE UNCHANGED bundleVars
    <3>1. today' = today /\ users' = users /\ bundle' = bundle /\ desired' = desired /\ tasks' = tasks /\ build' = build
      BY <2>4 DEF bundleVars
    <3>2. BundleTyped'
      BY <3>1 DEF BundleInv, BundleTyped
    <3>3. \A l \in Kinds : BuildHolds(l)'
      BY <3>1, OtherBuilds DEF BundleInv
    <3> QED
      BY <3>1, <3>2, <3>3, TasksStay, DesiredStays DEF BundleInv
  <2> QED
    BY <2>1, <2>2, <2>3, <2>4 DEF Ub!Next
<1>2. BundleInv => BundlesReadable
  <2> SUFFICES ASSUME BundleInv PROVE BundlesReadable
    OBVIOUS
  <2>1. \A k \in Kinds : desired[k] # 0 => bundle[desired[k]].there
    BY DEF BundleInv, DesiredThere, IsThere
  <2>2. \A k \in Kinds : build[k].bundle # 0 => bundle[build[k].bundle].there
    BY DEF BundleInv, BuildHolds, IsNewest
  <2>3. ASSUME NEW t \in 1..Len(tasks), ~bundle[tasks[t].bundle].there
        PROVE  \/ tasks[t].status \in {"succeeded", "deleted"}
               \/ tasks[t].status = "failed" /\ tasks[t].attempts >= MaxAttempts
    <3>1. tasks[t].status \in {"pending", "running", "succeeded", "failed", "deleted"} /\ tasks[t].attempts \in Nat
      <4>1. tasks[t] \in BundleTask
        BY DEF BundleInv, BundleTyped
      <4> QED
        BY <4>1 DEF BundleTask
    <3>2. ~Ub!Wanted(t)
      BY <2>3 DEF BundleInv, TaskThere, IsThere
    <3> QED
      BY <3>1, <3>2, BundleConstants DEF Ub!Wanted
  <2> QED
    BY <2>1, <2>2, <2>3 DEF BundlesReadable, Ub!BundlesReadable, Ub!TaskIds
<1> QED
  BY <1>1, <1>2, BundlesRun, BundlesInit, PTL

-----------------------------------------------------------------------------
(* NodeRegistry: what a node row stands for.                                  *)

HostKeys == {HostKey[m] : m \in Machines}
HostRow == [there : BOOLEAN, endpoint : Endpoints \union {None}, machine : Machines \union {None},
            key : HostKeys \union {None}, region : Regions \union {None}, place : Names \union {None}, restored : BOOLEAN]
HostOp == [at : {"idle", "endpoint", "key", "machine", "own", "rows", "write", "install", "relabel"},
           what : {"none", "add", "bind", "edit", "rename"}, node : Nodes \union {None}, endpoint : Endpoints \union {None},
           machine : Machines \union {None}, key : HostKeys \union {None}, region : Regions \union {None},
           place : Names \union {None}]

HostTyped ==
    /\ row \in [Nodes -> HostRow] /\ op \in [Ops -> HostOp] /\ region \in [Regions -> Names \union {None}]
    /\ advisory \in [Nr!LockNames -> Ops \union {None}] /\ locked \in [Nodes -> Ops \union {None}]

(* One row: its host key is that of its machine.  Two rows: see OneRowPerMachine. *)
RowStands(n) ==
    row[n].there => /\ row[n].endpoint \in Endpoints
                    /\ row[n].key # None => row[n].machine # None /\ row[n].key = HostKey[row[n].machine]
RowsApart(n, k) ==
    n # k /\ row[n].there /\ row[k].there =>
        /\ row[n].machine # None => row[n].machine # row[k].machine
        /\ row[n].key # None /\ row[n].key = row[k].key => row[n].restored \/ row[k].restored

(* A request that knows a machine locks its host key before it looks, and at   *)
(* its write no row has that key, save those that got it written back.         *)
Signalled(o) == op[o].what \in {"add", "bind"} /\ op[o].machine # None
HoldsKey(o) ==
    Signalled(o) =>
        /\ op[o].key = HostKey[op[o].machine]
        /\ op[o].at \in {"machine", "own", "rows", "write"} => advisory[<<"key", op[o].key>>] = o
Clears(o) ==
    Signalled(o) /\ op[o].at = "write" =>
        \A q \in Nodes : q # op[o].node /\ row[q].there /\ row[q].key = op[o].key => row[q].restored

(* An addition has a row to itself. *)
Adds(o) ==
    op[o].what = "add" =>
        /\ op[o].node \in Nodes /\ ~row[op[o].node].there /\ op[o].endpoint \in Endpoints
        /\ \A p \in Ops : p # o => op[p].node # op[o].node
        /\ op[o].at \in {"endpoint", "key", "machine", "rows", "write"}
        /\ op[o].machine = None => op[o].at = "write" /\ op[o].key = None

(* A deployment holds its row from its look to its write. *)
BindsRow(o) ==
    op[o].what = "bind" =>
        /\ op[o].node \in Nodes /\ op[o].machine \in Machines
        /\ op[o].at \in {"key", "machine", "own", "rows", "write", "install"}
        /\ op[o].at \in {"rows", "write"} =>
              /\ locked[op[o].node] = o /\ row[op[o].node].there
              /\ row[op[o].node].machine \in {None, op[o].machine}
        /\ op[o].at = "install" /\ row[op[o].node].there => row[op[o].node].machine = op[o].machine

(* An edit writes a host key back that is that of the row's machine. *)
EditsRow(o) ==
    op[o].what = "edit" =>
        /\ op[o].node \in Nodes /\ op[o].endpoint \in Endpoints /\ op[o].at \in {"endpoint", "rows", "write"}
        /\ op[o].key # None /\ row[op[o].node].there =>
              row[op[o].node].machine # None /\ op[o].key = HostKey[row[op[o].node].machine]

OpHolds(o) ==
    /\ op[o].what \in {"none", "rename"} => op[o].node = None /\ op[o].at \in {"idle", "relabel"}
    /\ HoldsKey(o) /\ Clears(o) /\ Adds(o) /\ BindsRow(o) /\ EditsRow(o)

HostInv ==
    /\ HostTyped
    /\ \A n \in Nodes : RowStands(n)
    /\ \A n, k \in Nodes : RowsApart(n, k)
    /\ \A o \in Ops : OpHolds(o)

LEMMA NodesRun == StoreSpec => Nr!Init /\ [][Nr!Next]_nodeVars
<1>1. StoreInit => Nr!Init
  BY DEF StoreInit
<1>2. [StoreNext]_storeVars => [Nr!Next]_nodeVars
  BY DEF StoreNext, storeVars, nodeVars
<1> QED
  BY <1>1, <1>2, PTL DEF StoreSpec

LEMMA HostConstants ==
    /\ At \in [Endpoints -> Machines] /\ DOMAIN HostKey = Machines
    /\ None \notin Nodes /\ None \notin Machines /\ None \notin Ops /\ None \notin HostKeys
    /\ Known \in [Nodes -> Endpoints \union {None}]
    /\ \A n, k \in Nodes : n # k /\ Known[n] # None /\ Known[k] # None => At[Known[n]] # At[Known[k]]
    /\ \A m \in Machines : HostKey[m] \in HostKeys
    /\ \A k \in HostKeys : <<"key", k>> \in Nr!LockNames
BY Assumptions DEF Nr!RegistryAssumption, HostKeys, Nr!LockNames, Nr!Signals

LEMMA NodesInit == Nr!Init => HostInv
<1> SUFFICES ASSUME Nr!Init PROVE HostInv
  OBVIOUS
<1>1. PICK r \in Regions, adopted \in BOOLEAN :
         row = [n \in Nodes |-> IF Known[n] = None THEN Nr!Gone
                 ELSE [Nr!Gone EXCEPT !.there = TRUE, !.endpoint = Known[n], !.region = r, !.place = region[r],
                                      !.machine = IF adopted THEN At[Known[n]] ELSE None]]
  BY DEF Nr!Init
<1>2. /\ region \in [Regions -> Names] /\ op = [o \in Ops |-> Nr!Idle]
      /\ advisory = [l \in Nr!LockNames |-> None] /\ locked = [n \in Nodes |-> None]
  BY DEF Nr!Init
<1>3. ASSUME NEW n \in Nodes
      PROVE  /\ row[n] \in HostRow /\ row[n].key = None
             /\ row[n].there => Known[n] # None /\ row[n].endpoint \in Endpoints
             /\ row[n].machine # None => Known[n] # None /\ row[n].machine = At[Known[n]]
  <2>1. Nr!Gone \in HostRow /\ Nr!Gone.key = None /\ Nr!Gone.machine = None /\ ~Nr!Gone.there
    BY DEF Nr!Gone, HostRow
  <2>2. CASE Known[n] = None
    BY <1>1, <2>1, <2>2
  <2>3. CASE Known[n] # None
    <3>1. Known[n] \in Endpoints /\ At[Known[n]] \in Machines /\ region[r] \in Names
      BY <1>2, <2>3, HostConstants
    <3>2. row[n] = [there |-> TRUE, endpoint |-> Known[n], machine |-> IF adopted THEN At[Known[n]] ELSE None,
                    key |-> None, region |-> r, place |-> region[r], restored |-> FALSE]
      BY <1>1, <2>3 DEF Nr!Gone
    <3> QED
      BY <2>3, <3>1, <3>2 DEF HostRow
  <2> QED
    BY <2>2, <2>3
<1>4. /\ Nr!Idle \in HostOp /\ Nr!Idle.what = "none" /\ Nr!Idle.node = None /\ Nr!Idle.at = "idle"
  BY DEF Nr!Idle, HostOp
<1>5. HostTyped
  BY <1>1, <1>2, <1>3, <1>4 DEF HostTyped
<1>6. \A n \in Nodes : RowStands(n)
  BY <1>3 DEF RowStands
<1>7. \A n, k \in Nodes : RowsApart(n, k)
  BY <1>3, HostConstants DEF RowsApart
<1>8. \A o \in Ops : OpHolds(o)
  BY <1>2, <1>4 DEF OpHolds, HoldsKey, Clears, Adds, BindsRow, EditsRow, Signalled
<1> QED
  BY <1>5, <1>6, <1>7, <1>8 DEF HostInv

(* What a step of one request, or of none, may do to the rows. *)
RowMoves(o, n) ==
    /\ row'[n].there => row[n].there \/ (op[o].what = "add" /\ op[o].node = n)
    /\ row[n].there /\ row'[n].there /\ row[n].machine # None => row'[n].machine = row[n].machine
    /\ row[n].there /\ locked[n] \notin {None, o} => row'[n].there /\ row'[n].machine = row[n].machine
    /\ row'[n].there /\ row'[n].key # None /\ ~row'[n].restored =>
          \/ row[n].there /\ row[n].key = row'[n].key /\ ~row[n].restored
          \/ o \in Ops /\ Signalled(o) /\ op[o].at = "write" /\ op[o].key = row'[n].key

(* What it may not do to another request. *)
Spares(o, p) ==
    /\ op'[p] = op[p]
    /\ \A l \in Nr!LockNames : advisory[l] = p => advisory'[l] = p
    /\ \A n \in Nodes : locked[n] = p => locked'[n] = p
    /\ op[p].what = "add" => \A q \in Ops : q # p => op'[q].node # op[p].node

(* The request that has a row to itself is the one that fills it. *)
LEMMA OthersHold ==
    ASSUME HostInv, NEW o, NEW p \in Ops, p # o, Spares(o, p), \A n \in Nodes : RowMoves(o, n),
           o \in Ops \/ row' = row \/ \A n \in Nodes : row'[n].there => row[n].there
    PROVE  OpHolds(p)'
<1>1. OpHolds(p) /\ op'[p] = op[p] /\ op[p] \in HostOp /\ op \in [Ops -> HostOp]
  BY DEF HostInv, HostTyped, Spares
<1>2. op[p].what \in {"none", "rename"} => op[p].node = None /\ op[p].at \in {"idle", "relabel"}
  BY <1>1 DEF OpHolds
<1>3. HoldsKey(p)'
  <2>1. Signalled(p) => op[p].key = HostKey[op[p].machine] /\ op[p].machine \in Machines
    BY <1>1 DEF OpHolds, HoldsKey, Signalled, HostOp
  <2>2. Signalled(p) => <<"key", op[p].key>> \in Nr!LockNames
    BY <2>1, HostConstants
  <2> QED
    BY <1>1, <2>1, <2>2 DEF OpHolds, HoldsKey, Signalled, Spares
<1>4. Adds(p)'
  <2>1. CASE op[p].what # "add"
    BY <1>1, <2>1 DEF Adds
  <2>2. CASE op[p].what = "add"
    <3>1. op[p].node \in Nodes /\ ~row[op[p].node].there /\ \A q \in Ops : q # p => op[q].node # op[p].node
      BY <1>1, <2>2 DEF OpHolds, Adds
    <3>2. ~row'[op[p].node].there
      BY <3>1 DEF RowMoves
    <3>3. \A q \in Ops : q # p => op'[q].node # op[p].node
      BY <2>2 DEF Spares
    <3> QED
      BY <1>1, <2>2, <3>1, <3>2, <3>3 DEF OpHolds, Adds
  <2> QED
    BY <2>1, <2>2
<1>5. BindsRow(p)'
  <2>1. CASE op[p].what # "bind"
    BY <1>1, <2>1 DEF BindsRow
  <2>2. CASE op[p].what = "bind"
    <3>1. /\ op[p].node \in Nodes /\ op[p].machine \in Machines
          /\ op[p].at \in {"key", "machine", "own", "rows", "write", "install"}
      BY <1>1, <2>2 DEF OpHolds, BindsRow
    <3>2. ASSUME op[p].at \in {"rows", "write"}
          PROVE  locked'[op[p].node] = p /\ row'[op[p].node].there /\ row'[op[p].node].machine \in {None, op[p].machine}
      <4>1. locked[op[p].node] = p /\ row[op[p].node].there /\ row[op[p].node].machine \in {None, op[p].machine}
        BY <1>1, <2>2, <3>2 DEF OpHolds, BindsRow
      <4>2. locked[op[p].node] \notin {None, o}
        BY <4>1, HostConstants
      <4>3. row'[op[p].node].there /\ row'[op[p].node].machine = row[op[p].node].machine
        BY <3>1, <4>1, <4>2 DEF RowMoves
      <4> QED
        BY <3>1, <4>1, <4>3 DEF Spares
    <3>3. ASSUME op[p].at = "install", row'[op[p].node].there PROVE row'[op[p].node].machine = op[p].machine
      <4>1. row[op[p].node].there \/ (op[o].what = "add" /\ op[o].node = op[p].node)
        BY <3>1, <3>3 DEF RowMoves
      <4>2. CASE row[op[p].node].there
        <5>1. row[op[p].node].machine = op[p].machine /\ op[p].machine # None
          BY <1>1, <2>2, <3>1, <3>3, <4>2, HostConstants DEF OpHolds, BindsRow
        <5> QED
          BY <3>1, <3>3, <4>2, <5>1 DEF RowMoves
      <4>3. CASE ~row[op[p].node].there
        <5>1. o \in Ops
          BY <3>1, <3>3, <4>3
        <5>2. Adds(o) /\ op[o].what = "add" /\ op[o].node = op[p].node
          BY <4>1, <4>3, <5>1 DEF HostInv, OpHolds
        <5> QED
          BY <5>1, <5>2 DEF Adds
      <4> QED
        BY <4>2, <4>3
    <3> QED
      BY <1>1, <2>2, <3>1, <3>2, <3>3 DEF BindsRow
  <2> QED
    BY <2>1, <2>2
<1>6. EditsRow(p)'
  <2>1. CASE op[p].what # "edit"
    BY <1>1, <2>1 DEF EditsRow
  <2>2. CASE op[p].what = "edit"
    <3>1. op[p].node \in Nodes /\ op[p].endpoint \in Endpoints /\ op[p].at \in {"endpoint", "rows", "write"}
      BY <1>1, <2>2 DEF OpHolds, EditsRow
    <3>2. ASSUME op[p].key # None, row'[op[p].node].there
          PROVE  row'[op[p].node].machine # None /\ op[p].key = HostKey[row'[op[p].node].machine]
      <4>1. row[op[p].node].there \/ (op[o].what = "add" /\ op[o].node = op[p].node)
        BY <3>1, <3>2 DEF RowMoves
      <4>2. CASE row[op[p].node].there
        <5>1. row[op[p].node].machine # None /\ op[p].key = HostKey[row[op[p].node].machine]
          BY <1>1, <2>2, <3>2, <4>2 DEF OpHolds, EditsRow
        <5>2. row'[op[p].node].machine = row[op[p].node].machine
          BY <3>1, <3>2, <4>2, <5>1 DEF RowMoves
        <5> QED
          BY <5>1, <5>2
      <4>3. CASE ~row[op[p].node].there
        <5>1. o \in Ops
          BY <3>1, <3>2, <4>3
        <5>2. Adds(o) /\ op[o].what = "add" /\ op[o].node = op[p].node
          BY <4>1, <4>3, <5>1 DEF HostInv, OpHolds
        <5> QED
          BY <5>1, <5>2 DEF Adds
      <4> QED
        BY <4>2, <4>3
    <3> QED
      BY <1>1, <2>2, <3>1, <3>2 DEF EditsRow
  <2> QED
    BY <2>1, <2>2
<1>7. Clears(p)'
  <2> SUFFICES ASSUME Signalled(p), op[p].at = "write",
                      NEW q \in Nodes, q # op[p].node, row'[q].there, row'[q].key = op[p].key, ~row'[q].restored
               PROVE  FALSE
    BY <1>1 DEF Clears, Signalled
  <2>1. op[p].key = HostKey[op[p].machine] /\ op[p].machine \in Machines /\ advisory[<<"key", op[p].key>>] = p
    BY <1>1 DEF OpHolds, HoldsKey, Signalled, HostOp
  <2>2. op[p].key # None
    BY <2>1, HostConstants
  <2>3. CASE row[q].there /\ row[q].key = op[p].key /\ ~row[q].restored
    BY <1>1, <2>3 DEF OpHolds, Clears
  <2>4. CASE o \in Ops /\ Signalled(o) /\ op[o].at = "write" /\ op[o].key = op[p].key
    <3>1. advisory[<<"key", op[o].key>>] = o
      BY <2>4 DEF HostInv, OpHolds, HoldsKey
    <3> QED
      BY <2>1, <2>4, <3>1
  <2> QED
    BY <2>2, <2>3, <2>4 DEF RowMoves
<1> QED
  BY <1>1, <1>2, <1>3, <1>4, <1>5, <1>6, <1>7 DEF OpHolds

(* A step of one request that leaves the rows as they are. *)
LEMMA RequestMoves ==
    ASSUME HostInv, HostTyped', row' = row, NEW o \in Ops, OpHolds(o)', \A p \in Ops : p # o => Spares(o, p)
    PROVE  HostInv'
<1>1. \A n \in Nodes : RowMoves(o, n)
  BY DEF RowMoves
<1>2. \A p \in Ops : OpHolds(p)'
  BY <1>1, OthersHold
<1>3. \A n \in Nodes : RowStands(n)'
  BY DEF HostInv, RowStands
<1>4. \A n, k \in Nodes : RowsApart(n, k)'
  BY DEF HostInv, RowsApart
<1> QED
  BY <1>2, <1>3, <1>4 DEF HostInv

LEMMA RequestBegins ==
    ASSUME HostInv, NEW o \in Ops, NEW new \in HostOp, op' = [op EXCEPT ![o] = new],
           row' = row, region' \in [Regions -> Names \union {None}], advisory' = advisory, locked' = locked, OpHolds(o)',
           \A p \in Ops : p # o /\ op[p].what = "add" => new.node # op[p].node
    PROVE  HostInv'
<1>1. op \in [Ops -> HostOp]
  BY DEF HostInv, HostTyped
<1>2. HostTyped'
  BY <1>1 DEF HostInv, HostTyped
<1>3. ASSUME NEW p \in Ops, p # o PROVE Spares(o, p)
  <2>1. op'[p] = op[p]
    BY <1>1, <1>3
  <2>2. ASSUME op[p].what = "add", NEW q \in Ops, q # p PROVE op'[q].node # op[p].node
    <3>1. CASE q = o
      BY <1>1, <1>3, <2>2, <3>1
    <3>2. CASE q # o
      <4>1. op'[q] = op[q]
        BY <1>1, <3>2
      <4>2. Adds(p)
        BY DEF HostInv, OpHolds
      <4> QED
        BY <2>2, <4>1, <4>2 DEF Adds
    <3> QED
      BY <3>1, <3>2
  <2> QED
    BY <2>1, <2>2 DEF Spares
<1> QED
  BY <1>2, <1>3, RequestMoves

LEMMA AdditionBegins ==
    ASSUME HostInv, NEW o \in Ops, Nr!Add(o) PROVE HostInv'
<1>1. PICK n \in Nodes, e \in Endpoints, r \in Regions, ssh \in BOOLEAN :
         /\ ~row[n].there /\ \A p \in Ops : op[p].node # n
         /\ op' = [op EXCEPT ![o] =
                [what |-> "add", node |-> n, endpoint |-> e, region |-> r, place |-> region[r],
                 machine |-> IF ssh THEN At[e] ELSE None, key |-> IF ssh THEN HostKey[At[e]] ELSE None,
                 at |-> IF ssh THEN "endpoint" ELSE "write"]]
  BY DEF Nr!Add, Nr!Begun
<1>2. row' = row /\ region' = region /\ advisory' = advisory /\ locked' = locked
  BY DEF Nr!Add
<1>3. PICK new : new = [what |-> "add", node |-> n, endpoint |-> e, region |-> r, place |-> region[r],
                        machine |-> IF ssh THEN At[e] ELSE None, key |-> IF ssh THEN HostKey[At[e]] ELSE None,
                        at |-> IF ssh THEN "endpoint" ELSE "write"]
  OBVIOUS
<1>4. At[e] \in Machines /\ HostKey[At[e]] \in HostKeys /\ region[r] \in Names \union {None}
  BY HostConstants DEF HostInv, HostTyped
<1>5. /\ new \in HostOp /\ new.what = "add" /\ new.node = n /\ new.endpoint = e
      /\ new.machine = None => new.at = "write" /\ new.key = None
      /\ new.machine # None => new.at = "endpoint" /\ new.key = HostKey[new.machine]
  BY <1>3, <1>4, HostConstants DEF HostOp
<1>6. op' = [op EXCEPT ![o] = new] /\ op \in [Ops -> HostOp]
  BY <1>1, <1>3 DEF HostInv, HostTyped
<1>7. op'[o] = new /\ \A p \in Ops : p # o => op'[p] = op[p]
  BY <1>6
<1>8. OpHolds(o)'
  <2>1. HoldsKey(o)' /\ Clears(o)' /\ BindsRow(o)' /\ EditsRow(o)'
    BY <1>5, <1>7 DEF HoldsKey, Clears, BindsRow, EditsRow, Signalled
  <2>2. Adds(o)'
    BY <1>1, <1>2, <1>5, <1>7 DEF Adds
  <2> QED
    BY <1>5, <1>7, <2>1, <2>2 DEF OpHolds
<1>9. region' \in [Regions -> Names \union {None}]
  BY <1>2 DEF HostInv, HostTyped
<1>10. \A p \in Ops : p # o /\ op[p].what = "add" => new.node # op[p].node
  BY <1>1, <1>5
<1> QED
  BY <1>2, <1>5, <1>6, <1>8, <1>9, <1>10, RequestBegins

LEMMA DeploymentBegins ==
    ASSUME HostInv, NEW o \in Ops, Nr!Deploy(o) PROVE HostInv'
<1>1. PICK n \in Nodes :
         /\ row[n].there
         /\ op' = [op EXCEPT ![o] = [Nr!Idle EXCEPT !.what = "bind", !.node = n, !.machine = At[row[n].endpoint],
                                                    !.key = HostKey[At[row[n].endpoint]], !.at = "key"]]
  BY DEF Nr!Deploy, Nr!Begun
<1>2. row' = row /\ region' = region /\ advisory' = advisory /\ locked' = locked
  BY DEF Nr!Deploy
<1>3. PICK new : new = [Nr!Idle EXCEPT !.what = "bind", !.node = n, !.machine = At[row[n].endpoint],
                                       !.key = HostKey[At[row[n].endpoint]], !.at = "key"]
  OBVIOUS
<1>4. row[n].endpoint \in Endpoints
  BY <1>1 DEF HostInv, RowStands
<1>5. At[row[n].endpoint] \in Machines /\ HostKey[At[row[n].endpoint]] \in HostKeys
  BY <1>4, HostConstants
<1>6. new = [at |-> "key", what |-> "bind", node |-> n, endpoint |-> None, machine |-> At[row[n].endpoint],
             key |-> HostKey[At[row[n].endpoint]], region |-> None, place |-> None]
  BY <1>3 DEF Nr!Idle
<1>7. /\ new \in HostOp /\ new.what = "bind" /\ new.node = n /\ new.at = "key"
      /\ new.machine \in Machines /\ new.key = HostKey[new.machine]
  BY <1>5, <1>6 DEF HostOp
<1>8. op' = [op EXCEPT ![o] = new] /\ op \in [Ops -> HostOp]
  BY <1>1, <1>3 DEF HostInv, HostTyped
<1>9. op'[o] = new
  BY <1>8
<1>10. OpHolds(o)'
  BY <1>7, <1>9 DEF OpHolds, HoldsKey, Clears, Adds, BindsRow, EditsRow, Signalled
<1>11. region' \in [Regions -> Names \union {None}]
  BY <1>2 DEF HostInv, HostTyped
<1>12. \A p \in Ops : p # o /\ op[p].what = "add" => new.node # op[p].node
  BY <1>1, <1>7 DEF HostInv, OpHolds, Adds
<1> QED
  BY <1>2, <1>7, <1>8, <1>10, <1>11, <1>12, RequestBegins

LEMMA EditBegins ==
    ASSUME HostInv, NEW o \in Ops, Nr!Edit(o) PROVE HostInv'
<1>1. PICK n \in Nodes, e \in Endpoints, r \in Regions :
         /\ row[n].there
         /\ op' = [op EXCEPT ![o] = [what |-> "edit", node |-> n, endpoint |-> e, region |-> r, place |-> region[r],
                                     machine |-> None, key |-> row[n].key, at |-> "endpoint"]]
  BY DEF Nr!Edit, Nr!Begun
<1>2. row' = row /\ region' = region /\ advisory' = advisory /\ locked' = locked
  BY DEF Nr!Edit
<1>3. PICK new : new = [what |-> "edit", node |-> n, endpoint |-> e, region |-> r, place |-> region[r],
                        machine |-> None, key |-> row[n].key, at |-> "endpoint"]
  OBVIOUS
<1>4. row[n] \in HostRow /\ region[r] \in Names \union {None}
  BY DEF HostInv, HostTyped
<1>5. new \in HostOp /\ new.what = "edit" /\ new.node = n /\ new.endpoint = e /\ new.at = "endpoint" /\ new.key = row[n].key
  BY <1>3, <1>4 DEF HostOp, HostRow
<1>6. op' = [op EXCEPT ![o] = new] /\ op \in [Ops -> HostOp]
  BY <1>1, <1>3 DEF HostInv, HostTyped
<1>7. op'[o] = new
  BY <1>6
<1>8. RowStands(n)
  BY DEF HostInv
<1>9. EditsRow(o)'
  BY <1>1, <1>2, <1>5, <1>7, <1>8 DEF EditsRow, RowStands
<1>10. OpHolds(o)'
  BY <1>5, <1>7, <1>9 DEF OpHolds, HoldsKey, Clears, Adds, BindsRow, Signalled
<1>11. region' \in [Regions -> Names \union {None}]
  BY <1>2 DEF HostInv, HostTyped
<1>12. \A p \in Ops : p # o /\ op[p].what = "add" => new.node # op[p].node
  BY <1>1, <1>5 DEF HostInv, OpHolds, Adds
<1> QED
  BY <1>2, <1>5, <1>6, <1>10, <1>11, <1>12, RequestBegins

LEMMA RenameBegins ==
    ASSUME HostInv, NEW o \in Ops, Nr!Rename(o) PROVE HostInv'
<1>1. PICK r \in Regions, name \in Names :
         /\ region' = [region EXCEPT ![r] = name]
         /\ op' = [op EXCEPT ![o] = [Nr!Idle EXCEPT !.what = "rename", !.region = r, !.place = name, !.at = "relabel"]]
  BY DEF Nr!Rename, Nr!Begun
<1>2. row' = row /\ advisory' = advisory /\ locked' = locked
  BY DEF Nr!Rename
<1>3. PICK new : new = [Nr!Idle EXCEPT !.what = "rename", !.region = r, !.place = name, !.at = "relabel"]
  OBVIOUS
<1>4. new = [at |-> "relabel", what |-> "rename", node |-> None, endpoint |-> None, machine |-> None,
             key |-> None, region |-> r, place |-> name]
  BY <1>3 DEF Nr!Idle
<1>5. new \in HostOp /\ new.what = "rename" /\ new.node = None /\ new.at = "relabel"
  BY <1>4 DEF HostOp
<1>6. op' = [op EXCEPT ![o] = new] /\ op \in [Ops -> HostOp]
  BY <1>1, <1>3 DEF HostInv, HostTyped
<1>7. op'[o] = new
  BY <1>6
<1>8. OpHolds(o)'
  BY <1>5, <1>7 DEF OpHolds, HoldsKey, Clears, Adds, BindsRow, EditsRow, Signalled
<1>9. region' \in [Regions -> Names \union {None}]
  BY <1>1 DEF HostInv, HostTyped
<1>10. \A p \in Ops : p # o /\ op[p].what = "add" => new.node # op[p].node
  BY <1>5, HostConstants DEF HostInv, OpHolds, Adds
<1> QED
  BY <1>2, <1>5, <1>6, <1>8, <1>9, <1>10, RequestBegins

(* What a request that goes on, or ends, leaves to the others. *)
LEMMA OthersSpared ==
    ASSUME HostInv, NEW o \in Ops, NEW new \in HostOp, op' = [op EXCEPT ![o] = new], new.node \in {None, op[o].node},
           \A l \in Nr!LockNames : advisory[l] \in {None, o} \/ advisory'[l] = advisory[l],
           \A n \in Nodes : locked[n] \in {None, o} \/ locked'[n] = locked[n]
    PROVE  op' \in [Ops -> HostOp] /\ op'[o] = new /\ \A p \in Ops : p # o => Spares(o, p)
<1>1. op \in [Ops -> HostOp]
  BY DEF HostInv, HostTyped
<1>2. ASSUME NEW p \in Ops, p # o PROVE Spares(o, p)
  <2>1. op'[p] = op[p] /\ p # None
    BY <1>1, <1>2, HostConstants
  <2>2. ASSUME op[p].what = "add", NEW q \in Ops, q # p PROVE op'[q].node # op[p].node
    <3>1. op[p].node \in Nodes /\ op[q].node # op[p].node /\ op[o].node # op[p].node
      BY <1>2, <2>2 DEF HostInv, OpHolds, Adds
    <3>2. CASE q = o
      BY <1>1, <3>1, <3>2, HostConstants
    <3>3. CASE q # o
      BY <1>1, <3>1, <3>3
    <3> QED
      BY <3>2, <3>3
  <2>3. \A l \in Nr!LockNames : advisory[l] = p => advisory'[l] = p
    BY <1>2, <2>1
  <2>4. \A n \in Nodes : locked[n] = p => locked'[n] = p
    BY <1>2, <2>1
  <2> QED
    BY <2>1, <2>2, <2>3, <2>4 DEF Spares
<1> QED
  BY <1>1, <1>2

LEMMA IdleHolds == ASSUME NEW o \in Ops, op'[o] = Nr!Idle PROVE OpHolds(o)'
<1>1. Nr!Idle.what = "none" /\ Nr!Idle.node = None /\ Nr!Idle.at = "idle"
  BY DEF Nr!Idle
<1> QED
  BY <1>1 DEF OpHolds, HoldsKey, Clears, Adds, BindsRow, EditsRow, Signalled

LEMMA RequestEnds ==
    ASSUME HostInv, NEW o \in Ops, Nr!Ended(o)
    PROVE  /\ op' \in [Ops -> HostOp] /\ op'[o] = Nr!Idle /\ \A p \in Ops : p # o => Spares(o, p)
           /\ advisory' \in [Nr!LockNames -> Ops \union {None}] /\ locked' \in [Nodes -> Ops \union {None}]
           /\ OpHolds(o)'
<1>1. /\ op' = [op EXCEPT ![o] = Nr!Idle]
      /\ advisory' = [l \in Nr!LockNames |-> IF advisory[l] = o THEN None ELSE advisory[l]]
      /\ locked' = [n \in Nodes |-> IF locked[n] = o THEN None ELSE locked[n]]
  BY DEF Nr!Ended, Nr!EndsAs
<1>2. Nr!Idle \in HostOp /\ Nr!Idle.node = None
  BY DEF Nr!Idle, HostOp
<1>3. /\ \A l \in Nr!LockNames : advisory[l] \in {None, o} \/ advisory'[l] = advisory[l]
      /\ \A n \in Nodes : locked[n] \in {None, o} \/ locked'[n] = locked[n]
  BY <1>1
<1>4. op' \in [Ops -> HostOp] /\ op'[o] = Nr!Idle /\ \A p \in Ops : p # o => Spares(o, p)
  BY <1>1, <1>2, <1>3, OthersSpared
<1>5. advisory' \in [Nr!LockNames -> Ops \union {None}] /\ locked' \in [Nodes -> Ops \union {None}]
  BY <1>1 DEF HostInv, HostTyped
<1> QED
  BY <1>4, <1>5, IdleHolds

LEMMA RequestGivesUp ==
    ASSUME HostInv, NEW o \in Ops, Nr!Ended(o), row' = row, region' = region PROVE HostInv'
<1>1. HostTyped'
  BY RequestEnds DEF HostInv, HostTyped
<1> QED
  BY <1>1, RequestEnds, RequestMoves

LEMMA SignalIsLocked ==
    ASSUME HostInv, NEW o \in Ops, Nr!LockSignal(o) PROVE HostInv'
<1>1. PICK signal : signal = Nr!LockFor(o)
  OBVIOUS
<1>2. PICK new : new = [op[o] EXCEPT !.at = Nr!AfterLock(o)]
  OBVIOUS
<1>3. /\ op[o].at \in {"endpoint", "key", "machine"} /\ advisory[signal] \in {None, o}
      /\ advisory' = [advisory EXCEPT ![signal] = o] /\ op' = [op EXCEPT ![o] = new]
      /\ row' = row /\ region' = region /\ locked' = locked
  BY <1>1, <1>2 DEF Nr!LockSignal, Nr!Sends
<1>4. op[o] \in HostOp /\ OpHolds(o) /\ advisory \in [Nr!LockNames -> Ops \union {None}]
  BY DEF HostInv, HostTyped
<1>5. Nr!AfterLock(o) = IF op[o].at = "endpoint" THEN IF op[o].what = "add" THEN "key" ELSE "rows"
                        ELSE IF op[o].at = "key" THEN "machine" ELSE IF op[o].what = "bind" THEN "own" ELSE "rows"
  BY <1>3 DEF Nr!AfterLock, Nr!Sends
<1>6. op[o].at = "key" => signal = <<"key", op[o].key>>
  BY <1>1 DEF Nr!LockFor, Nr!Sends
<1>7. /\ new \in HostOp /\ new.what = op[o].what /\ new.node = op[o].node /\ new.machine = op[o].machine
      /\ new.key = op[o].key /\ new.endpoint = op[o].endpoint /\ new.at = Nr!AfterLock(o)
  BY <1>2, <1>4, <1>5 DEF HostOp
<1>8. op' \in [Ops -> HostOp] /\ op'[o] = new /\ \A p \in Ops : p # o => Spares(o, p)
  BY <1>3, <1>4, <1>7, OthersSpared
<1>9. op[o].what \in {"add", "bind", "edit"}
  BY <1>3, <1>4 DEF OpHolds, HostOp
<1>10. HoldsKey(o)'
  <2>1. Signalled(o) => op[o].key \in HostKeys /\ op[o].key = HostKey[op[o].machine]
    BY <1>4, HostConstants DEF OpHolds, HoldsKey, Signalled, HostOp
  <2>2. op[o].at = "key" /\ Signalled(o) => advisory'[<<"key", op[o].key>>] = o
    BY <1>3, <1>4, <1>6, <2>1, HostConstants
  <2>3. op[o].at = "machine" /\ Signalled(o) => advisory'[<<"key", op[o].key>>] = o
    BY <1>3, <1>4, <2>1, HostConstants DEF OpHolds, HoldsKey
  <2>4. op[o].at = "endpoint" /\ op[o].what = "add" => new.at = "key"
    BY <1>5, <1>7
  <2>5. op[o].at = "endpoint" => op[o].what # "bind"
    BY <1>4 DEF OpHolds, BindsRow
  <2>6. Signalled(o)' = Signalled(o)
    BY <1>7, <1>8 DEF Signalled
  <2> QED
    BY <1>3, <1>7, <1>8, <2>1, <2>2, <2>3, <2>4, <2>5, <2>6 DEF HoldsKey, Signalled
<1>11. Clears(o)'
  BY <1>3, <1>5, <1>7, <1>8 DEF Clears
<1>12. Adds(o)'
  <2>1. op[o].what = "add" => \A p \in Ops : p # o => op'[p].node # op[o].node
    BY <1>4, <1>8 DEF OpHolds, Adds, Spares
  <2> QED
    BY <1>3, <1>4, <1>5, <1>7, <1>8, <2>1 DEF OpHolds, Adds
<1>13. BindsRow(o)'
  BY <1>3, <1>4, <1>5, <1>7, <1>8 DEF OpHolds, BindsRow
<1>14. EditsRow(o)'
  BY <1>3, <1>4, <1>5, <1>7, <1>8 DEF OpHolds, EditsRow
<1>15. OpHolds(o)'
  BY <1>7, <1>8, <1>9, <1>10, <1>11, <1>12, <1>13, <1>14 DEF OpHolds
<1>16. HostTyped'
  BY <1>3, <1>4, <1>8 DEF HostInv, HostTyped
<1> QED
  BY <1>3, <1>8, <1>15, <1>16, RequestMoves

LEMMA RowIsLocked ==
    ASSUME HostInv, NEW o \in Ops, Nr!LockRow(o) PROVE HostInv'
<1>1. PICK n \in Nodes : locked[n] = None /\ locked' = [locked EXCEPT ![n] = o]
  BY DEF Nr!LockRow, Nr!Wanted, Nr!Candidates
<1>2. row' = row /\ region' = region /\ op' = op /\ advisory' = advisory
  BY DEF Nr!LockRow
<1>3. locked \in [Nodes -> Ops \union {None}] /\ op \in [Ops -> HostOp]
  BY DEF HostInv, HostTyped
<1>4. HostTyped'
  BY <1>1, <1>2, <1>3 DEF HostInv, HostTyped
<1>5. ASSUME NEW p \in Ops PROVE \A m \in Nodes : locked[m] = p => locked'[m] = p
  BY <1>1, <1>3, HostConstants
<1>6. \A p \in Ops : p # o => Spares(o, p)
  BY <1>2, <1>5 DEF Spares, HostInv, OpHolds, Adds
<1>7. OpHolds(o)'
  <2>1. OpHolds(o)
    BY DEF HostInv
  <2>2. BindsRow(o)'
    BY <1>2, <1>5, <2>1 DEF OpHolds, BindsRow
  <2> QED
    BY <1>2, <2>1, <2>2 DEF OpHolds, HoldsKey, Clears, Adds, EditsRow, Signalled
<1> QED
  BY <1>2, <1>4, <1>6, <1>7, RequestMoves

LEMMA OwnRowIsRead ==
    ASSUME HostInv, NEW o \in Ops, Nr!OwnRow(o) PROVE HostInv'
<1>1. /\ op[o].at = "own" /\ Nr!Wanted(o) = {} /\ row' = row /\ region' = region
      /\ \/ /\ row[op[o].node].there /\ row[op[o].node].machine \in {None, op[o].machine}
            /\ op' = [op EXCEPT ![o].at = "rows"] /\ advisory' = advisory /\ locked' = locked
         \/ Nr!Ended(o)
  BY DEF Nr!OwnRow, Nr!Sends
<1>2. CASE Nr!Ended(o)
  BY <1>1, <1>2, RequestGivesUp
<1>3. CASE /\ row[op[o].node].there /\ row[op[o].node].machine \in {None, op[o].machine}
           /\ op' = [op EXCEPT ![o].at = "rows"] /\ advisory' = advisory /\ locked' = locked
  <2>1. OpHolds(o) /\ op[o] \in HostOp
    BY DEF HostInv, HostTyped
  <2>2. op[o].what = "bind" /\ op[o].node \in Nodes
    BY <1>1, <2>1 DEF OpHolds, Adds, EditsRow, BindsRow, HostOp
  <2>3. op[o].node \in Nr!Candidates(o)
    BY <1>1, <1>3, <2>2 DEF Nr!Candidates, Nr!Sends
  <2>4. locked[op[o].node] = o
    BY <1>1, <2>3 DEF Nr!Wanted
  <2>5. PICK new : new = [op[o] EXCEPT !.at = "rows"]
    OBVIOUS
  <2>6. /\ new \in HostOp /\ new.at = "rows" /\ new.what = "bind" /\ new.node = op[o].node
        /\ new.machine = op[o].machine /\ new.key = op[o].key
    BY <2>1, <2>2, <2>5 DEF HostOp
  <2>7. op' = [op EXCEPT ![o] = new]
    BY <1>3, <2>5
  <2>8. op' \in [Ops -> HostOp] /\ op'[o] = new /\ \A p \in Ops : p # o => Spares(o, p)
    BY <1>3, <2>6, <2>7, OthersSpared
  <2>9. HostTyped'
    BY <1>1, <1>3, <2>8 DEF HostInv, HostTyped
  <2>10. BindsRow(o)'
    BY <1>1, <1>3, <2>1, <2>2, <2>4, <2>6, <2>8 DEF OpHolds, BindsRow
  <2>11. HoldsKey(o)'
    BY <1>1, <1>3, <2>1, <2>2, <2>6, <2>8 DEF OpHolds, HoldsKey, Signalled
  <2>12. OpHolds(o)'
    BY <2>6, <2>8, <2>10, <2>11 DEF OpHolds, Clears, Adds, EditsRow
  <2> QED
    BY <1>1, <2>8, <2>9, <2>12, RequestMoves
<1> QED
  BY <1>1, <1>2, <1>3

(* Nobody who was read has the host key, and whoever had it would be read. *)
LEMMA RowsAreClear ==
    ASSUME HostInv, NEW o \in Ops, Nr!Clear(o) PROVE HostInv'
<1>1. /\ op[o].at = "rows" /\ ~Nr!Conflict(o) /\ op' = [op EXCEPT ![o].at = "write"]
      /\ row' = row /\ region' = region /\ advisory' = advisory /\ locked' = locked
  BY DEF Nr!Clear, Nr!Sends
<1>2. OpHolds(o) /\ op[o] \in HostOp
  BY DEF HostInv, HostTyped
<1>3. PICK new : new = [op[o] EXCEPT !.at = "write"]
  OBVIOUS
<1>4. /\ new \in HostOp /\ new.at = "write" /\ new.what = op[o].what /\ new.node = op[o].node
      /\ new.machine = op[o].machine /\ new.key = op[o].key /\ new.endpoint = op[o].endpoint
  BY <1>2, <1>3 DEF HostOp
<1>5. op' = [op EXCEPT ![o] = new]
  BY <1>1, <1>3
<1>6. op' \in [Ops -> HostOp] /\ op'[o] = new /\ \A p \in Ops : p # o => Spares(o, p)
  BY <1>1, <1>4, <1>5, OthersSpared
<1>7. HostTyped'
  BY <1>1, <1>6 DEF HostInv, HostTyped
<1>8. Clears(o)'
  <2> SUFFICES ASSUME Signalled(o), NEW q \in Nodes, q # op[o].node, row[q].there, row[q].key = op[o].key
               PROVE  FALSE
    BY <1>1, <1>4, <1>6 DEF Clears, Signalled
  <2>1. op[o].key # None /\ op[o].what \in {"add", "bind"}
    BY <1>2, HostConstants DEF OpHolds, HoldsKey, Signalled, HostOp
  <2>2. q \in Nr!Candidates(o)
    BY <1>1, <2>1 DEF Nr!Candidates, Nr!Sends
  <2> QED
    BY <1>1, <2>1, <2>2 DEF Nr!Conflict
<1>9. Adds(o)'
  <2>1. op[o].what = "add" => \A p \in Ops : p # o => op'[p].node # op[o].node
    BY <1>2, <1>6 DEF OpHolds, Adds, Spares
  <2> QED
    BY <1>1, <1>2, <1>4, <1>6, <2>1 DEF OpHolds, Adds
<1>10. BindsRow(o)' /\ EditsRow(o)' /\ HoldsKey(o)'
  BY <1>1, <1>2, <1>4, <1>6 DEF OpHolds, BindsRow, EditsRow, HoldsKey, Signalled
<1>11. OpHolds(o)'
  BY <1>1, <1>2, <1>4, <1>6, <1>8, <1>9, <1>10 DEF OpHolds
<1> QED
  BY <1>1, <1>6, <1>7, <1>11, RequestMoves

(* One row becomes another. *)
LEMMA OneRowMoves ==
    ASSUME HostInv, NEW n \in Nodes, NEW new \in HostRow, row' = [row EXCEPT ![n] = new],
           new.there => /\ new.endpoint \in Endpoints
                        /\ new.key # None => new.machine # None /\ new.key = HostKey[new.machine],
           new.there /\ new.machine # None => \A k \in Nodes : k # n /\ row[k].there => row[k].machine # new.machine,
           new.there /\ new.key # None /\ ~new.restored =>
               \A k \in Nodes : k # n /\ row[k].there /\ row[k].key = new.key => row[k].restored
    PROVE  row' \in [Nodes -> HostRow] /\ \A m \in Nodes : RowStands(m)' /\ \A k \in Nodes : RowsApart(m, k)'
<1>1. row \in [Nodes -> HostRow]
  BY DEF HostInv, HostTyped
<1>2. row' \in [Nodes -> HostRow] /\ row'[n] = new /\ \A m \in Nodes : m # n => row'[m] = row[m]
  BY <1>1
<1>3. \A m \in Nodes : RowStands(m)'
  BY <1>2 DEF HostInv, RowStands
<1>4. ASSUME NEW m \in Nodes, NEW k \in Nodes PROVE RowsApart(m, k)'
  <2>1. CASE m = n /\ k # n
    BY <1>2, <2>1 DEF RowsApart
  <2>2. CASE m # n /\ k = n
    BY <1>2, <2>2 DEF RowsApart
  <2>3. CASE m # n /\ k # n
    BY <1>2, <2>3 DEF HostInv, RowsApart
  <2>4. CASE m = k
    BY <2>4 DEF RowsApart
  <2> QED
    BY <2>1, <2>2, <2>3, <2>4
<1> QED
  BY <1>2, <1>3, <1>4

(* A request that writes one row and ends, or goes on. *)
LEMMA RequestWrites ==
    ASSUME HostInv, NEW o \in Ops, op' \in [Ops -> HostOp], OpHolds(o)', \A p \in Ops : p # o => Spares(o, p),
           advisory' \in [Nr!LockNames -> Ops \union {None}], locked' \in [Nodes -> Ops \union {None}], region' = region,
           row' \in [Nodes -> HostRow], \A m \in Nodes : RowStands(m)' /\ \A k \in Nodes : RowsApart(m, k)',
           \A n \in Nodes : RowMoves(o, n)
    PROVE  HostInv'
<1>1. HostTyped'
  BY DEF HostInv, HostTyped
<1>2. \A p \in Ops : OpHolds(p)'
  BY OthersHold
<1> QED
  BY <1>1, <1>2 DEF HostInv

LEMMA NodeIsInserted ==
    ASSUME HostInv, NEW o \in Ops, Nr!Insert(o) PROVE HostInv'
<1>1. /\ op[o].what = "add" /\ op[o].at = "write" /\ Nr!Ended(o) /\ region' = region
      /\ row' = IF Nr!Taken(o) THEN row
                ELSE [row EXCEPT ![op[o].node] =
                    [there |-> TRUE, endpoint |-> op[o].endpoint, machine |-> op[o].machine, key |-> op[o].key,
                     region |-> op[o].region, place |-> op[o].place, restored |-> FALSE]]
  BY DEF Nr!Insert, Nr!Sends
<1>2. CASE Nr!Taken(o)
  BY <1>1, <1>2, RequestGivesUp
<1>3. CASE ~Nr!Taken(o)
  <2>1. PICK n : n = op[o].node
    OBVIOUS
  <2>2. PICK new : new = [there |-> TRUE, endpoint |-> op[o].endpoint, machine |-> op[o].machine, key |-> op[o].key,
                          region |-> op[o].region, place |-> op[o].place, restored |-> FALSE]
    OBVIOUS
  <2>3. op[o] \in HostOp /\ OpHolds(o) /\ row \in [Nodes -> HostRow]
    BY DEF HostInv, HostTyped
  <2>4. n \in Nodes /\ ~row[n].there /\ op[o].endpoint \in Endpoints /\ (op[o].machine = None => op[o].key = None)
    BY <1>1, <2>1, <2>3 DEF OpHolds, Adds
  <2>5. row' = [row EXCEPT ![n] = new]
    BY <1>1, <1>3, <2>1, <2>2
  <2>6. /\ new \in HostRow /\ new.there /\ new.endpoint = op[o].endpoint /\ new.machine = op[o].machine
        /\ new.key = op[o].key /\ ~new.restored
    BY <2>2, <2>3 DEF HostRow, HostOp
  <2>7. new.key # None => Signalled(o) /\ new.machine # None /\ new.key = HostKey[new.machine]
    BY <1>1, <2>3, <2>4, <2>6 DEF OpHolds, HoldsKey, Signalled
  <2>8. new.machine # None => \A k \in Nodes : k # n /\ row[k].there => row[k].machine # new.machine
    BY <1>3, <2>1, <2>6 DEF Nr!Taken
  <2>9. new.key # None => \A k \in Nodes : k # n /\ row[k].there /\ row[k].key = new.key => row[k].restored
    BY <1>1, <2>1, <2>3, <2>6, <2>7 DEF OpHolds, Clears
  <2>10. row' \in [Nodes -> HostRow] /\ \A m \in Nodes : RowStands(m)' /\ \A k \in Nodes : RowsApart(m, k)'
    BY <2>4, <2>5, <2>6, <2>7, <2>8, <2>9, OneRowMoves
  <2>11. ASSUME NEW m \in Nodes PROVE RowMoves(o, m)
    <3>1. CASE m = n
      <4>1. row'[m] = new
        BY <2>3, <2>5, <3>1
      <4> QED
        BY <1>1, <2>1, <2>4, <2>6, <2>7, <3>1, <4>1 DEF RowMoves
    <3>2. CASE m # n
      <4>1. row'[m] = row[m]
        BY <2>3, <2>5, <3>2
      <4> QED
        BY <4>1 DEF RowMoves
    <3> QED
      BY <3>1, <3>2
  <2> QED
    BY <1>1, <2>10, <2>11, RequestEnds, RequestWrites
<1> QED
  BY <1>2, <1>3

LEMMA NodeIsBound ==
    ASSUME HostInv, NEW o \in Ops, Nr!Bind(o) PROVE HostInv'
<1>1. /\ op[o].what = "bind" /\ op[o].at = "write" /\ region' = region
      /\ row' = IF Nr!Taken(o) THEN row
                ELSE [row EXCEPT ![op[o].node].machine = op[o].machine, ![op[o].node].key = op[o].key,
                                 ![op[o].node].restored = FALSE]
      /\ Nr!EndsAs(o, IF Nr!Taken(o) THEN Nr!Idle ELSE [op[o] EXCEPT !.at = "install"])
  BY DEF Nr!Bind, Nr!Sends
<1>2. CASE Nr!Taken(o)
  <2>1. Nr!Ended(o) /\ row' = row
    BY <1>1, <1>2 DEF Nr!Ended
  <2> QED
    BY <1>1, <2>1, RequestGivesUp
<1>3. CASE ~Nr!Taken(o)
  <2>1. PICK n : n = op[o].node
    OBVIOUS
  <2>2. PICK new : new = [row[n] EXCEPT !.machine = op[o].machine, !.key = op[o].key, !.restored = FALSE]
    OBVIOUS
  <2>3. op[o] \in HostOp /\ OpHolds(o) /\ row \in [Nodes -> HostRow]
    BY DEF HostInv, HostTyped
  <2>4. /\ n \in Nodes /\ op[o].machine \in Machines /\ locked[n] = o /\ row[n].there
        /\ row[n].machine \in {None, op[o].machine}
    BY <1>1, <2>1, <2>3 DEF OpHolds, BindsRow
  <2>5. row[n] \in HostRow /\ RowStands(n)
    BY <2>4 DEF HostInv, HostTyped
  <2>6. new = [there |-> row[n].there, endpoint |-> row[n].endpoint, machine |-> op[o].machine, key |-> op[o].key,
               region |-> row[n].region, place |-> row[n].place, restored |-> FALSE]
    BY <2>2, <2>5 DEF HostRow
  <2>7. /\ new \in HostRow /\ new.there /\ new.endpoint \in Endpoints /\ new.machine = op[o].machine
        /\ new.key = op[o].key /\ ~new.restored
    BY <2>3, <2>4, <2>5, <2>6 DEF HostRow, HostOp, RowStands
  <2>8. row' = [row EXCEPT ![n] = new]
    BY <1>1, <1>3, <2>1, <2>2
  <2>9. Signalled(o) /\ new.machine # None /\ new.key = HostKey[new.machine]
    BY <1>1, <2>3, <2>4, <2>7, HostConstants DEF OpHolds, HoldsKey, Signalled
  <2>10. \A k \in Nodes : k # n /\ row[k].there => row[k].machine # new.machine
    BY <1>3, <2>1, <2>7, <2>9 DEF Nr!Taken
  <2>11. \A k \in Nodes : k # n /\ row[k].there /\ row[k].key = new.key => row[k].restored
    BY <1>1, <2>1, <2>3, <2>7, <2>9 DEF OpHolds, Clears
  <2>12. row' \in [Nodes -> HostRow] /\ \A m \in Nodes : RowStands(m)' /\ \A k \in Nodes : RowsApart(m, k)'
    BY <2>4, <2>7, <2>8, <2>9, <2>10, <2>11, OneRowMoves
  <2>13. ASSUME NEW m \in Nodes PROVE RowMoves(o, m)
    <3>1. CASE m = n
      <4>1. row'[m] = new
        BY <2>3, <2>8, <3>1
      <4> QED
        BY <1>1, <2>1, <2>4, <2>7, <2>9, <3>1, <4>1 DEF RowMoves
    <3>2. CASE m # n
      <4>1. row'[m] = row[m]
        BY <2>3, <2>8, <3>2
      <4> QED
        BY <4>1 DEF RowMoves
    <3> QED
      BY <3>1, <3>2
  <2>14. PICK next : next = [op[o] EXCEPT !.at = "install"]
    OBVIOUS
  <2>15. /\ next \in HostOp /\ next.at = "install" /\ next.what = "bind" /\ next.node = n
         /\ next.machine = op[o].machine /\ next.key = op[o].key
    BY <1>1, <2>1, <2>3, <2>14 DEF HostOp
  <2>16. /\ op' = [op EXCEPT ![o] = next]
         /\ advisory' = [l \in Nr!LockNames |-> IF advisory[l] = o THEN None ELSE advisory[l]]
         /\ locked' = [m \in Nodes |-> IF locked[m] = o THEN None ELSE locked[m]]
    BY <1>1, <1>3, <2>14 DEF Nr!EndsAs
  <2>17. /\ \A l \in Nr!LockNames : advisory[l] \in {None, o} \/ advisory'[l] = advisory[l]
         /\ \A m \in Nodes : locked[m] \in {None, o} \/ locked'[m] = locked[m]
    BY <2>16
  <2>18. op' \in [Ops -> HostOp] /\ op'[o] = next /\ \A p \in Ops : p # o => Spares(o, p)
    BY <2>1, <2>15, <2>16, <2>17, OthersSpared
  <2>19. advisory' \in [Nr!LockNames -> Ops \union {None}] /\ locked' \in [Nodes -> Ops \union {None}]
    BY <2>16 DEF HostInv, HostTyped
  <2>20. row'[n].machine = op[o].machine
    BY <2>3, <2>4, <2>7, <2>8
  <2>21. BindsRow(o)'
    BY <2>4, <2>15, <2>18, <2>20 DEF BindsRow
  <2>22. HoldsKey(o)'
    BY <2>7, <2>9, <2>15, <2>18 DEF HoldsKey, Signalled
  <2>23. OpHolds(o)'
    BY <2>15, <2>18, <2>21, <2>22 DEF OpHolds, Clears, Adds, EditsRow
  <2> QED
    BY <1>1, <2>12, <2>13, <2>18, <2>19, <2>23, RequestWrites
<1> QED
  BY <1>2, <1>3

(* A row that a request wrote without asking: its machine stays, and a host    *)
(* key that is new to it is marked.                                            *)
LEMMA RowIsWrittenBack ==
    ASSUME HostInv, NEW o \in Ops, Nr!Ended(o), region' = region, NEW n \in Nodes, NEW new \in HostRow,
           row' = [row EXCEPT ![n] = new], locked[n] \in {None, o}, row[n].there, new.there = row[n].there,
           new.endpoint \in Endpoints, new.machine = row[n].machine,
           new.key # None => new.machine # None /\ new.key = HostKey[new.machine],
           new.restored = (row[n].restored \/ row[n].key # new.key)
    PROVE  HostInv'
<1>1. row \in [Nodes -> HostRow]
  BY DEF HostInv, HostTyped
<1>2. new.machine # None => \A k \in Nodes : k # n /\ row[k].there => row[k].machine # new.machine
  BY DEF HostInv, RowsApart
<1>3. new.key # None /\ ~new.restored => \A k \in Nodes : k # n /\ row[k].there /\ row[k].key = new.key => row[k].restored
  BY DEF HostInv, RowsApart
<1>4. row' \in [Nodes -> HostRow] /\ \A m \in Nodes : RowStands(m)' /\ \A k \in Nodes : RowsApart(m, k)'
  BY <1>2, <1>3, OneRowMoves
<1>5. ASSUME NEW m \in Nodes PROVE RowMoves(o, m)
  <2>1. CASE m = n
    <3>1. row'[m] = new
      BY <1>1, <2>1
    <3> QED
      BY <2>1, <3>1 DEF RowMoves
  <2>2. CASE m # n
    <3>1. row'[m] = row[m]
      BY <1>1, <2>2
    <3> QED
      BY <3>1 DEF RowMoves
  <2> QED
    BY <2>1, <2>2
<1> QED
  BY <1>4, <1>5, RequestEnds, RequestWrites

LEMMA NodeIsRegistered ==
    ASSUME HostInv, NEW o \in Ops, Nr!Register(o) PROVE HostInv'
<1>1. PICK n : n = op[o].node
  OBVIOUS
<1>2. /\ op[o].at = "install" /\ Nr!Ended(o) /\ region' = region /\ locked[n] \in {None, o}
      /\ \/ row' = row
         \/ row[n].there /\ row' = [row EXCEPT ![n].key = op[o].key, ![n].restored = Nr!WritesBack(n, op[o].key)]
  BY <1>1 DEF Nr!Register, Nr!Sends, Nr!Free
<1>3. CASE row' = row
  BY <1>2, <1>3, RequestGivesUp
<1>4. CASE row[n].there /\ row' = [row EXCEPT ![n].key = op[o].key, ![n].restored = Nr!WritesBack(n, op[o].key)]
  <2>1. op[o] \in HostOp /\ OpHolds(o)
    BY DEF HostInv, HostTyped
  <2>2. op[o].what = "bind"
    BY <1>2, <2>1 DEF OpHolds, Adds, EditsRow, HostOp
  <2>3. n \in Nodes /\ op[o].machine \in Machines /\ row[n].machine = op[o].machine
    BY <1>1, <1>2, <1>4, <2>1, <2>2 DEF OpHolds, BindsRow
  <2>4. row[n] \in HostRow /\ RowStands(n)
    BY <2>3 DEF HostInv, HostTyped
  <2>5. op[o].key = HostKey[op[o].machine] /\ row[n].machine # None
    BY <2>1, <2>2, <2>3, HostConstants DEF OpHolds, HoldsKey, Signalled
  <2>6. PICK back \in BOOLEAN : back = (row[n].restored \/ row[n].key # op[o].key)
    OBVIOUS
  <2>7. PICK new : new = [row[n] EXCEPT !.key = op[o].key, !.restored = back]
    OBVIOUS
  <2>8. row' = [row EXCEPT ![n] = new]
    BY <1>4, <2>6, <2>7 DEF Nr!WritesBack
  <2>9. new = [there |-> row[n].there, endpoint |-> row[n].endpoint, machine |-> row[n].machine, key |-> op[o].key,
               region |-> row[n].region, place |-> row[n].place, restored |-> back]
    BY <2>4, <2>7 DEF HostRow
  <2>10. /\ new \in HostRow /\ new.there = row[n].there /\ new.endpoint \in Endpoints /\ new.machine = row[n].machine
         /\ new.key = op[o].key /\ new.restored = back
    BY <1>4, <2>1, <2>4, <2>9 DEF HostRow, HostOp, RowStands
  <2>11. /\ new.key # None => new.machine # None /\ new.key = HostKey[new.machine]
         /\ new.restored = (row[n].restored \/ row[n].key # new.key)
    BY <2>3, <2>5, <2>6, <2>10
  <2> QED
    BY <1>2, <1>4, <2>3, <2>8, <2>10, <2>11, RowIsWrittenBack
<1> QED
  BY <1>2, <1>3, <1>4

LEMMA NodeIsEdited ==
    ASSUME HostInv, NEW o \in Ops, Nr!Update(o) PROVE HostInv'
<1>1. PICK n : n = op[o].node
  OBVIOUS
<1>2. /\ op[o].what = "edit" /\ op[o].at = "write" /\ Nr!Ended(o) /\ region' = region /\ locked[n] \in {None, o}
      /\ row' = IF ~row[n].there THEN row
                ELSE [row EXCEPT ![n].endpoint = op[o].endpoint, ![n].key = op[o].key, ![n].region = op[o].region,
                                 ![n].place = op[o].place, ![n].restored = Nr!WritesBack(n, op[o].key)]
  BY <1>1 DEF Nr!Update, Nr!Sends, Nr!Free
<1>3. CASE ~row[n].there
  BY <1>2, <1>3, RequestGivesUp
<1>4. CASE row[n].there
  <2>1. op[o] \in HostOp /\ OpHolds(o)
    BY DEF HostInv, HostTyped
  <2>2. /\ n \in Nodes /\ op[o].endpoint \in Endpoints
        /\ op[o].key # None => row[n].machine # None /\ op[o].key = HostKey[row[n].machine]
    BY <1>1, <1>2, <1>4, <2>1 DEF OpHolds, EditsRow
  <2>3. row[n] \in HostRow
    BY <2>2 DEF HostInv, HostTyped
  <2>4. PICK back \in BOOLEAN : back = (row[n].restored \/ row[n].key # op[o].key)
    OBVIOUS
  <2>5. PICK new : new = [row[n] EXCEPT !.endpoint = op[o].endpoint, !.key = op[o].key, !.region = op[o].region,
                                        !.place = op[o].place, !.restored = back]
    OBVIOUS
  <2>6. row' = [row EXCEPT ![n] = new]
    BY <1>2, <1>4, <2>4, <2>5 DEF Nr!WritesBack
  <2>7. new = [there |-> row[n].there, endpoint |-> op[o].endpoint, machine |-> row[n].machine, key |-> op[o].key,
               region |-> op[o].region, place |-> op[o].place, restored |-> back]
    BY <2>3, <2>5 DEF HostRow
  <2>8. /\ new \in HostRow /\ new.there = row[n].there /\ new.endpoint \in Endpoints /\ new.machine = row[n].machine
        /\ new.key = op[o].key /\ new.restored = back
    BY <2>1, <2>2, <2>3, <2>7 DEF HostRow, HostOp
  <2>9. /\ new.key # None => new.machine # None /\ new.key = HostKey[new.machine]
        /\ new.restored = (row[n].restored \/ row[n].key # new.key)
    BY <2>2, <2>4, <2>8
  <2> QED
    BY <1>2, <1>4, <2>2, <2>6, <2>8, <2>9, RowIsWrittenBack
<1> QED
  BY <1>3, <1>4

LEMMA NodesAreRelabelled ==
    ASSUME HostInv, NEW o \in Ops, Nr!Relabel(o) PROVE HostInv'
<1>1. /\ Nr!Ended(o) /\ region' = region
      /\ row' = [n \in Nodes |-> IF row[n].there /\ row[n].region = op[o].region
                                 THEN [row[n] EXCEPT !.place = op[o].place] ELSE row[n]]
  BY DEF Nr!Relabel
<1>2. op[o] \in HostOp
  BY DEF HostInv, HostTyped
<1>3. ASSUME NEW n \in Nodes
      PROVE  /\ row'[n] \in HostRow /\ row'[n].there = row[n].there /\ row'[n].endpoint = row[n].endpoint
             /\ row'[n].machine = row[n].machine /\ row'[n].key = row[n].key /\ row'[n].restored = row[n].restored
  <2>1. row[n] \in HostRow
    BY DEF HostInv, HostTyped
  <2>2. PICK new : new = [row[n] EXCEPT !.place = op[o].place]
    OBVIOUS
  <2>3. /\ new \in HostRow /\ new.there = row[n].there /\ new.endpoint = row[n].endpoint
        /\ new.machine = row[n].machine /\ new.key = row[n].key /\ new.restored = row[n].restored
    BY <1>2, <2>1, <2>2 DEF HostRow, HostOp
  <2>4. row'[n] = new \/ row'[n] = row[n]
    BY <1>1, <2>2
  <2> QED
    BY <2>1, <2>3, <2>4
<1>4. row' \in [Nodes -> HostRow]
  BY <1>1, <1>3
<1>5. \A m \in Nodes : RowStands(m)' /\ \A k \in Nodes : RowsApart(m, k)'
  BY <1>3 DEF HostInv, RowStands, RowsApart
<1>6. \A n \in Nodes : RowMoves(o, n)
  BY <1>3 DEF RowMoves
<1> QED
  BY <1>1, <1>4, <1>5, <1>6, RequestEnds, RequestWrites

(* Single statements: no request moves. *)
LEMMA RowsMoveAlone ==
    ASSUME HostInv, NEW n \in Nodes, Nr!Adopt(n) \/ Nr!Delete(n) PROVE HostInv'
<1>1. /\ op' = op /\ advisory' = advisory /\ locked' = locked /\ region' = region
      /\ row[n].there /\ locked[n] = None
  BY DEF Nr!Adopt, Nr!Delete
<1>2. row \in [Nodes -> HostRow] /\ row[n] \in HostRow /\ RowStands(n)
  BY DEF HostInv, HostTyped
<1>3. \E new \in HostRow :
         /\ row' = [row EXCEPT ![n] = new]
         /\ new.there => /\ new.endpoint \in Endpoints
                         /\ new.key # None => new.machine # None /\ new.key = HostKey[new.machine]
         /\ new.there /\ new.machine # None => \A k \in Nodes : k # n /\ row[k].there => row[k].machine # new.machine
         /\ new.there => /\ row[n].machine = None \/ new.machine = row[n].machine
                         /\ new.key = row[n].key /\ new.restored = row[n].restored
  <2>1. CASE Nr!Adopt(n)
    <3>1. PICK machine : machine = At[row[n].endpoint]
      OBVIOUS
    <3>2. /\ row[n].machine = None /\ \A k \in Nodes : row[k].machine # machine
          /\ row' = [row EXCEPT ![n].machine = machine]
      BY <2>1, <3>1 DEF Nr!Adopt
    <3>3. row[n].endpoint \in Endpoints /\ machine \in Machines /\ row[n].key = None
      BY <1>1, <1>2, <3>1, <3>2, HostConstants DEF RowStands
    <3>4. PICK new : new = [row[n] EXCEPT !.machine = machine]
      OBVIOUS
    <3>5. /\ new \in HostRow /\ new.endpoint = row[n].endpoint /\ new.machine = machine /\ new.key = row[n].key
          /\ new.restored = row[n].restored
      BY <1>2, <3>3, <3>4 DEF HostRow
    <3>6. row' = [row EXCEPT ![n] = new]
      BY <3>2, <3>4
    <3> QED
      BY <3>2, <3>3, <3>5, <3>6
  <2>2. CASE Nr!Delete(n)
    <3>1. Nr!Gone \in HostRow /\ ~Nr!Gone.there
      BY DEF Nr!Gone, HostRow
    <3> QED
      BY <2>2, <3>1 DEF Nr!Delete
  <2> QED
    BY <2>1, <2>2
<1>4. PICK new \in HostRow :
         /\ row' = [row EXCEPT ![n] = new]
         /\ new.there => /\ new.endpoint \in Endpoints
                         /\ new.key # None => new.machine # None /\ new.key = HostKey[new.machine]
         /\ new.there /\ new.machine # None => \A k \in Nodes : k # n /\ row[k].there => row[k].machine # new.machine
         /\ new.there => /\ row[n].machine = None \/ new.machine = row[n].machine
                         /\ new.key = row[n].key /\ new.restored = row[n].restored
  BY <1>3
<1>5. new.there /\ new.key # None /\ ~new.restored =>
          \A k \in Nodes : k # n /\ row[k].there /\ row[k].key = new.key => row[k].restored
  BY <1>1, <1>4 DEF HostInv, RowsApart
<1>6. row' \in [Nodes -> HostRow] /\ \A m \in Nodes : RowStands(m)' /\ \A k \in Nodes : RowsApart(m, k)'
  BY <1>4, <1>5, OneRowMoves
<1>7. ASSUME NEW m \in Nodes PROVE RowMoves(None, m) /\ (row'[m].there => row[m].there)
  <2>1. CASE m = n
    <3>1. row'[m] = new
      BY <1>2, <1>4, <2>1
    <3> QED
      BY <1>1, <1>4, <2>1, <3>1 DEF RowMoves
  <2>2. CASE m # n
    <3>1. row'[m] = row[m]
      BY <1>2, <1>4, <2>2
    <3> QED
      BY <3>1 DEF RowMoves
  <2> QED
    BY <2>1, <2>2
<1>8. \A p \in Ops : Spares(None, p)
  BY <1>1 DEF Spares, HostInv, OpHolds, Adds
<1>9. \A p \in Ops : OpHolds(p)'
  BY <1>7, <1>8, OthersHold, HostConstants
<1>10. HostTyped'
  BY <1>1, <1>6 DEF HostInv, HostTyped
<1> QED
  BY <1>6, <1>9, <1>10 DEF HostInv

LEMMA NodeSteps ==
    ASSUME HostInv, [Nr!Next]_nodeVars PROVE HostInv'
<1>1. ASSUME NEW o \in Ops, Nr!Add(o) \/ Nr!Deploy(o) \/ Nr!Edit(o) \/ Nr!Rename(o) PROVE HostInv'
  BY <1>1, AdditionBegins, DeploymentBegins, EditBegins, RenameBegins
<1>2. ASSUME NEW o \in Ops, Nr!LockSignal(o) \/ Nr!LockRow(o) \/ Nr!OwnRow(o) \/ Nr!Clear(o) PROVE HostInv'
  BY <1>2, SignalIsLocked, RowIsLocked, OwnRowIsRead, RowsAreClear
<1>3. ASSUME NEW o \in Ops, Nr!Refuse(o) \/ Nr!Victim(o) PROVE HostInv'
  <2>1. Nr!Ended(o) /\ row' = row /\ region' = region
    BY <1>3 DEF Nr!Refuse, Nr!Victim
  <2> QED
    BY <2>1, RequestGivesUp
<1>4. ASSUME NEW o \in Ops, Nr!Insert(o) \/ Nr!Bind(o) \/ Nr!Register(o) \/ Nr!Update(o) \/ Nr!Relabel(o) PROVE HostInv'
  BY <1>4, NodeIsInserted, NodeIsBound, NodeIsRegistered, NodeIsEdited, NodesAreRelabelled
<1>5. CASE UNCHANGED nodeVars
  <2>1. row' = row /\ region' = region /\ op' = op /\ advisory' = advisory /\ locked' = locked
    BY <1>5 DEF nodeVars
  <2>2. HostTyped'
    BY <2>1 DEF HostInv, HostTyped
  <2>3. \A n \in Nodes : RowStands(n)' /\ \A k \in Nodes : RowsApart(n, k)'
    BY <2>1 DEF HostInv, RowStands, RowsApart
  <2>4. \A o \in Ops : OpHolds(o)'
    BY <2>1 DEF HostInv, OpHolds, HoldsKey, Clears, Adds, BindsRow, EditsRow, Signalled
  <2> QED
    BY <2>2, <2>3, <2>4 DEF HostInv
<1> QED
  BY <1>1, <1>2, <1>3, <1>4, <1>5, RowsMoveAlone DEF Nr!Next

-----------------------------------------------------------------------------
(* Certificates: one issuer.                                                  *)

CertRow == [owner : Creds \union CertNodes \union {"none"}, issuer : Nat, status : {"active", "revoked"}]
CertProfile == [cred : Creds \union {"none"}, serial : Nat, status : {"issued", "active", "expired"}]
CertCall == [at : {"idle", "find", "mint", "serve", "list", "write", "certify", "sign", "save", "activate", "revoke"},
             cred : Creds \union {"none"}, issuer : Nat, serial : Nat, saved : Nat, old : Nat, list : SUBSET Nat]
Callers == CertNodes \union Requests
Uses == {"serve", "certify", "sign"}

CertTyped ==
    /\ minted \in Nat /\ issuers \in SUBSET Nat /\ 0 \notin issuers
    /\ cert \in Seq(CertRow) /\ profile \in Seq(CertProfile)
    /\ files \in [CertNodes -> Nat] /\ call \in [Callers -> CertCall]

CertInv ==
    /\ CertTyped
    /\ \A i, j \in issuers : i = j
    /\ \A s \in 1..Len(cert) : cert[s].issuer \in issuers
    /\ \A n \in CertNodes : files[n] # 0 => files[n] \in issuers
    /\ \A x \in Callers : call[x].at \in Uses => call[x].issuer \in issuers

LEMMA CertificatesRun == StoreSpec => Ce!Init /\ [][Ce!Next]_certVars
<1>1. StoreInit => Ce!Init
  BY DEF StoreInit
<1>2. [StoreNext]_storeVars => [Ce!Next]_certVars
  BY DEF StoreNext, storeVars, certVars
<1> QED
  BY <1>1, <1>2, PTL DEF StoreSpec

LEMMA IdleCall == Ce!Idle \in CertCall /\ Ce!Idle.at = "idle"
BY DEF Ce!Idle, CertCall

LEMMA CertificatesInit == Ce!Init => CertInv
<1> SUFFICES ASSUME Ce!Init PROVE CertInv
  OBVIOUS
<1>1. /\ issuers = {} /\ minted = 0 /\ cert = << >> /\ profile = << >>
      /\ files = [n \in CertNodes |-> 0] /\ call = [x \in Callers |-> Ce!Idle]
  BY DEF Ce!Init, Callers
<1>2. CertTyped
  BY <1>1, IdleCall DEF CertTyped
<1>3. /\ \A i, j \in issuers : i = j
      /\ \A s \in 1..Len(cert) : cert[s].issuer \in issuers
      /\ \A n \in CertNodes : files[n] # 0 => files[n] \in issuers
  BY <1>1
<1>4. \A x \in Callers : call[x].at \in Uses => call[x].issuer \in issuers
  BY <1>1, IdleCall DEF Uses
<1> QED
  BY <1>2, <1>3, <1>4 DEF CertInv

(* One call moves, under an issuer that is there. *)
CallsFit ==
    /\ call \in [Callers -> CertCall]
    /\ \A x \in Callers : call[x].at \in Uses => call[x].issuer \in issuers

LEMMA CallMoves ==
    ASSUME CertInv, NEW x \in Callers, NEW new \in CertCall, call' = [call EXCEPT ![x] = new],
           new.at \in Uses => new.issuer \in issuers', issuers \subseteq issuers'
    PROVE  CallsFit'
<1>1. call \in [Callers -> CertCall]
  BY DEF CertInv, CertTyped
<1>2. call'[x] = new /\ \A y \in Callers : y # x => call'[y] = call[y]
  BY <1>1
<1> QED
  BY <1>1, <1>2 DEF CallsFit, CertInv

LEMMA CallGoes ==
    ASSUME CertInv, NEW x \in Callers, NEW place, Ce!Goes(x, place), call[x].at \notin Uses => place \notin Uses,
           place \in {"idle", "find", "mint", "serve", "list", "write", "certify", "sign", "save", "activate", "revoke"},
           issuers \subseteq issuers'
    PROVE  CallsFit'
<1>1. PICK new : new = [call[x] EXCEPT !.at = place]
  OBVIOUS
<1>2. call[x] \in CertCall
  BY DEF CertInv, CertTyped
<1>3. new \in CertCall /\ new.at = place /\ new.issuer = call[x].issuer
  BY <1>1, <1>2 DEF CertCall
<1>4. call' = [call EXCEPT ![x] = new]
  BY <1>1 DEF Ce!Goes
<1>5. new.at \in Uses => new.issuer \in issuers'
  BY <1>3 DEF CertInv
<1> QED
  BY <1>3, <1>4, <1>5, CallMoves

LEMMA CallEnds ==
    ASSUME CertInv, NEW x \in Callers, Ce!Done(x), issuers \subseteq issuers' PROVE CallsFit'
<1>1. call' = [call EXCEPT ![x] = Ce!Idle]
  BY DEF Ce!Done
<1>2. Ce!Idle.at \notin Uses
  BY IdleCall DEF Uses
<1> QED
  BY <1>1, <1>2, IdleCall, CallMoves

(* The issuers stay, and every certificate is of one of them. *)
LEMMA IssuersStay ==
    ASSUME CertInv, CallsFit', issuers' = issuers, minted' = minted,
           cert' = cert \/ (cert' \in Seq(CertRow) /\ \A s \in 1..Len(cert') : cert'[s].issuer \in issuers),
           profile' = profile \/ profile' \in Seq(CertProfile),
           files' = files \/ (files' \in [CertNodes -> Nat] /\ \A n \in CertNodes : files'[n] # 0 => files'[n] \in issuers)
    PROVE  CertInv'
<1>1. CertTyped'
  BY DEF CertInv, CertTyped, CallsFit
<1>2. \A s \in 1..Len(cert') : cert'[s].issuer \in issuers
  BY DEF CertInv
<1>3. \A n \in CertNodes : files'[n] # 0 => files'[n] \in issuers
  BY DEF CertInv
<1> QED
  BY <1>1, <1>2, <1>3 DEF CertInv, CallsFit

LEMMA CertsSigned ==
    ASSUME CertInv, NEW holder \in Creds \union CertNodes \union {"none"}, NEW issuer \in issuers, Ce!Sign(holder, issuer)
    PROVE  cert' \in Seq(CertRow) /\ \A s \in 1..Len(cert') : cert'[s].issuer \in issuers
<1>1. PICK new : new = [owner |-> holder, issuer |-> issuer, status |-> "active"]
  OBVIOUS
<1>2. cert' = Append(cert, new) /\ cert \in Seq(CertRow)
  BY <1>1 DEF Ce!Sign, CertInv, CertTyped
<1>3. new \in CertRow /\ new.issuer = issuer
  BY <1>1 DEF CertRow, CertInv, CertTyped
<1>4. ASSUME NEW s \in 1..Len(cert') PROVE cert'[s].issuer \in issuers
  <2>1. (s = Len(cert) + 1 /\ cert'[s] = new) \/ (s \in 1..Len(cert) /\ cert'[s] = cert[s])
    BY <1>2, <1>3
  <2> QED
    BY <1>3, <2>1 DEF CertInv
<1> QED
  BY <1>2, <1>3, <1>4

(* Certificates are marked as revoked where they are. *)
LEMMA CertsMarked ==
    ASSUME CertInv, NEW S, cert' = [s \in 1..Len(cert) |-> IF s \in S THEN [cert[s] EXCEPT !.status = "revoked"] ELSE cert[s]]
    PROVE  cert' \in Seq(CertRow) /\ \A s \in 1..Len(cert') : cert'[s].issuer \in issuers
<1>1. cert \in Seq(CertRow)
  BY DEF CertInv, CertTyped
<1>2. ASSUME NEW s \in 1..Len(cert) PROVE cert'[s] \in CertRow /\ cert'[s].issuer = cert[s].issuer
  <2>1. cert[s] \in CertRow
    BY <1>1
  <2>2. PICK new : new = [cert[s] EXCEPT !.status = "revoked"]
    OBVIOUS
  <2>3. new \in CertRow /\ new.issuer = cert[s].issuer
    BY <2>1, <2>2 DEF CertRow
  <2>4. cert'[s] = IF s \in S THEN new ELSE cert[s]
    BY <2>2
  <2> QED
    BY <2>1, <2>3, <2>4
<1>3. Len(cert') = Len(cert)
  BY <1>1
<1>4. cert' \in Seq(CertRow)
  BY <1>1, <1>2
<1> QED
  BY <1>2, <1>3, <1>4 DEF CertInv

LEMMA IssuerIsFound ==
    ASSUME CertInv, NEW x \in Callers, Ce!Find(x) PROVE CertInv'
<1>1. /\ issuers' = issuers /\ minted' = minted /\ cert' = cert /\ profile' = profile /\ files' = files
      /\ call[x].at = "find"
  BY DEF Ce!Find, Ce!store, Ce!node
<1>2. CASE Ce!Goes(x, "mint")
  BY <1>1, <1>2, CallGoes, IssuersStay DEF Uses
<1>3. CASE \E i \in issuers : call' = [call EXCEPT ![x].issuer = i, ![x].at = IF x \in CertNodes THEN "serve" ELSE "certify"]
  <2>1. PICK i \in issuers : call' = [call EXCEPT ![x].issuer = i, ![x].at = IF x \in CertNodes THEN "serve" ELSE "certify"]
    BY <1>3
  <2>2. PICK place \in {"serve", "certify"} : place = IF x \in CertNodes THEN "serve" ELSE "certify"
    OBVIOUS
  <2>3. PICK new : new = [call[x] EXCEPT !.issuer = i, !.at = place]
    OBVIOUS
  <2>4. call' = [call EXCEPT ![x] = new]
    BY <2>1, <2>2, <2>3
  <2>5. call[x] \in CertCall /\ i \in Nat
    BY DEF CertInv, CertTyped
  <2>6. new = [at |-> place, cred |-> call[x].cred, issuer |-> i, serial |-> call[x].serial, saved |-> call[x].saved,
               old |-> call[x].old, list |-> call[x].list]
    BY <2>3, <2>5 DEF CertCall
  <2>7. new \in CertCall /\ new.issuer = i
    BY <2>2, <2>5, <2>6 DEF CertCall
  <2>8. CallsFit'
    BY <1>1, <2>4, <2>7, CallMoves
  <2> QED
    BY <1>1, <2>8, IssuersStay
<1> QED
  BY <1>2, <1>3 DEF Ce!Find

(* The first issuer there is: nothing was signed before it. *)
LEMMA IssuerIsMade ==
    ASSUME CertInv, NEW x \in Callers, Ce!Mint(x) PROVE CertInv'
<1>1. cert' = cert /\ profile' = profile /\ files' = files /\ call[x].at = "mint"
  BY DEF Ce!Mint, Ce!node
<1>2. CASE issuers # {}
  <2>1. issuers' = issuers /\ minted' = minted /\ Ce!Done(x)
    BY <1>2 DEF Ce!Mint
  <2>2. CallsFit'
    BY <2>1, CallEnds
  <2> QED
    BY <1>1, <2>1, <2>2, IssuersStay
<1>3. CASE issuers = {}
  <2>1. minted' = minted + 1 /\ issuers' = {minted + 1} /\ Ce!Goes(x, "find")
    BY <1>3 DEF Ce!Mint
  <2>2. CallsFit'
    BY <1>3, <2>1, CallGoes DEF Uses
  <2>3. CertTyped'
    BY <1>1, <2>1, <2>2 DEF CertInv, CertTyped, CallsFit
  <2> QED
    BY <1>1, <1>3, <2>1, <2>2, <2>3 DEF CertInv, CallsFit
<1> QED
  BY <1>2, <1>3

(* A request begins. *)
LEMMA CallBegins ==
    ASSUME CertInv, NEW r \in Requests, NEW new \in CertCall, new.at \notin Uses, call' = [call EXCEPT ![r] = new],
           issuers' = issuers
    PROVE  CallsFit'
<1>1. r \in Callers
  BY DEF Callers
<1>2. issuers \subseteq issuers' /\ (new.at \in Uses => new.issuer \in issuers')
  OBVIOUS
<1> QED
  BY <1>1, <1>2, CallMoves

LEMMA CallsBegin ==
    ASSUME CertInv, NEW r \in Requests,
           (\E c \in Creds : Ce!Issue(r, c) \/ Ce!RevokeCertificates(r, c)) \/ (\E p \in DOMAIN profile : Ce!Rotate(r, p))
    PROVE  CertInv'
<1>1. call \in [Callers -> CertCall] /\ r \in Callers /\ profile \in Seq(CertProfile)
  BY DEF CertInv, CertTyped, Callers
<1>2. call[r] \in CertCall
  BY <1>1
<1>3. ASSUME NEW c \in Creds, Ce!Issue(r, c) PROVE CertInv'
  <2>1. /\ call[r] = Ce!Idle /\ issuers' = issuers /\ minted' = minted /\ cert' = cert /\ profile' = profile /\ files' = files
        /\ call' = [call EXCEPT ![r].at = "find", ![r].cred = c]
    BY <1>3 DEF Ce!Issue, Ce!store, Ce!node
  <2>2. call[r].old = 0
    BY <2>1 DEF Ce!Idle
  <2>3. [call[r] EXCEPT !.at = "find", !.cred = c, !.old = 0] = [call[r] EXCEPT !.at = "find", !.cred = c]
    BY <1>2, <2>2 DEF CertCall
  <2>4. PICK new : new = [call[r] EXCEPT !.at = "find", !.cred = c, !.old = 0] /\ call' = [call EXCEPT ![r] = new]
    BY <1>1, <2>1, <2>3
  <2>5. new = [at |-> "find", cred |-> c, issuer |-> call[r].issuer, serial |-> call[r].serial, saved |-> call[r].saved,
               old |-> 0, list |-> call[r].list]
    BY <1>2, <2>4 DEF CertCall
  <2>6. new \in CertCall /\ new.at \notin Uses
    BY <1>2, <2>5 DEF CertCall, Uses
  <2>7. CallsFit'
    BY <2>1, <2>4, <2>6, CallBegins
  <2> QED
    BY <2>1, <2>7, IssuersStay
<1>4. ASSUME NEW c \in Creds, Ce!RevokeCertificates(r, c) PROVE CertInv'
  <2>1. /\ call[r] = Ce!Idle /\ issuers' = issuers /\ minted' = minted /\ profile' = profile /\ files' = files
        /\ call' = [call EXCEPT ![r].at = "revoke", ![r].cred = c]
        /\ cert' = [s \in 1..Len(cert) |-> IF cert[s].owner = c THEN [cert[s] EXCEPT !.status = "revoked"] ELSE cert[s]]
    BY <1>4 DEF Ce!RevokeCertificates, Ce!Serials, Ce!node
  <2>2. call[r].old = 0
    BY <2>1 DEF Ce!Idle
  <2>3. [call[r] EXCEPT !.at = "revoke", !.cred = c, !.old = 0] = [call[r] EXCEPT !.at = "revoke", !.cred = c]
    BY <1>2, <2>2 DEF CertCall
  <2>4. PICK new : new = [call[r] EXCEPT !.at = "revoke", !.cred = c, !.old = 0] /\ call' = [call EXCEPT ![r] = new]
    BY <1>1, <2>1, <2>3
  <2>5. new = [at |-> "revoke", cred |-> c, issuer |-> call[r].issuer, serial |-> call[r].serial, saved |-> call[r].saved,
               old |-> 0, list |-> call[r].list]
    BY <1>2, <2>4 DEF CertCall
  <2>6. new \in CertCall /\ new.at \notin Uses
    BY <1>2, <2>5 DEF CertCall, Uses
  <2>7. CallsFit'
    BY <2>1, <2>4, <2>6, CallBegins
  <2>8. PICK S : S = {s \in 1..Len(cert) : cert[s].owner = c}
    OBVIOUS
  <2>9. cert' = [s \in 1..Len(cert) |-> IF s \in S THEN [cert[s] EXCEPT !.status = "revoked"] ELSE cert[s]]
    BY <2>1, <2>8
  <2>10. cert' \in Seq(CertRow) /\ \A s \in 1..Len(cert') : cert'[s].issuer \in issuers
    BY <2>9, CertsMarked
  <2> QED
    BY <2>1, <2>7, <2>10, IssuersStay
<1>5. ASSUME NEW p \in DOMAIN profile, Ce!Rotate(r, p) PROVE CertInv'
  <2>1. /\ issuers' = issuers /\ minted' = minted /\ cert' = cert /\ profile' = profile /\ files' = files
        /\ call' = [call EXCEPT ![r].at = "find", ![r].cred = profile[p].cred, ![r].old = p]
    BY <1>5 DEF Ce!Rotate, Ce!store, Ce!node
  <2>2. p \in Nat /\ profile[p] \in CertProfile
    BY <1>1
  <2>3. PICK c \in Creds \union {"none"} : c = profile[p].cred
    BY <2>2 DEF CertProfile
  <2>4. PICK new : new = [call[r] EXCEPT !.at = "find", !.cred = c, !.old = p] /\ call' = [call EXCEPT ![r] = new]
    BY <1>1, <2>1, <2>3
  <2>5. new = [at |-> "find", cred |-> c, issuer |-> call[r].issuer, serial |-> call[r].serial, saved |-> call[r].saved,
               old |-> p, list |-> call[r].list]
    BY <1>2, <2>4 DEF CertCall
  <2>6. new \in CertCall /\ new.at \notin Uses
    BY <1>2, <2>5, <2>2 DEF CertCall, Uses
  <2>7. CallsFit'
    BY <2>1, <2>4, <2>6, CallBegins
  <2> QED
    BY <2>1, <2>7, IssuersStay
<1> QED
  BY <1>3, <1>4, <1>5

(* The newest of a set of serials is one of them. *)
LEMMA NewestIsOne ==
    ASSUME CertInv, NEW S \in SUBSET (1..Len(cert)), S # {} PROVE Ce!Newest(S) \in S
<1>1. Len(cert) \in Nat
  BY DEF CertInv, CertTyped
<1>2. \E b \in S : \A c \in S : c <= b
  BY <1>1, LastPosition
<1> QED
  BY <1>2 DEF Ce!Newest

LEMMA CallIsCertified ==
    ASSUME CertInv, NEW r \in Requests, Ce!Certify(r) PROVE CertInv'
<1>1. /\ issuers' = issuers /\ minted' = minted /\ profile' = profile /\ files' = files
      /\ call[r].at = "certify"
  BY DEF Ce!Certify, Ce!node
<1>2. r \in Callers /\ call[r] \in CertCall /\ call \in [Callers -> CertCall] /\ cert \in Seq(CertRow)
  BY DEF Callers, CertInv, CertTyped
<1>3. PICK mine : mine = Ce!Active(call[r].cred, call[r].issuer)
  OBVIOUS
<1>4. mine \in SUBSET (1..Len(cert))
  BY <1>3 DEF Ce!Active, Ce!Serials
<1>5. \/ Ce!Goes(r, "sign") /\ cert' = cert
      \/ mine # {} /\ Ce!Goes(r, "sign") /\ cert' = [cert EXCEPT ![Ce!Newest(mine)].status = "revoked"]
      \/ mine # {} /\ call' = [call EXCEPT ![r].serial = Ce!Newest(mine), ![r].at = "save"] /\ cert' = cert
  BY <1>3 DEF Ce!Certify
<1>6. Ce!Goes(r, "sign") => CallsFit'
  BY <1>1, <1>2, CallGoes DEF Uses
<1>7. CASE Ce!Goes(r, "sign") /\ cert' = cert
  BY <1>1, <1>6, <1>7, IssuersStay
<1>8. CASE mine # {} /\ Ce!Goes(r, "sign") /\ cert' = [cert EXCEPT ![Ce!Newest(mine)].status = "revoked"]
  <2>1. PICK s : s = Ce!Newest(mine)
    OBVIOUS
  <2>2. s \in 1..Len(cert)
    BY <1>4, <1>8, <2>1, NewestIsOne
  <2>3. cert' = [cert EXCEPT ![s].status = "revoked"]
    BY <1>8, <2>1
  <2>4. cert' = [t \in 1..Len(cert) |-> IF t \in {s} THEN [cert[t] EXCEPT !.status = "revoked"] ELSE cert[t]]
    <3>1. PICK new : new = [cert[s] EXCEPT !.status = "revoked"]
      OBVIOUS
    <3>2. cert' = [cert EXCEPT ![s] = new]
      BY <2>3, <3>1
    <3>3. cert' = [t \in DOMAIN cert |-> IF t = s THEN new ELSE cert[t]]
      BY <2>2, <3>2
    <3>4. cert' = [t \in 1..Len(cert) |-> IF t = s THEN new ELSE cert[t]]
      BY <1>2, <3>3
    <3> QED
      BY <3>1, <3>4
  <2>5. cert' \in Seq(CertRow) /\ \A t \in 1..Len(cert') : cert'[t].issuer \in issuers
    BY <2>4, CertsMarked
  <2> QED
    BY <1>1, <1>6, <1>8, <2>5, IssuersStay
<1>9. CASE mine # {} /\ call' = [call EXCEPT ![r].serial = Ce!Newest(mine), ![r].at = "save"] /\ cert' = cert
  <2>1. PICK s : s = Ce!Newest(mine)
    OBVIOUS
  <2>2. s \in Nat
    <3>1. s \in 1..Len(cert) /\ Len(cert) \in Nat
      BY <1>2, <1>4, <1>9, <2>1, NewestIsOne
    <3> QED
      BY <3>1
  <2>3. PICK new : new = [call[r] EXCEPT !.serial = s, !.at = "save"]
    OBVIOUS
  <2>4. call' = [call EXCEPT ![r] = new]
    BY <1>2, <1>9, <2>1, <2>3
  <2>5. new = [at |-> "save", cred |-> call[r].cred, issuer |-> call[r].issuer, serial |-> s, saved |-> call[r].saved,
               old |-> call[r].old, list |-> call[r].list]
    BY <1>2, <2>3 DEF CertCall
  <2>6. new \in CertCall /\ new.at \notin Uses
    BY <1>2, <2>2, <2>5 DEF CertCall, Uses
  <2>7. CallsFit'
    BY <1>1, <2>4, <2>6, CallBegins
  <2> QED
    BY <1>1, <1>9, <2>7, IssuersStay
<1> QED
  BY <1>5, <1>7, <1>8, <1>9

(* A client certificate is signed by the issuer its request found. *)
LEMMA ClientIsSigned ==
    ASSUME CertInv, NEW r \in Requests, Ce!SignClient(r) PROVE CertInv'
<1>1. /\ issuers' = issuers /\ minted' = minted /\ profile' = profile /\ files' = files
      /\ call[r].at = "sign" /\ Ce!Sign(call[r].cred, call[r].issuer)
      /\ call' = [call EXCEPT ![r].serial = Len(cert) + 1, ![r].at = "save"]
  BY DEF Ce!SignClient, Ce!node
<1>2. r \in Callers /\ call[r] \in CertCall /\ call \in [Callers -> CertCall] /\ Len(cert) + 1 \in Nat
  BY DEF Callers, CertInv, CertTyped
<1>3. call[r].issuer \in issuers /\ call[r].cred \in Creds \union CertNodes \union {"none"}
  BY <1>1, <1>2 DEF CertInv, Uses, CertCall
<1>4. cert' \in Seq(CertRow) /\ \A s \in 1..Len(cert') : cert'[s].issuer \in issuers
  <2>1. PICK holder \in Creds \union CertNodes \union {"none"}, issuer \in issuers :
              holder = call[r].cred /\ issuer = call[r].issuer
    BY <1>3
  <2>2. Ce!Sign(holder, issuer)
    BY <1>1, <2>1
  <2> QED
    BY <2>2, CertsSigned
<1>5. PICK new : new = [call[r] EXCEPT !.serial = Len(cert) + 1, !.at = "save"]
  OBVIOUS
<1>6. call' = [call EXCEPT ![r] = new]
  BY <1>1, <1>2, <1>5
<1>7. new = [at |-> "save", cred |-> call[r].cred, issuer |-> call[r].issuer, serial |-> Len(cert) + 1,
             saved |-> call[r].saved, old |-> call[r].old, list |-> call[r].list]
  BY <1>2, <1>5 DEF CertCall
<1>8. new \in CertCall /\ new.at \notin Uses
  BY <1>2, <1>7 DEF CertCall, Uses
<1>9. CallsFit'
  BY <1>1, <1>6, <1>8, CallBegins
<1> QED
  BY <1>1, <1>4, <1>9, IssuersStay

LEMMA ProfileIsSaved ==
    ASSUME CertInv, NEW r \in Requests, Ce!Save(r) PROVE CertInv'
<1>1. /\ issuers' = issuers /\ minted' = minted /\ cert' = cert /\ files' = files
      /\ call' = [call EXCEPT ![r].saved = Len(profile) + 1, ![r].at = "activate"]
      /\ profile' = Append(profile, [cred |-> call[r].cred, serial |-> call[r].serial, status |-> "issued"])
  BY DEF Ce!Save, Ce!node
<1>2. /\ r \in Callers /\ call[r] \in CertCall /\ call \in [Callers -> CertCall]
      /\ profile \in Seq(CertProfile) /\ Len(profile) + 1 \in Nat
  BY DEF Callers, CertInv, CertTyped
<1>3. [cred |-> call[r].cred, serial |-> call[r].serial, status |-> "issued"] \in CertProfile
  BY <1>2 DEF CertCall, CertProfile
<1>4. profile' \in Seq(CertProfile)
  BY <1>1, <1>2, <1>3
<1>5. PICK new : new = [call[r] EXCEPT !.saved = Len(profile) + 1, !.at = "activate"]
  OBVIOUS
<1>6. call' = [call EXCEPT ![r] = new]
  BY <1>1, <1>2, <1>5
<1>7. new = [at |-> "activate", cred |-> call[r].cred, issuer |-> call[r].issuer, serial |-> call[r].serial,
             saved |-> Len(profile) + 1, old |-> call[r].old, list |-> call[r].list]
  BY <1>2, <1>5 DEF CertCall
<1>8. new \in CertCall /\ new.at \notin Uses
  BY <1>2, <1>7 DEF CertCall, Uses
<1>9. CallsFit'
  BY <1>1, <1>6, <1>8, CallBegins
<1> QED
  BY <1>1, <1>4, <1>9, IssuersStay

(* The profiles change their status where they are. *)
LEMMA ProfilesChange ==
    ASSUME CertInv, profile' = [p \in 1..Len(profile) |-> profile'[p]],
           \A p \in 1..Len(profile) : \/ profile'[p] = profile[p]
                                     \/ \E s \in {"expired", "active"} : profile'[p] = [profile[p] EXCEPT !.status = s]
    PROVE  profile' \in Seq(CertProfile)
<1>1. profile \in Seq(CertProfile)
  BY DEF CertInv, CertTyped
<1>2. ASSUME NEW p \in 1..Len(profile) PROVE profile'[p] \in CertProfile
  <2>1. profile[p] \in CertProfile
    BY <1>1
  <2>2. ASSUME NEW s \in {"expired", "active"} PROVE [profile[p] EXCEPT !.status = s] \in CertProfile
    BY <2>1 DEF CertProfile
  <2> QED
    BY <2>1, <2>2
<1>3. PICK n \in Nat : n = Len(profile)
  BY <1>1
<1>4. profile' \in [1..n -> CertProfile]
  BY <1>2, <1>3
<1> QED
  BY <1>3, <1>4

LEMMA ProfileIsActivated ==
    ASSUME CertInv, NEW r \in Requests, Ce!Activate(r) PROVE CertInv'
<1>1. issuers' = issuers /\ minted' = minted /\ cert' = cert /\ files' = files /\ Ce!Done(r)
  BY DEF Ce!Activate, Ce!node
<1>2. r \in Callers /\ profile \in Seq(CertProfile)
  BY DEF Callers, CertInv, CertTyped
<1>3. CallsFit'
  BY <1>1, <1>2, CallEnds
<1>4. CASE cred[call[r].cred] # "usable"
  BY <1>1, <1>3, <1>4, IssuersStay DEF Ce!Activate
<1>5. CASE cred[call[r].cred] = "usable"
  <2>1. PICK old, saved : old = call[r].old /\ saved = call[r].saved
    OBVIOUS
  <2>2. profile' = [p \in 1..Len(profile) |->
                IF p = old /\ profile[p].status # "expired" THEN [profile[p] EXCEPT !.status = "expired"]
                ELSE IF p = saved /\ profile[p].status = "issued" THEN [profile[p] EXCEPT !.status = "active"]
                ELSE profile[p]]
    BY <1>2, <1>5, <2>1 DEF Ce!Activate
  <2>3. \A p \in 1..Len(profile) : \/ profile'[p] = profile[p]
                                   \/ \E s \in {"expired", "active"} : profile'[p] = [profile[p] EXCEPT !.status = s]
    BY <2>2
  <2>4. profile' = [p \in 1..Len(profile) |-> profile'[p]]
    BY <2>2
  <2>5. profile' \in Seq(CertProfile)
    BY <2>3, <2>4, ProfilesChange
  <2> QED
    BY <1>1, <1>3, <2>5, IssuersStay
<1> QED
  BY <1>4, <1>5

LEMMA CredentialIsRevoked ==
    ASSUME CertInv, NEW r \in Requests, Ce!RevokeCredential(r) PROVE CertInv'
<1>1. /\ issuers' = issuers /\ minted' = minted /\ cert' = cert /\ files' = files /\ Ce!Done(r)
  BY DEF Ce!RevokeCredential, Ce!node
<1>2. r \in Callers /\ profile \in Seq(CertProfile)
  BY DEF Callers, CertInv, CertTyped
<1>3. CallsFit'
  BY <1>1, <1>2, CallEnds
<1>4. PICK c : c = call[r].cred
  OBVIOUS
<1>5. profile' = [p \in 1..Len(profile) |-> IF profile[p].cred = c THEN [profile[p] EXCEPT !.status = "expired"] ELSE profile[p]]
  BY <1>2, <1>4 DEF Ce!RevokeCredential
<1>6. \A p \in 1..Len(profile) : \/ profile'[p] = profile[p]
                                 \/ \E s \in {"expired", "active"} : profile'[p] = [profile[p] EXCEPT !.status = s]
  BY <1>5
<1>7. profile' = [p \in 1..Len(profile) |-> profile'[p]]
  BY <1>5
<1>8. profile' \in Seq(CertProfile)
  BY <1>6, <1>7, ProfilesChange
<1> QED
  BY <1>1, <1>3, <1>8, IssuersStay

(* The build of a node: its bundle holds the issuer it found. *)
LEMMA NodeIsServed ==
    ASSUME CertInv, NEW n \in CertNodes, Ce!Serve(n) PROVE CertInv'
<1>1. /\ issuers' = issuers /\ minted' = minted /\ profile' = profile /\ call[n].at = "serve"
  BY DEF Ce!Serve
<1>2. n \in Callers /\ files \in [CertNodes -> Nat] /\ 0 \notin issuers /\ issuers \in SUBSET Nat
  BY DEF Callers, CertInv, CertTyped
<1>3. call[n].issuer \in issuers
  BY <1>1, <1>2 DEF CertInv, Uses
<1>4. PICK issuer \in issuers : issuer = call[n].issuer
  BY <1>3
<1>5. Ce!Goes(n, "list") => CallsFit'
  BY <1>1, <1>2, CallGoes DEF Uses
<1>6. CASE Ce!Goes(n, "list") /\ cert' = cert /\ files' = files
  BY <1>1, <1>5, <1>6, IssuersStay
<1>7. CASE Ce!Goes(n, "list") /\ files' = [files EXCEPT ![n] = call[n].issuer] /\ cert' = cert
  <2>1. files' = [files EXCEPT ![n] = issuer]
    BY <1>4, <1>7
  <2>2. files' \in [CertNodes -> Nat] /\ \A m \in CertNodes : files'[m] # 0 => files'[m] \in issuers
    BY <1>2, <2>1 DEF CertInv
  <2> QED
    BY <1>1, <1>5, <1>7, <2>2, IssuersStay
<1>8. CASE Ce!Sign(n, call[n].issuer) /\ call' = call /\ files' = files
  <2>1. PICK holder \in Creds \union CertNodes \union {"none"} : holder = n
    OBVIOUS
  <2>2. Ce!Sign(holder, issuer)
    BY <1>4, <1>8, <2>1
  <2>3. cert' \in Seq(CertRow) /\ \A s \in 1..Len(cert') : cert'[s].issuer \in issuers
    BY <2>2, CertsSigned
  <2>4. CallsFit'
    BY <1>1, <1>8 DEF CallsFit, CertInv, CertTyped
  <2> QED
    BY <1>1, <1>8, <2>3, <2>4, IssuersStay
<1> QED
  BY <1>6, <1>7, <1>8 DEF Ce!Serve

LEMMA NodeIsBuilt ==
    ASSUME CertInv, NEW n \in CertNodes, Ce!Build(n) \/ Ce!List(n) \/ Ce!Write(n) \/ Ce!Apply(n) PROVE CertInv'
<1>1. n \in Callers /\ cert \in Seq(CertRow) /\ call \in [Callers -> CertCall]
  BY DEF Callers, CertInv, CertTyped
<1>2. issuers' = issuers /\ minted' = minted /\ cert' = cert /\ profile' = profile /\ files' = files
  BY DEF Ce!Build, Ce!List, Ce!Write, Ce!Apply, Ce!store, Ce!node
<1>3. CASE Ce!Build(n)
  <2>1. Ce!Goes(n, "find") /\ call[n].at = "idle"
    BY <1>3, IdleCall DEF Ce!Build
  <2>2. CallsFit'
    BY <1>1, <1>2, <2>1, CallGoes DEF Uses
  <2> QED
    BY <1>2, <2>2, IssuersStay
<1>4. CASE Ce!List(n)
  <2>1. PICK serials : serials = Ce!Refusable
    OBVIOUS
  <2>2. call' = [call EXCEPT ![n].list = serials, ![n].at = "write"]
    BY <1>4, <2>1 DEF Ce!List
  <2>3. serials \in SUBSET Nat
    BY <1>1, <2>1 DEF Ce!Refusable, Ce!Serials
  <2>4. PICK new : new = [call[n] EXCEPT !.list = serials, !.at = "write"]
    OBVIOUS
  <2>5. call' = [call EXCEPT ![n] = new] /\ call[n] \in CertCall
    BY <1>1, <2>2, <2>4
  <2>6. new = [at |-> "write", cred |-> call[n].cred, issuer |-> call[n].issuer, serial |-> call[n].serial,
               saved |-> call[n].saved, old |-> call[n].old, list |-> serials]
    BY <2>4, <2>5 DEF CertCall
  <2>7. new \in CertCall /\ new.at \notin Uses
    BY <2>3, <2>5, <2>6 DEF CertCall, Uses
  <2>8. issuers \subseteq issuers' /\ (new.at \in Uses => new.issuer \in issuers')
    BY <1>2, <2>7
  <2>9. CallsFit'
    BY <1>1, <2>5, <2>7, <2>8, CallMoves
  <2> QED
    BY <1>2, <2>9, IssuersStay
<1>5. CASE Ce!Write(n)
  <2>1. CallsFit'
    BY <1>1, <1>2, <1>5, CallEnds DEF Ce!Write
  <2> QED
    BY <1>2, <2>1, IssuersStay
<1>6. CASE Ce!Apply(n)
  <2>1. CallsFit'
    BY <1>2, <1>6 DEF Ce!Apply, CallsFit, CertInv, CertTyped
  <2> QED
    BY <1>2, <2>1, IssuersStay
<1> QED
  BY <1>3, <1>4, <1>5, <1>6

LEMMA CallsAreLost ==
    ASSUME CertInv, Ce!Crash \/ (\E c \in Creds : Ce!Withhold(c)) PROVE CertInv'
<1>1. issuers' = issuers /\ minted' = minted /\ cert' = cert /\ profile' = profile /\ files' = files
  BY DEF Ce!Crash, Ce!Withhold, Ce!store, Ce!node
<1>2. CallsFit'
  <2>1. CASE Ce!Crash
    <3>1. call' = [x \in Callers |-> Ce!Idle]
      BY <2>1 DEF Ce!Crash, CertInv, CertTyped
    <3> QED
      BY <3>1, IdleCall DEF CallsFit, Uses
  <2>2. CASE \E c \in Creds : Ce!Withhold(c)
    BY <1>1, <2>2 DEF Ce!Withhold, CallsFit, CertInv, CertTyped
  <2> QED
    BY <2>1, <2>2
<1> QED
  BY <1>1, <1>2, IssuersStay

LEMMA CertificateSteps ==
    ASSUME CertInv, [Ce!Next]_certVars PROVE CertInv'
<1>1. Requests \subseteq Callers /\ CertNodes \subseteq Callers
  BY DEF Callers
<1>2. CASE UNCHANGED certVars
  BY <1>2 DEF certVars, CertInv, CertTyped
<1>3. CASE \E r \in Requests : (\E c \in Creds : Ce!Issue(r, c) \/ Ce!RevokeCertificates(r, c)) \/ (\E p \in DOMAIN profile : Ce!Rotate(r, p))
  BY <1>3, CallsBegin
<1>4. ASSUME NEW r \in Requests,
             \/ Ce!Find(r) \/ Ce!Mint(r) \/ Ce!Certify(r) \/ Ce!SignClient(r) \/ Ce!Save(r) \/ Ce!Activate(r)
             \/ Ce!RevokeCredential(r)
      PROVE  CertInv'
  BY <1>1, <1>4, IssuerIsFound, IssuerIsMade, CallIsCertified, ClientIsSigned, ProfileIsSaved, ProfileIsActivated,
     CredentialIsRevoked
<1>5. ASSUME NEW n \in CertNodes, Ce!NodeStep(n) PROVE CertInv'
  BY <1>1, <1>5, IssuerIsFound, IssuerIsMade, NodeIsServed, NodeIsBuilt DEF Ce!NodeStep
<1> QED
  BY <1>2, <1>3, <1>4, <1>5, CallsAreLost DEF Ce!Next

LEMMA CertInvIssuers == CertInv => Ce!IssuersAgree
<1> SUFFICES ASSUME CertInv PROVE Ce!IssuersAgree
  OBVIOUS
<1>1. Ce!Cardinality(issuers) = Cardinality(issuers)
  BY DEF Ce!Cardinality, Cardinality
<1>2. Cardinality(issuers) <= 1
  <2>1. CASE issuers = {}
    BY <2>1, FS_EmptySet
  <2>2. CASE issuers # {}
    <3>1. PICK i \in issuers : TRUE
      BY <2>2
    <3>2. issuers = {i}
      BY <3>1 DEF CertInv
    <3>3. Cardinality({i}) = 1
      BY FS_Singleton
    <3> QED
      BY <3>2, <3>3
  <2> QED
    BY <2>1, <2>2
<1> QED
  BY <1>1, <1>2 DEF CertInv, Ce!IssuersAgree, Ce!Serials

(* Nodes are added, edited and deployed by any number of requests at once, and  *)
(* their builds and the profile routes make the issuer when it is missing: no   *)
(* machine has two rows, and every certificate and bundle is of one issuer.     *)
THEOREM OneMachineOneIssuer == StoreSpec => []OneOfEach
<1>1. HostInv => Nr!OneRowPerMachine
  BY DEF HostInv, RowStands, RowsApart, Nr!OneRowPerMachine
<1>2. HostInv /\ CertInv => OneOfEach
  BY <1>1, CertInvIssuers DEF OneOfEach
<1> QED
  BY <1>2, NodesRun, NodesInit, NodeSteps, CertificatesRun, CertificatesInit, CertificateSteps, PTL
=============================================================================
