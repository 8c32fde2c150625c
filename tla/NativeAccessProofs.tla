------------------------- MODULE NativeAccessProofs -------------------------
(***************************************************************************)
(* Proofs about NativeAccess for any devices, nodes, keys, addresses,      *)
(* requests, limits and lengths of leases and sessions.                    *)
(***************************************************************************)
EXTENDS NativeAccess, FiniteSetTheorems, WellFoundedInduction, TLAPS

(* A set of numbers has a least member, and Min finds it; one with a bound has a greatest, and Max finds it. *)
LEMMA LeastMember ==
  ASSUME NEW S \in SUBSET Nat, S # {}
  PROVE  Min(S) \in S /\ \A y \in S : Min(S) <= y
<1>1. PICK x \in S : \A y \in S : ~(<<y, x>> \in OpToRel(<, Nat))
  BY WFMin, NatLessThanWellFounded
<1>2. \A y \in S : x <= y
  <2>1. SUFFICES ASSUME NEW y \in S, y < x PROVE FALSE
    OBVIOUS
  <2>2. <<y, x>> \in OpToRel(<, Nat)
    BY <2>1 DEF OpToRel
  <2> QED
    BY <1>1, <2>2
<1> QED
  BY <1>1, <1>2 DEF Min

LEMMA GreatestMember ==
  ASSUME NEW S \in SUBSET Nat, S # {}, NEW b \in Nat, \A y \in S : y <= b
  PROVE  Max(S) \in S /\ \A y \in S : y <= Max(S)
<1> DEFINE T == {b - y : y \in S}
<1>0. \A y \in S : b - y \in Nat
  OBVIOUS
<1>1. T \in SUBSET Nat /\ T # {}
  BY <1>0
<1>2. PICK x \in S : b - x = Min(T)
  BY <1>1, LeastMember
<1>3. \A y \in S : b - x <= b - y
  BY <1>1, <1>2, LeastMember
<1>4. x \in S /\ \A y \in S : x >= y
  BY <1>3
<1>5. Max(S) \in S /\ \A y \in S : Max(S) >= y
  BY <1>4 DEF Max
<1> QED
  BY <1>5

LEMMA Sooner ==
  ASSUME NEW a \in Nat, NEW b \in Nat
  PROVE  Min({a, b}) \in {a, b} /\ Min({a, b}) <= a /\ Min({a, b}) <= b
BY LeastMember

LEMMA Numbers ==
  /\ AccessUntil \in Nat /\ Ttl \in Nat /\ Slack \in Nat /\ SessionLife \in Nat /\ Grace \in Nat
  /\ MaxClock \in Nat /\ MaxClock # 0 /\ MaxRequests \in Nat /\ MaxEvents \in Nat /\ Never \in Nat
BY TimeAssumption DEF Never

-----------------------------------------------------------------------------
(* Types. *)

LEMMA TypeInit == Init => TypeOK
<1> SUFFICES ASSUME Init PROVE TypeOK
  OBVIOUS
<1>1. account \in AccountRow
  BY SetAssumption DEF Init, AccountRow
<1>2. NoLease \in LeaseRow /\ Idle \in CallRow /\ NoTask \in Payload /\ [rev |-> 1, peers |-> {}] \in Payload
  BY DEF NoLease, LeaseRow, CallRow, NoTask, Payload
<1>3. NoAnswer \in AnswerRow /\ [file |-> {}, keys |-> {}, contact |-> 1] \in AgentRow
  BY <1>2 DEF NoAnswer, AnswerRow, AgentRow
<1> QED
  BY <1>1, <1>2, <1>3, TimeAssumption DEF Init, TypeOK, EnrollmentRow, Never

LEMMA PeersAreTyped ==
  ASSUME TypeOK, NEW n \in Node
  PROVE  LeasePeers(n) \in SUBSET Peer
<1>1. ASSUME NEW d \in Device PROVE PeerOf(d, n) \in Peer
  BY DEF TypeOK, LeaseRow, PeerOf, Peer
<1> QED
  BY <1>1 DEF LeasePeers

LEMMA RefreshedAreTyped ==
  ASSUME NEW file \in SUBSET Peer, NEW wanted \in SUBSET Peer
  PROVE  Refreshed(file, wanted) \in SUBSET Peer
<1>1. ASSUME NEW p \in file, \E w \in wanted : w.key = p.key
      PROVE  [(CHOOSE w \in wanted : w.key = p.key) EXCEPT !.addr = p.addr] \in Peer
  <2>1. (CHOOSE w \in wanted : w.key = p.key) \in Peer
    BY <1>1
  <2> QED
    BY <2>1 DEF Peer
<1> QED
  BY <1>1 DEF Refreshed, Restored

LEMMA SettledIsTyped ==
  ASSUME TypeOK
  PROVE  Settled(enrolled) \in [Device -> EnrollmentRow]
<1>1. ASSUME NEW d \in Device PROVE [enrolled[d] EXCEPT !.st = "revoked"] \in EnrollmentRow
  <2>1. enrolled[d] \in EnrollmentRow
    BY DEF TypeOK
  <2> QED
    BY <2>1 DEF EnrollmentRow
<1> QED
  BY <1>1 DEF Settled, TypeOK

LEMMA EndedIsTyped ==
  ASSUME TypeOK, NEW d \in Device
  PROVE  EndedLeases(d) \in [Device -> [Node -> LeaseRow]]
<1>1. ASSUME NEW n \in Node
      PROVE  NoLease \in LeaseRow /\ [lease[d][n] EXCEPT !.until = clock, !.stamp = 0] \in LeaseRow
  <2>1. lease[d][n] \in LeaseRow /\ clock \in Nat
    BY DEF TypeOK
  <2> QED
    BY <2>1 DEF LeaseRow, NoLease
<1>2. [n \in Node |-> IF lease[d][n] = NoLease THEN NoLease ELSE [lease[d][n] EXCEPT !.until = clock, !.stamp = 0]]
        \in [Node -> LeaseRow]
  BY <1>1
<1> QED
  BY <1>2 DEF EndedLeases, TypeOK

(* The slot waits for the last deadline of the device. *)
LEMMA ReleaseIsLast ==
  ASSUME TypeOK, NEW d \in Device, NEW b \in Nat, clock <= b, \A n \in Node : lease[d][n].until <= b
  PROVE  ReleaseAfter(d) \in Nat /\ \A n \in Node : lease[d][n].until <= ReleaseAfter(d)
<1> DEFINE S == {clock} \union {lease[d][n].until : n \in HasLease(d)}
<1>1. S \in SUBSET Nat /\ S # {} /\ \A y \in S : y <= b
  BY DEF TypeOK, LeaseRow, HasLease
<1>2. Max(S) \in S /\ \A y \in S : y <= Max(S)
  BY <1>1, GreatestMember
<1>3. ReleaseAfter(d) = Max(S) + Slack /\ Slack \in Nat
  BY TimeAssumption DEF ReleaseAfter
<1>4. ASSUME NEW n \in Node PROVE lease[d][n].until <= ReleaseAfter(d)
  <2>0. lease[d][n].until \in Nat
    BY DEF TypeOK, LeaseRow
  <2>3. Max(S) \in Nat
    BY <1>1, <1>2
  <2>1. CASE n \in HasLease(d)
    <3>1. lease[d][n].until <= Max(S)
      BY <1>2, <2>1
    <3> HIDE DEF S
    <3> QED
      BY <1>3, <2>0, <2>3, <3>1
  <2>2. CASE n \notin HasLease(d)
    <3>1. lease[d][n].until = 0
      BY <2>2 DEF HasLease, NoLease
    <3> HIDE DEF S
    <3> QED
      BY <1>3, <2>3, <3>1
  <2> QED
    BY <2>1, <2>2
<1> QED
  BY <1>1, <1>2, <1>3, <1>4

LEMMA RevokedIsTyped ==
  ASSUME TypeOK, NEW d \in Device, ReleaseAfter(d) \in Nat
  PROVE  Revoked(d) \in [Device -> EnrollmentRow]
BY DEF Revoked, TypeOK, EnrollmentRow

LEMMA RebuildIsTyped ==
  ASSUME TypeOK, NEW n \in Node, Rebuild(n)
  PROVE  desired' \in [Node -> Payload] /\ queue' \in [Node -> Payload] /\ NextRev(n) \in Nat
<1>1. NextRev(n) \in Nat
  BY DEF TypeOK, NextRev, Payload
<1>2. [rev |-> NextRev(n), peers |-> LeasePeers(n)] \in Payload
  BY <1>1, PeersAreTyped DEF Payload
<1> QED
  BY <1>1, <1>2 DEF TypeOK, Rebuild

LEMMA ConnectIsTyped ==
  ASSUME TypeOK, NEW d \in Device, NEW n \in Node, NEW k \in Key, Admissible(d, n, k)
  PROVE  /\ LeaseRows(d, n, k) \in [Node -> LeaseRow] /\ Expiry \in Nat \ {0} /\ Stamp \in Nat
         /\ lease[d][n] = NoLease => Min(FreeAddresses(n)) \in FreeAddresses(n)
<1>0. clock + Ttl \in Nat /\ connects \in Nat
  BY Numbers DEF TypeOK
<1>1. Expiry \in Nat \ {0} /\ Stamp \in Nat
  <2>1. Expiry \in {clock + Ttl, AccessUntil}
    BY <1>0, Sooner, Numbers DEF Expiry
  <2>2. clock + Ttl # 0 /\ AccessUntil # 0
    BY Numbers DEF TypeOK, Admissible, Allowed
  <2> QED
    BY <1>0, <2>1, <2>2, Numbers DEF Stamp
<1>2. lease[d][n] = NoLease => Min(FreeAddresses(n)) \in FreeAddresses(n)
  BY LeastMember, SetAssumption DEF Admissible, FreeAddresses
<1>3. [key |-> k, addr |-> IF lease[d][n] = NoLease THEN Min(FreeAddresses(n)) ELSE lease[d][n].addr,
       until |-> Expiry, stamp |-> Stamp, req |-> 0] \in LeaseRow
  <2>1. lease[d][n].addr \in Nat
    BY DEF TypeOK, LeaseRow
  <2>2. FreeAddresses(n) \in SUBSET Nat
    BY SetAssumption DEF FreeAddresses
  <2> QED
    BY <1>1, <1>2, <2>1, <2>2 DEF LeaseRow
<1>4. ASSUME NEW m \in Node PROVE lease[d][m] \in LeaseRow /\ [lease[d][m] EXCEPT !.until = clock, !.stamp = 0] \in LeaseRow
  <2>1. lease[d][m] \in LeaseRow /\ clock \in Nat
    BY DEF TypeOK
  <2> QED
    BY <2>1 DEF LeaseRow
<1>5. LeaseRows(d, n, k) \in [Node -> LeaseRow]
  BY <1>3, <1>4 DEF LeaseRows
<1> QED
  BY <1>1, <1>2, <1>5

(* A deadline that no lease of the device passes: ReleaseAfter has something to find. *)
LEMMA LeasesAreBounded ==
  ASSUME TypeOK, \A d \in Device, n \in Node : lease[d][n].until <= clock + Ttl, NEW d \in Device
  PROVE  ReleaseAfter(d) \in Nat /\ \A n \in Node : lease[d][n].until <= ReleaseAfter(d)
<1>1. clock + Ttl \in Nat /\ clock <= clock + Ttl
  BY Numbers DEF TypeOK
<1> HIDE DEF TypeOK
<1> QED
  BY <1>1, ReleaseIsLast

(* No lease is longer than Ttl, and none that lives outlasts the account. *)
LeasesEnd ==
  \A d \in Device, n \in Node : lease[d][n].until <= clock + Ttl /\ (lease[d][n].until <= clock \/ lease[d][n].until <= AccessUntil)

(* What a connect does, with the device, node and key of its challenge. *)
Connects(h, d, n, k) ==
  /\ call[h].pc = "idle" /\ SignedIn(d) /\ Admissible(d, n, k) /\ challenges' \subseteq challenges
  /\ session' = [session EXCEPT ![d] = SessionEnd]
  /\ enrolled' = IF enrolled[d].st = "none" THEN [Settled(enrolled) EXCEPT ![d].st = "active"] ELSE Settled(enrolled)
  /\ older' = IF enrolled[d].st = "none" THEN [older EXCEPT ![d] = {e \in Device : enrolled[e].st # "none"}] ELSE older
  /\ lease' = [lease EXCEPT ![d] = LeaseRows(d, n, k)]
  /\ taken' = IF lease[d][n] = NoLease THEN [taken EXCEPT ![n] = @ \union {Min(FreeAddresses(n))}] ELSE taken
  /\ call' = [call EXCEPT ![h] = [pc |-> "build", dev |-> d, node |-> n, key |-> k, until |-> Expiry, stamp |-> Stamp, rev |-> 0]]
  /\ dropped' = [dropped EXCEPT ![d] = FALSE] /\ connects' = connects + 1
  /\ UNCHANGED <<clock, account, paused, control, answer, agent, withdrawn, requests, events>>

LEMMA ConnectMeans ==
  ASSUME TypeOK, NEW h \in Handler, Connect(h)
  PROVE  \E d \in Device, n \in Node, k \in Key : Connects(h, d, n, k)
<1>1. PICK c \in challenges :
        /\ Consumable(c, "connect")
        /\ Connects(h, c.dev, c.node, c.key)
  BY DEF Connect, Connects, Consumable
<1>2. c.dev \in Device /\ c.node \in Node /\ c.key \in Key
  BY <1>1 DEF Consumable, TypeOK, ChallengeRow
<1> QED
  BY <1>1, <1>2

LEMMA TypeStep == TypeOK /\ LeasesEnd /\ [Next]_vars => TypeOK'
<1> SUFFICES ASSUME TypeOK, LeasesEnd, [Next]_vars PROVE TypeOK'
  OBVIOUS
<1>a. ASSUME NEW d \in Device PROVE ReleaseAfter(d) \in Nat
  BY LeasesAreBounded DEF LeasesEnd
<1>b. SessionEnd \in Nat
  <2>1. clock + SessionLife \in Nat
    BY Numbers DEF TypeOK
  <2> QED
    BY <2>1, Sooner, Numbers DEF SessionEnd
<1> USE DEF TypeOK, rows, control, history
<1>1. ASSUME NEW d \in Device, Login(d) PROVE TypeOK'
  <2>1. [n \in Node |-> NoLease] \in [Node -> LeaseRow]
    BY DEF NoLease, LeaseRow
  <2>2. [st |-> "none", release |-> 0] \in EnrollmentRow
    BY DEF EnrollmentRow
  <2>3. enrolled' \in [Device -> EnrollmentRow]
    BY <1>1, <2>2 DEF Login
  <2>4. older' \in [Device -> SUBSET Device]
    <3>1. older' = older \/ older' = [e \in Device |-> IF e = d THEN {} ELSE older[e] \ {d}]
      BY <1>1 DEF Login
    <3>2. \A e \in Device : (IF e = d THEN {} ELSE older[e] \ {d}) \in SUBSET Device
      OBVIOUS
    <3> QED
      BY <3>1, <3>2
  <2>5. lease' \in [Device -> [Node -> LeaseRow]]
    BY <1>1, <2>1 DEF Login
  <2>6. session' \in [Device -> Nat] /\ challenges' \subseteq challenges
    BY <1>1, <1>b DEF Login
  <2> QED
    BY <1>1, <2>3, <2>4, <2>5, <2>6 DEF Login
<1>2. ASSUME NEW d \in Device, Logout(d) PROVE TypeOK'
  BY <1>2 DEF Logout
<1>3. ASSUME NEW d \in Device, Challenge(d) PROVE TypeOK'
  <2>1. ASSUME NEW c \in Request(d) PROVE c \in ChallengeRow /\ (c.act = "connect" => c.node \in Node /\ c.key \in Key)
    BY <2>1, TimeAssumption DEF Request, ChallengeRow
  <2> QED
    BY <1>3, <2>1 DEF Challenge
<1>4. ASSUME NEW d \in Device, ReadAccount(d) PROVE TypeOK'
  BY <1>4, SettledIsTyped DEF ReadAccount
<1>5. ASSUME NEW h \in Handler, Connect(h) PROVE TypeOK'
  <2>1. PICK d \in Device, n \in Node, k \in Key : Connects(h, d, n, k)
    BY <1>5, ConnectMeans
  <2>2. /\ Admissible(d, n, k) /\ challenges' \subseteq challenges /\ UNCHANGED <<clock, account, paused, control, answer, agent, withdrawn, requests, events>>
    BY <2>1 DEF Connects
  <2>3. LeaseRows(d, n, k) \in [Node -> LeaseRow] /\ Expiry \in Nat \ {0} /\ Stamp \in Nat
        /\ (lease[d][n] = NoLease => Min(FreeAddresses(n)) \in FreeAddresses(n))
    BY <2>2, ConnectIsTyped
  <2>4. enrolled' \in [Device -> EnrollmentRow]
    <3>1. Settled(enrolled) \in [Device -> EnrollmentRow]
      BY SettledIsTyped
    <3>2. [Settled(enrolled)[d] EXCEPT !.st = "active"] \in EnrollmentRow
      BY <3>1 DEF EnrollmentRow
    <3> QED
      BY <2>1, <3>1, <3>2 DEF Connects
  <2>5. call' \in [Handler -> CallRow]
    <3>1. [pc |-> "build", dev |-> d, node |-> n, key |-> k, until |-> Expiry, stamp |-> Stamp, rev |-> 0] \in CallRow
      BY <2>3 DEF CallRow
    <3> QED
      BY <2>1, <3>1 DEF Connects
  <2>6. taken' \in [Node -> SUBSET Address]
    BY <2>1, <2>3 DEF Connects, FreeAddresses
  <2>7. lease' \in [Device -> [Node -> LeaseRow]]
    BY <2>1, <2>3 DEF Connects
  <2>8. session' \in [Device -> Nat]
    BY <1>b, <2>1 DEF Connects
  <2>9. older' \in [Device -> SUBSET Device]
    BY <2>1 DEF Connects
  <2>10. dropped' \in [Device -> BOOLEAN] /\ connects' \in Nat
    BY <2>1 DEF Connects
  <2> QED
    BY <2>2, <2>4, <2>5, <2>6, <2>7, <2>8, <2>9, <2>10
<1>6. ASSUME NEW h \in Handler, Build(h) PROVE TypeOK'
  <2>1. call[h] # Idle /\ call[h].node \in Node /\ call[h] \in CallRow
    BY <1>6 DEF Build, Idle, CallRow
  <2>2. desired' \in [Node -> Payload] /\ queue' \in [Node -> Payload] /\ NextRev(call[h].node) \in Nat
    BY <1>6, <2>1, RebuildIsTyped DEF Build
  <2>3. [call[h] EXCEPT !.pc = "record", !.rev = NextRev(call[h].node)] \in CallRow
    BY <2>1, <2>2 DEF CallRow
  <2> QED
    BY <1>6, <2>2, <2>3 DEF Build
<1>7. ASSUME NEW h \in Handler, Record(h) PROVE TypeOK'
  <2> DEFINE d == call[h].dev  n == call[h].node
  <2>1. call[h] # Idle /\ d \in Device /\ n \in Node /\ call[h].rev \in Nat
    BY <1>7 DEF Record, Idle, CallRow
  <2>2. [lease[d][n] EXCEPT !.req = call[h].rev] \in LeaseRow
    <3>1. lease[d][n] \in LeaseRow
      BY <2>1
    <3> QED
      BY <2>1, <3>1 DEF LeaseRow
  <2>3. lease' \in [Device -> [Node -> LeaseRow]]
    <3>1. [lease[d] EXCEPT ![n] = [lease[d][n] EXCEPT !.req = call[h].rev]] \in [Node -> LeaseRow]
      BY <2>1, <2>2
    <3>2. lease' = lease \/ lease' = [lease EXCEPT ![d] = [lease[d] EXCEPT ![n] = [lease[d][n] EXCEPT !.req = call[h].rev]]]
      BY <1>7 DEF Record
    <3> QED
      BY <2>1, <3>1, <3>2
  <2>4. call' \in [Handler -> CallRow]
    BY <1>7 DEF Record, CallRow
  <2> QED
    BY <1>7, <2>3, <2>4 DEF Record
<1>8. ASSUME NEW h \in Handler, Dies(h) PROVE TypeOK'
  <2>1. call' \in [Handler -> CallRow]
    BY <1>8 DEF Dies, CallRow
  <2> QED
    BY <1>8, <2>1 DEF Dies
<1>9. CASE Disconnect
  <2>1. PICK c \in challenges : challenges' = challenges \ {c} /\ lease' = EndedLeases(c.dev) /\ dropped' = [dropped EXCEPT ![c.dev] = TRUE]
    BY <1>9 DEF Disconnect
  <2>2. lease' \in [Device -> [Node -> LeaseRow]]
    BY <2>1, EndedIsTyped DEF ChallengeRow
  <2> QED
    BY <1>9, <2>1, <2>2 DEF Disconnect
<1>10. CASE RevokeDevice
  <2>1. PICK c \in challenges : challenges' = challenges \ {c} /\ enrolled' = Revoked(c.target) /\ lease' = EndedLeases(c.target)
    BY <1>10 DEF RevokeDevice
  <2>2. c.target \in Device
    BY <2>1 DEF ChallengeRow
  <2>3. lease' \in [Device -> [Node -> LeaseRow]] /\ enrolled' \in [Device -> EnrollmentRow]
    BY <1>a, <2>1, <2>2, EndedIsTyped, RevokedIsTyped
  <2> QED
    BY <1>10, <2>1, <2>3 DEF RevokeDevice
<1>11. CASE AccountChanges
  <2>1. account' \in AccountRow
    BY <1>11, SetAssumption DEF AccountChanges, AccountRow
  <2> QED
    BY <1>11, <2>1 DEF AccountChanges
<1>12. ASSUME NEW d \in Device, SignOut(d) PROVE TypeOK'
  <2>1. lease' \in [Device -> [Node -> LeaseRow]] /\ enrolled' \in [Device -> EnrollmentRow]
    BY <1>12, <1>a, EndedIsTyped, RevokedIsTyped DEF SignOut
  <2>2. session' \in [Device -> Nat] /\ challenges' \subseteq challenges
    BY <1>12 DEF SignOut
  <2> QED
    BY <1>12, <2>1, <2>2 DEF SignOut
<1>13. ASSUME NEW d \in Device, AdminRevoke(d) PROVE TypeOK'
  <2>1. lease' \in [Device -> [Node -> LeaseRow]] /\ enrolled' \in [Device -> EnrollmentRow]
    BY <1>13, <1>a, EndedIsTyped, RevokedIsTyped DEF AdminRevoke
  <2> QED
    BY <1>13, <2>1 DEF AdminRevoke
<1>14. ASSUME NEW n \in Node, PauseOrResume(n) PROVE TypeOK'
  BY <1>14 DEF PauseOrResume
<1>15. ASSUME NEW n \in Node, RebuildChanged(n) PROVE TypeOK'
  BY <1>15, RebuildIsTyped DEF RebuildChanged
<1>16. ASSUME NEW n \in Node, Pull(n) PROVE TypeOK'
  <2>1. [open |-> TRUE, task |-> queue[n], peers |-> LeasePeers(n)] \in AnswerRow
    BY PeersAreTyped DEF AnswerRow
  <2>2. NoTask \in Payload
    BY DEF NoTask, Payload
  <2>3. agent' \in [Node -> AgentRow]
    <3>1. [agent[n] EXCEPT !.contact = clock] \in AgentRow
      BY DEF AgentRow
    <3> QED
      BY <1>16, <3>1 DEF Pull
  <2> QED
    BY <1>16, <2>1, <2>2, <2>3 DEF Pull
<1>17. ASSUME NEW n \in Node, Handle(n) PROVE TypeOK'
  <2>1. answer[n].task \in Payload /\ answer[n].peers \in SUBSET Peer /\ agent[n].file \in SUBSET Peer
    BY DEF AnswerRow, AgentRow
  <2>2. Refreshed(Applied(n), Wanted(n)) \in SUBSET Peer
    <3>1. Applied(n) \in SUBSET Peer /\ Wanted(n) \in SUBSET Peer
      BY <2>1 DEF Applied, Wanted, Payload
    <3> QED
      BY <3>1, RefreshedAreTyped
  <2>3. {p.key : p \in answer[n].task.peers} \in SUBSET (Key \union {"none"})
    BY <2>1 DEF Payload, Peer
  <2>4. agent' \in [Node -> AgentRow]
    <3>1. \A keys \in SUBSET (Key \union {"none"}) : [agent[n] EXCEPT !.file = Refreshed(Applied(n), Wanted(n)), !.keys = keys] \in AgentRow
      BY <2>2 DEF AgentRow
    <3>2. agent[n].keys \in SUBSET (Key \union {"none"})
      BY DEF AgentRow
    <3>3. \E keys \in SUBSET (Key \union {"none"}) :
            agent' = [agent EXCEPT ![n] = [agent[n] EXCEPT !.file = Refreshed(Applied(n), Wanted(n)), !.keys = keys]]
      BY <1>17, <2>3, <3>2 DEF Handle
    <3> QED
      BY <3>1, <3>3
  <2>5. answer' \in [Node -> AnswerRow] /\ observed' \in [Node -> Nat]
    BY <1>17, <2>1 DEF Handle, NoAnswer, NoTask, Payload, AnswerRow
  <2> QED
    BY <1>17, <2>4, <2>5 DEF Handle
<1>18. ASSUME NEW n \in Node, ExtendOffline(n) PROVE TypeOK'
  <2> DEFINE target == Min({clock + Ttl, agent[n].contact + Grace})
             due == {p \in agent[n].file : clock < p.until /\ p.until <= clock + 1 /\ p.until < target}
  <2>1. target \in Nat
    <3>1. clock + Ttl \in Nat /\ agent[n].contact + Grace \in Nat
      BY Numbers DEF AgentRow
    <3> QED
      BY <3>1, Sooner
  <2> HIDE DEF target
  <2>2. {[p EXCEPT !.until = target, !.ext = TRUE] : p \in due} \in SUBSET Peer
    <3>1. ASSUME NEW p \in due PROVE [p EXCEPT !.until = target, !.ext = TRUE] \in Peer
      <4>1. p \in Peer
        BY DEF AgentRow
      <4> QED
        BY <2>1, <4>1 DEF Peer
    <3> QED
      BY <3>1
  <2>3. (agent[n].file \ due) \union {[p EXCEPT !.until = target, !.ext = TRUE] : p \in due} \in SUBSET Peer
    BY <2>2 DEF AgentRow
  <2> HIDE DEF due
  <2>4. agent' = [agent EXCEPT ![n].file = (@ \ due) \union {[p EXCEPT !.until = target, !.ext = TRUE] : p \in due}]
    BY <1>18 DEF ExtendOffline, target, due
  <2>5. agent' \in [Node -> AgentRow]
    <3>1. \A file \in SUBSET Peer : [agent[n] EXCEPT !.file = file] \in AgentRow
      BY DEF AgentRow
    <3> QED
      BY <2>3, <2>4, <3>1
  <2>6. events' = events + 1 /\ UNCHANGED <<clock, rows, control, answer, call, history, connects, requests>>
    BY <1>18 DEF ExtendOffline
  <2> QED
    BY <2>5, <2>6
<1>19. CASE Refuse
  BY <1>19 DEF Refuse
<1>20. CASE Tick
  <2>1. agent' \in [Node -> AgentRow]
    <3>1. \A n \in Node : [agent[n] EXCEPT !.file = {p \in @ : p.until > clock'}] \in AgentRow
      BY DEF AgentRow
    <3> QED
      BY <1>20, <3>1 DEF Tick
  <2>2. clock' \in Nat \ {0} /\ clock' <= MaxClock /\ challenges' \subseteq challenges
    BY <1>20, Numbers DEF Tick
  <2> QED
    BY <1>20, <2>1, <2>2 DEF Tick
<1>21. CASE UNCHANGED vars
  BY <1>21 DEF vars
<1> QED
  BY <1>1, <1>2, <1>3, <1>4, <1>5, <1>6, <1>7, <1>8, <1>9, <1>10, <1>11, <1>12, <1>13, <1>14, <1>15, <1>16, <1>17,
     <1>18, <1>19, <1>20, <1>21 DEF Next

-----------------------------------------------------------------------------
(* What a step does to the lease rows. *)

(* A row stays the device's, with its address and key, or is gone; its deadline stays or is now. *)
Keeps(e, m) ==
  \/ lease'[e][m] = NoLease
  \/ /\ lease[e][m] # NoLease
     /\ lease'[e][m].addr = lease[e][m].addr /\ lease'[e][m].key = lease[e][m].key
     /\ lease'[e][m].until \in {lease[e][m].until, clock}

LEMMA UntouchedRows ==
  ASSUME TypeOK, UNCHANGED lease, NEW e \in Device, NEW m \in Node
  PROVE  Keeps(e, m)
BY DEF Keeps

LEMMA EndedRows ==
  ASSUME TypeOK, NEW d \in Device, lease' = EndedLeases(d), NEW e \in Device, NEW m \in Node
  PROVE  /\ Keeps(e, m)
         /\ e # d => lease'[e][m] = lease[e][m]
         /\ lease'[d][m] = NoLease \/ (lease'[d][m].until = clock /\ lease'[d][m].stamp = 0)
<1>0. e # d => lease'[e] = lease[e]
  BY DEF EndedLeases, TypeOK
<1>1. ASSUME e # d PROVE Keeps(e, m)
  <2>1. lease'[e][m] = lease[e][m]
    BY <1>0, <1>1
  <2> QED
    BY <2>1 DEF Keeps
<1>2. lease'[d][m] = IF lease[d][m] = NoLease THEN NoLease ELSE [lease[d][m] EXCEPT !.until = clock, !.stamp = 0]
  BY DEF EndedLeases, TypeOK
<1>3. lease[d][m] \in LeaseRow
  BY DEF TypeOK
<1>4. lease'[d][m] = NoLease \/ (/\ lease[d][m] # NoLease /\ lease'[d][m].addr = lease[d][m].addr /\ lease'[d][m].key = lease[d][m].key
                                 /\ lease'[d][m].until = clock /\ lease'[d][m].stamp = 0)
  BY <1>2, <1>3 DEF LeaseRow
<1>5. ASSUME e = d PROVE Keeps(e, m)
  BY <1>4, <1>5 DEF Keeps
<1> QED
  BY <1>0, <1>1, <1>4, <1>5

LEMMA RecordedRows ==
  ASSUME TypeOK, NEW h \in Handler, Record(h), NEW e \in Device, NEW m \in Node
  PROVE  /\ call[h] # Idle /\ call[h].dev \in Device /\ call[h].node \in Node /\ call[h].pc = "record"
         /\ Keeps(e, m) /\ lease'[e][m].until = lease[e][m].until /\ lease'[e][m].stamp = lease[e][m].stamp
         /\ lease'[e][m].key = lease[e][m].key
         /\ \/ lease'[e][m] = lease[e][m]
            \/ /\ e = call[h].dev /\ m = call[h].node /\ SameLease(h, lease[e][m])
               /\ lease'[e][m].req = call[h].rev
<1> DEFINE d == call[h].dev  n == call[h].node
<1>1. call[h] # Idle /\ d \in Device /\ n \in Node /\ call[h].until # 0 /\ call[h].pc = "record"
  BY DEF Record, Idle, CallRow, TypeOK
<1>2. CASE lease' = lease
  BY <1>1, <1>2 DEF Keeps
<1>3. CASE lease' # lease
  <2>1. SameLease(h, lease[d][n]) /\ lease' = [lease EXCEPT ![d] = [lease[d] EXCEPT ![n] = [lease[d][n] EXCEPT !.req = call[h].rev]]]
    BY <1>3 DEF Record
  <2>2. lease[d][n] # NoLease
    BY <1>1, <2>1 DEF SameLease, NoLease
  <2>3. CASE e = d /\ m = n
    <3>1. lease'[e][m] = [lease[e][m] EXCEPT !.req = call[h].rev] /\ lease[e][m] \in LeaseRow
      BY <1>1, <2>1, <2>3 DEF TypeOK
    <3>2. /\ lease'[e][m].addr = lease[e][m].addr /\ lease'[e][m].key = lease[e][m].key
          /\ lease'[e][m].until = lease[e][m].until /\ lease'[e][m].stamp = lease[e][m].stamp
          /\ lease'[e][m].req = call[h].rev
      BY <3>1 DEF LeaseRow
    <3> QED
      BY <1>1, <2>1, <2>2, <2>3, <3>2 DEF Keeps
  <2>4. CASE ~(e = d /\ m = n)
    <3>1. lease'[e][m] = lease[e][m]
      BY <1>1, <2>1, <2>4 DEF TypeOK
    <3> QED
      BY <1>1, <3>1 DEF Keeps
  <2> QED
    BY <2>3, <2>4
<1> QED
  BY <1>2, <1>3

LEMMA ConnectedRows ==
  ASSUME TypeOK, NEW h, NEW d \in Device, NEW n \in Node, NEW k \in Key, Connects(h, d, n, k),
         NEW e \in Device, NEW m \in Node
  PROVE  /\ e # d => lease'[e][m] = lease[e][m]
         /\ m # n => Keeps(d, m)
         /\ m # n => lease'[d][m] = lease[d][m] \/ (lease[d][m].until > clock /\ lease'[d][m].until = clock /\ lease'[d][m].stamp = 0)
         /\ m # n => lease'[d][m] = lease[d][m] \/ LiveLease(d, m)
         /\ lease'[d][n] = [key |-> k, addr |-> IF lease[d][n] = NoLease THEN Min(FreeAddresses(n)) ELSE lease[d][n].addr,
                            until |-> Expiry, stamp |-> Stamp, req |-> 0]
<1>1. e # d => lease'[e][m] = lease[e][m]
  BY DEF Connects, TypeOK
<1>2. lease'[d] = LeaseRows(d, n, k)
  BY DEF Connects, TypeOK
<1>3. lease'[d][n] = [key |-> k, addr |-> IF lease[d][n] = NoLease THEN Min(FreeAddresses(n)) ELSE lease[d][n].addr,
                      until |-> Expiry, stamp |-> Stamp, req |-> 0]
  BY <1>2 DEF LeaseRows
<1>4. ASSUME m # n PROVE lease'[d][m] = IF LiveLease(d, m) THEN [lease[d][m] EXCEPT !.until = clock, !.stamp = 0] ELSE lease[d][m]
  BY <1>2, <1>4 DEF LeaseRows
<1>5. ASSUME m # n, LiveLease(d, m)
      PROVE  /\ lease[d][m].until > clock /\ lease[d][m] # NoLease /\ lease'[d][m].until = clock /\ lease'[d][m].stamp = 0
             /\ lease'[d][m].addr = lease[d][m].addr /\ lease'[d][m].key = lease[d][m].key
  <2>1. lease[d][m] \in LeaseRow /\ clock \in Nat /\ lease[d][m].until > clock
    BY <1>5 DEF TypeOK, LiveLease
  <2>2. lease[d][m] # NoLease
    BY <2>1 DEF NoLease
  <2> QED
    BY <1>4, <1>5, <2>1, <2>2 DEF LeaseRow
<1>6. ASSUME m # n PROVE Keeps(d, m)
  BY <1>4, <1>5, <1>6 DEF Keeps
<1> QED
  BY <1>1, <1>3, <1>4, <1>5, <1>6

(* Every step but a connect keeps the rows or ends them. *)
LEMMA RowsAreKept ==
  ASSUME TypeOK, [Next]_vars, ~\E h \in Handler : Connect(h), NEW e \in Device, NEW m \in Node
  PROVE  Keeps(e, m)
<1> USE DEF rows, control, history
<1>a. UNCHANGED lease => Keeps(e, m)
  BY UntouchedRows
<1>1. ASSUME NEW d \in Device, Login(d) PROVE Keeps(e, m)
  <2>1. lease' = lease \/ lease' = [lease EXCEPT ![d] = [n \in Node |-> NoLease]]
    BY <1>1 DEF Login
  <2> QED
    BY <2>1 DEF Keeps, TypeOK
<1>2. ASSUME NEW d \in Device, Logout(d) \/ Challenge(d) \/ ReadAccount(d) PROVE Keeps(e, m)
  BY <1>2, <1>a DEF Logout, Challenge, ReadAccount
<1>3. ASSUME NEW h \in Handler, Build(h) \/ Dies(h) PROVE Keeps(e, m)
  BY <1>3, <1>a DEF Build, Dies
<1>4. ASSUME NEW h \in Handler, Record(h) PROVE Keeps(e, m)
  BY <1>4, RecordedRows
<1>5. CASE Disconnect
  <2>1. PICK c \in challenges : lease' = EndedLeases(c.dev)
    BY <1>5 DEF Disconnect
  <2> QED
    BY <2>1, EndedRows DEF TypeOK, ChallengeRow
<1>6. CASE RevokeDevice
  <2>1. PICK c \in challenges : lease' = EndedLeases(c.target)
    BY <1>6 DEF RevokeDevice
  <2> QED
    BY <2>1, EndedRows DEF TypeOK, ChallengeRow
<1>7. ASSUME NEW d \in Device, SignOut(d) \/ AdminRevoke(d) PROVE Keeps(e, m)
  BY <1>7, EndedRows DEF SignOut, AdminRevoke
<1>8. CASE AccountChanges \/ Refuse \/ Tick
  BY <1>8, <1>a DEF AccountChanges, Refuse, Tick
<1>9. ASSUME NEW n \in Node, PauseOrResume(n) \/ RebuildChanged(n) \/ Pull(n) \/ Handle(n) \/ ExtendOffline(n) PROVE Keeps(e, m)
  BY <1>9, <1>a DEF PauseOrResume, RebuildChanged, Pull, Handle, ExtendOffline
<1>10. CASE UNCHANGED vars
  BY <1>10, <1>a DEF vars
<1> QED
  BY <1>1, <1>2, <1>3, <1>4, <1>5, <1>6, <1>7, <1>8, <1>9, <1>10 DEF Next

LEMMA TimePasses == TypeOK /\ [Next]_vars => clock' = clock \/ (clock' = clock + 1 /\ UNCHANGED lease)
BY DEF Next, vars, rows, Login, Logout, Challenge, ReadAccount, Connect, Build, Record, Dies, Disconnect, RevokeDevice,
   AccountChanges, SignOut, AdminRevoke, PauseOrResume, RebuildChanged, Pull, Handle, ExtendOffline, Refuse, Tick

LEMMA LeasesEndStep == TypeOK /\ LeasesEnd /\ [Next]_vars => LeasesEnd'
<1> SUFFICES ASSUME TypeOK, LeasesEnd, [Next]_vars, NEW e \in Device, NEW m \in Node
             PROVE  /\ lease'[e][m].until <= clock' + Ttl
                    /\ lease'[e][m].until <= clock' \/ lease'[e][m].until <= AccessUntil
  BY DEF LeasesEnd
<1>0. /\ clock \in Nat /\ Ttl \in Nat /\ AccessUntil \in Nat /\ lease[e][m].until \in Nat
      /\ lease[e][m].until <= clock + Ttl /\ (lease[e][m].until <= clock \/ lease[e][m].until <= AccessUntil)
  BY Numbers DEF TypeOK, LeaseRow, LeasesEnd
<1>1. clock' = clock \/ (clock' = clock + 1 /\ UNCHANGED lease)
  BY TimePasses
<1>2. CASE clock' # clock
  BY <1>0, <1>1, <1>2
<1>3. CASE clock' = clock /\ ~\E h \in Handler : Connect(h)
  <2>1. Keeps(e, m)
    BY <1>3, RowsAreKept
  <2>2. lease'[e][m].until \in {lease[e][m].until, clock, 0}
    BY <2>1 DEF Keeps, NoLease
  <2> QED
    BY <1>0, <1>3, <2>2
<1>4. ASSUME NEW h \in Handler, Connect(h) PROVE lease'[e][m].until \in {lease[e][m].until, clock, 0, Expiry} /\ clock' = clock
  <2>1. PICK d \in Device, n \in Node, k \in Key : Connects(h, d, n, k)
    BY <1>4, ConnectMeans
  <2>2. clock' = clock
    BY <2>1 DEF Connects
  <2>3. /\ e # d => lease'[e][m] = lease[e][m]
        /\ m # n => Keeps(d, m)
        /\ lease'[d][n] = [key |-> k, addr |-> IF lease[d][n] = NoLease THEN Min(FreeAddresses(n)) ELSE lease[d][n].addr,
                           until |-> Expiry, stamp |-> Stamp, req |-> 0]
    BY <2>1, ConnectedRows
  <2>4. m # n => lease'[d][m].until \in {lease[d][m].until, clock, 0}
    BY <2>3 DEF Keeps, NoLease
  <2>5. lease'[d][n].until = Expiry
    BY <2>3
  <2> QED
    BY <2>2, <2>3, <2>4, <2>5
<1>5. CASE \E h \in Handler : Connect(h)
  <2>1. lease'[e][m].until \in {lease[e][m].until, clock, 0, Expiry} /\ clock' = clock
    BY <1>4, <1>5
  <2>2. clock + Ttl \in Nat
    BY <1>0
  <2>3. Expiry \in {clock + Ttl, AccessUntil} /\ Expiry <= clock + Ttl /\ Expiry <= AccessUntil
    BY <1>0, <2>2, Sooner DEF Expiry
  <2> QED
    BY <1>0, <2>1, <2>3
<1> QED
  BY <1>2, <1>3, <1>5

-----------------------------------------------------------------------------
(* AddressHeldOnce. *)

Apart(peers) == \A p, q \in peers : p.addr = q.addr => p = q
(* A lease's address is taken, and no other lease has it. *)
LeasesApart ==
  /\ \A d \in Device, n \in Node : lease[d][n] # NoLease => lease[d][n].addr \in taken[n]
  /\ \A d, e \in Device, n \in Node :
       d # e /\ lease[d][n] # NoLease /\ lease[e][n] # NoLease => lease[d][n].addr # lease[e][n].addr
(* So it is in every task, every answer and every file. *)
PayloadsApart ==
  \A n \in Node : Apart(queue[n].peers) /\ Apart(answer[n].task.peers) /\ Apart(answer[n].peers) /\ Apart(agent[n].file)

LEMMA PeersApart ==
  ASSUME TypeOK, LeasesApart, NEW n \in Node
  PROVE  Apart(LeasePeers(n))
<1>1. ASSUME NEW d \in Device, LiveLease(d, n) PROVE lease[d][n] # NoLease
  BY <1>1 DEF LiveLease, NoLease, TypeOK
<1>2. SUFFICES ASSUME NEW d \in Device, NEW e \in Device, LiveLease(d, n), LiveLease(e, n), PeerOf(d, n).addr = PeerOf(e, n).addr
               PROVE  d = e
  BY DEF Apart, LeasePeers
<1> QED
  BY <1>1, <1>2 DEF LeasesApart, PeerOf

LEMMA RefreshedApart ==
  ASSUME NEW file \in SUBSET Peer, NEW wanted \in SUBSET Peer, Apart(file), Apart(wanted)
  PROVE  Apart(Refreshed(file, wanted))
<1> DEFINE New(p) == IF \E w \in wanted : w.key = p.key THEN [(CHOOSE w \in wanted : w.key = p.key) EXCEPT !.addr = p.addr] ELSE p
<1>1. ASSUME NEW p \in file PROVE New(p).addr = p.addr
  <2>1. CASE \E w \in wanted : w.key = p.key
    <3>1. (CHOOSE w \in wanted : w.key = p.key) \in Peer
      BY <2>1
    <3> QED
      BY <2>1, <3>1 DEF Peer
  <2>2. CASE ~\E w \in wanted : w.key = p.key
    BY <2>2
  <2> QED
    BY <2>1, <2>2
<1>2. Refreshed(file, wanted) = {New(p) : p \in file} \union Restored(file, wanted)
  BY DEF Refreshed
<1> HIDE DEF New
<1>3. \A p, q \in file : New(p).addr = New(q).addr => New(p) = New(q)
  BY <1>1 DEF Apart
<1>4. \A p \in file, w \in Restored(file, wanted) : New(p).addr # w.addr
  BY <1>1 DEF Restored
<1>5. \A v, w \in Restored(file, wanted) : v.addr = w.addr => v = w
  BY DEF Restored, Apart
<1> QED
  BY <1>2, <1>3, <1>4, <1>5 DEF Apart

LEMMA TakenIsKept == [Next]_vars /\ (~\E h \in Handler : Connect(h)) => UNCHANGED taken
BY DEF Next, vars, rows, Login, Logout, Challenge, ReadAccount, Build, Record, Dies, Disconnect, RevokeDevice,
   AccountChanges, SignOut, AdminRevoke, PauseOrResume, RebuildChanged, Pull, Handle, ExtendOffline, Refuse, Tick

LEMMA LeasesApartStep == TypeOK /\ LeasesApart /\ [Next]_vars => LeasesApart'
<1> SUFFICES ASSUME TypeOK, LeasesApart, [Next]_vars PROVE LeasesApart'
  OBVIOUS
<1>1. CASE ~\E h \in Handler : Connect(h)
  <2>1. UNCHANGED taken /\ \A e \in Device, m \in Node : Keeps(e, m)
    BY <1>1, TakenIsKept, RowsAreKept
  <2> QED
    BY <2>1 DEF LeasesApart, Keeps
<1>2. ASSUME NEW h \in Handler, Connect(h) PROVE LeasesApart'
  <2>1. PICK d \in Device, n \in Node, k \in Key : Connects(h, d, n, k)
    BY <1>2, ConnectMeans
  <2>2. lease[d][n] = NoLease => Min(FreeAddresses(n)) \in FreeAddresses(n)
    BY <2>1, ConnectIsTyped DEF Connects
  <2>3. ASSUME NEW e \in Device, NEW m \in Node, e # d \/ m # n PROVE Keeps(e, m)
    <3>1. /\ e # d => lease'[e][m] = lease[e][m]
          /\ m # n => Keeps(d, m)
          /\ lease'[d][n] = [key |-> k, addr |-> IF lease[d][n] = NoLease THEN Min(FreeAddresses(n)) ELSE lease[d][n].addr,
                             until |-> Expiry, stamp |-> Stamp, req |-> 0]
      BY <2>1, ConnectedRows
    <3>2. e # d => Keeps(e, m)
      BY <3>1 DEF Keeps
    <3> QED
      BY <2>3, <3>1, <3>2
  <2>4. lease'[d][n].addr = IF lease[d][n] = NoLease THEN Min(FreeAddresses(n)) ELSE lease[d][n].addr
    <3>1. lease'[d][n] = [key |-> k, addr |-> IF lease[d][n] = NoLease THEN Min(FreeAddresses(n)) ELSE lease[d][n].addr,
                          until |-> Expiry, stamp |-> Stamp, req |-> 0]
      BY <2>1, ConnectedRows
    <3> QED
      BY <3>1
  <2>5. taken' = IF lease[d][n] = NoLease THEN [taken EXCEPT ![n] = @ \union {Min(FreeAddresses(n))}] ELSE taken
    BY <2>1 DEF Connects
  <2>6. taken \in [Node -> SUBSET Address]
    BY DEF TypeOK
  <2>7. CASE lease[d][n] = NoLease
    <3> DEFINE a == Min(FreeAddresses(n))
    <3>1. a \notin taken[n] /\ lease'[d][n].addr = a /\ taken'[n] = taken[n] \union {a} /\ \A m \in Node : taken[m] \subseteq taken'[m]
      BY <2>2, <2>4, <2>5, <2>6, <2>7 DEF FreeAddresses
    <3> HIDE DEF a
    <3> QED
      BY <2>3, <3>1 DEF LeasesApart, Keeps
  <2>8. CASE lease[d][n] # NoLease
    <3>1. lease'[d][n].addr = lease[d][n].addr /\ taken' = taken
      BY <2>4, <2>5, <2>8
    <3> QED
      BY <2>3, <2>8, <3>1 DEF LeasesApart, Keeps
  <2> QED
    BY <2>7, <2>8
<1> QED
  BY <1>1, <1>2

LEMMA PayloadsApartStep == TypeOK /\ LeasesApart /\ PayloadsApart /\ [Next]_vars => PayloadsApart'
<1> SUFFICES ASSUME TypeOK, LeasesApart, PayloadsApart, [Next]_vars PROVE PayloadsApart'
  OBVIOUS
<1> USE DEF rows, control, history
<1>a. ASSUME UNCHANGED <<queue, answer, agent>> PROVE PayloadsApart'
  BY <1>a DEF PayloadsApart
<1>b. ASSUME NEW n \in Node, Rebuild(n), UNCHANGED <<answer, agent>> PROVE PayloadsApart'
  <2>1. queue' = queue \/ queue' = [queue EXCEPT ![n] = [rev |-> NextRev(n), peers |-> LeasePeers(n)]]
    BY <1>b DEF Rebuild
  <2>2. Apart(LeasePeers(n))
    BY PeersApart
  <2> QED
    BY <1>b, <2>1, <2>2 DEF PayloadsApart, TypeOK
<1>c. ASSUME NEW n \in Node, NEW file, Apart(file), NEW row, agent' = [agent EXCEPT ![n] = row], row.file = file,
             UNCHANGED queue, \A m \in Node : Apart(answer'[m].task.peers) /\ Apart(answer'[m].peers)
      PROVE  PayloadsApart'
  BY <1>c DEF PayloadsApart, TypeOK
<1>1. ASSUME NEW d \in Device, Login(d) \/ Logout(d) \/ Challenge(d) \/ ReadAccount(d) \/ SignOut(d) \/ AdminRevoke(d)
      PROVE  PayloadsApart'
  BY <1>1, <1>a DEF Login, Logout, Challenge, ReadAccount, SignOut, AdminRevoke
<1>2. ASSUME NEW h \in Handler, Connect(h) \/ Record(h) \/ Dies(h) PROVE PayloadsApart'
  BY <1>2, <1>a DEF Connect, Record, Dies
<1>3. ASSUME NEW h \in Handler, Build(h) PROVE PayloadsApart'
  <2>1. call[h].node \in Node
    BY <1>3 DEF Build, TypeOK, CallRow, Idle
  <2> QED
    BY <1>3, <1>b, <2>1 DEF Build
<1>4. CASE Disconnect \/ RevokeDevice \/ AccountChanges \/ Refuse
  BY <1>4, <1>a DEF Disconnect, RevokeDevice, AccountChanges, Refuse
<1>5. ASSUME NEW n \in Node, PauseOrResume(n) PROVE PayloadsApart'
  BY <1>5, <1>a DEF PauseOrResume
<1>6. ASSUME NEW n \in Node, RebuildChanged(n) PROVE PayloadsApart'
  BY <1>6, <1>b DEF RebuildChanged
<1>7. ASSUME NEW n \in Node, Pull(n) PROVE PayloadsApart'
  <2>1. /\ answer' = [answer EXCEPT ![n] = [open |-> TRUE, task |-> queue[n], peers |-> LeasePeers(n)]]
        /\ queue' = [queue EXCEPT ![n] = NoTask] /\ agent' = [agent EXCEPT ![n].contact = clock]
    BY <1>7 DEF Pull
  <2>2. \A m \in Node : agent'[m].file = agent[m].file
    BY <2>1 DEF TypeOK, AgentRow
  <2>3. Apart(LeasePeers(n)) /\ Apart(NoTask.peers) /\ Apart(queue[n].peers)
    BY PeersApart DEF NoTask, Apart, PayloadsApart
  <2>4. \A m \in Node : Apart(answer'[m].task.peers) /\ Apart(answer'[m].peers) /\ Apart(queue'[m].peers)
    BY <2>1, <2>3 DEF PayloadsApart, TypeOK
  <2> QED
    BY <2>2, <2>4 DEF PayloadsApart
<1>8. ASSUME NEW n \in Node, Handle(n) PROVE PayloadsApart'
  <2>1. answer' = [answer EXCEPT ![n] = NoAnswer] /\ UNCHANGED queue
    BY <1>8 DEF Handle
  <2>2. \A m \in Node : Apart(answer'[m].task.peers) /\ Apart(answer'[m].peers)
    <3>1. Apart(NoAnswer.task.peers) /\ Apart(NoAnswer.peers)
      BY DEF Apart, NoAnswer, NoTask
    <3> QED
      BY <2>1, <3>1 DEF PayloadsApart, TypeOK
  <2>3. Applied(n) \in SUBSET Peer /\ Wanted(n) \in SUBSET Peer /\ Apart(Applied(n)) /\ Apart(Wanted(n))
    <3>1. answer[n].task.peers \in SUBSET Peer /\ answer[n].peers \in SUBSET Peer /\ agent[n].file \in SUBSET Peer
      BY DEF TypeOK, AnswerRow, AgentRow, Payload
    <3> QED
      BY <3>1 DEF Applied, Wanted, Apart, PayloadsApart
  <2>4. Apart(Refreshed(Applied(n), Wanted(n)))
    BY <2>3, RefreshedApart
  <2>5. \A m \in Node : agent'[m].file = IF m = n THEN Refreshed(Applied(n), Wanted(n)) ELSE agent[m].file
    BY <1>8 DEF Handle, TypeOK, AgentRow
  <2> QED
    BY <2>1, <2>2, <2>4, <2>5 DEF PayloadsApart
<1>9. ASSUME NEW n \in Node, ExtendOffline(n) PROVE PayloadsApart'
  <2> DEFINE target == Min({clock + Ttl, agent[n].contact + Grace})
             due == {p \in agent[n].file : clock < p.until /\ p.until <= clock + 1 /\ p.until < target}
             Longer(p) == [p EXCEPT !.until = target, !.ext = TRUE]
  <2>1. agent' = [agent EXCEPT ![n].file = (@ \ due) \union {Longer(p) : p \in due}] /\ UNCHANGED <<queue, answer>>
    BY <1>9 DEF ExtendOffline
  <2>2. agent[n].file \in SUBSET Peer /\ due \in SUBSET agent[n].file
    BY DEF TypeOK, AgentRow
  <2>3. \A p \in due : Longer(p).addr = p.addr
    BY <2>2 DEF Peer
  <2> HIDE DEF due, Longer
  <2>4. \A m \in Node : agent'[m].file = IF m = n THEN (agent[n].file \ due) \union {Longer(p) : p \in due} ELSE agent[m].file
    BY <2>1 DEF TypeOK, AgentRow
  <2>5. Apart((agent[n].file \ due) \union {Longer(p) : p \in due})
    BY <2>2, <2>3 DEF Apart, PayloadsApart
  <2> QED
    BY <2>1, <2>4, <2>5 DEF PayloadsApart
<1>10. CASE Tick
  <2>1. \A m \in Node : agent'[m].file \subseteq agent[m].file
    BY <1>10 DEF Tick, TypeOK, AgentRow
  <2>2. UNCHANGED <<queue, answer>>
    BY <1>10 DEF Tick
  <2> QED
    BY <2>1, <2>2 DEF PayloadsApart, Apart
<1>11. CASE UNCHANGED vars
  BY <1>11, <1>a DEF vars
<1> QED
  BY <1>1, <1>2, <1>3, <1>4, <1>5, <1>6, <1>7, <1>8, <1>9, <1>10, <1>11 DEF Next

LEMMA ApartInit == Init => LeasesApart /\ PayloadsApart
BY DEF Init, LeasesApart, PayloadsApart, Apart, NoLease, NoTask, NoAnswer

(* The variables have their types, and every lease ends in time. *)
THEOREM NativeTyped == Spec => [](TypeOK /\ LeasesEnd)
<1>1. Init => TypeOK /\ LeasesEnd
  <2>1. \A i, j \in Nat : 0 <= i + j
    OBVIOUS
  <2>2. Init => LeasesEnd
    BY <2>1, Numbers DEF Init, LeasesEnd, NoLease
  <2> QED
    BY <2>2, TypeInit
<1>2. TypeOK /\ LeasesEnd /\ [Next]_vars => TypeOK' /\ LeasesEnd'
  BY TypeStep, LeasesEndStep
<1> QED
  BY <1>1, <1>2, PTL DEF Spec

(* No node's file ever routes one address to two keys: the leases of a node have different addresses, what is   *)
(* built, queued or answered from them has, and a refresh keeps the file's own addresses and restores only free *)
(* ones (refresh_native_peers).                                                                                 *)
THEOREM AddressesApart == Spec => []AddressHeldOnce
<1>1. LeasesApart /\ PayloadsApart /\ TypeOK /\ [Next]_vars => (LeasesApart /\ PayloadsApart)'
  BY LeasesApartStep, PayloadsApartStep
<1>2. PayloadsApart => AddressHeldOnce
  BY DEF PayloadsApart, Apart, AddressHeldOnce
<1> QED
  BY <1>1, <1>2, ApartInit, NativeTyped, PTL DEF Spec

-----------------------------------------------------------------------------
(* TunnelsWithinLimit. *)

(* The peers a node lets through or will. *)
Admitted(n) == queue[n].peers \union answer[n].task.peers \union answer[n].peers \union agent[n].file
(* A deadline given out is covered while its device holds its slot: by a lease it still has, by the wait for the *)
(* slot's release, or by the device's own word that it is down.                                                  *)
Covered(p) ==
  \/ dropped[p.dev]
  \/ enrolled[p.dev].st = "active" /\ \E m \in Node : p.until <= lease[p.dev][m].until
  \/ enrolled[p.dev].st = "revoking" /\ p.until <= enrolled[p.dev].release
Accounted(p) == p.ext \/ p.until <= clock \/ (p.until <= clock + Ttl /\ p.until <= AccessUntil /\ Covered(p))
AllAccounted == \A n \in Node : \A p \in Admitted(n) : Accounted(p)
SlotsKept == withdrawn = Never /\ Slots # {} => Configs + Cardinality(Slots) <= account.limit

LEMMA AdmittedArePeers ==
  ASSUME TypeOK, NEW n \in Node
  PROVE  /\ queue[n].peers \in SUBSET Peer /\ answer[n].task.peers \in SUBSET Peer /\ answer[n].peers \in SUBSET Peer
         /\ agent[n].file \in SUBSET Peer /\ Admitted(n) \in SUBSET Peer
BY DEF TypeOK, AnswerRow, AgentRow, Payload, Admitted

LEMMA SettledRows ==
  ASSUME TypeOK, NEW e \in Device
  PROVE  \/ Settled(enrolled)[e] = enrolled[e]
         \/ enrolled[e].st = "revoking" /\ enrolled[e].release <= clock /\ Settled(enrolled)[e].st = "revoked"
<1>1. enrolled[e] \in EnrollmentRow
  BY DEF TypeOK
<1>2. [enrolled[e] EXCEPT !.st = "revoked"].st = "revoked"
  BY <1>1 DEF EnrollmentRow
<1> QED
  BY <1>2 DEF Settled

(* A peer of a device that the step leaves alone stays accounted for. *)
LEMMA AccountedAsBefore ==
  ASSUME TypeOK, TypeOK', NEW p \in Peer, Accounted(p), clock <= clock', dropped[p.dev] => dropped'[p.dev],
         \/ enrolled'[p.dev] = enrolled[p.dev]
         \/ enrolled[p.dev].st = "revoking" /\ enrolled[p.dev].release <= clock
         \/ enrolled[p.dev].st \in {"none", "revoked"},
         \A m \in Node : lease[p.dev][m].until <= lease'[p.dev][m].until \/ dropped'[p.dev] \/ enrolled[p.dev].st # "active"
  PROVE  Accounted(p)'
<1>1. /\ clock \in Nat /\ clock' \in Nat /\ Ttl \in Nat /\ p.until \in Nat /\ p.dev \in Device /\ AccessUntil \in Nat
      /\ enrolled[p.dev].release \in Nat
      /\ \A m \in Node : lease[p.dev][m].until \in Nat /\ lease'[p.dev][m].until \in Nat
  BY Numbers DEF TypeOK, Peer, LeaseRow, EnrollmentRow
<1>2. CASE p.ext \/ p.until <= clock
  BY <1>1, <1>2 DEF Accounted
<1>3. CASE p.until <= clock + Ttl /\ p.until <= AccessUntil /\ dropped[p.dev]
  BY <1>1, <1>3 DEF Accounted, Covered
<1>4. ASSUME p.until <= clock + Ttl, p.until <= AccessUntil, enrolled[p.dev].st = "active",
             NEW m \in Node, p.until <= lease[p.dev][m].until
      PROVE  Accounted(p)'
  BY <1>1, <1>4 DEF Accounted, Covered
<1>5. CASE p.until <= clock + Ttl /\ p.until <= AccessUntil /\ enrolled[p.dev].st = "revoking" /\ p.until <= enrolled[p.dev].release
  BY <1>1, <1>5 DEF Accounted, Covered
<1> QED
  BY <1>2, <1>3, <1>4, <1>5 DEF Accounted, Covered

LEMMA AccountedWhenRevoked ==
  ASSUME TypeOK, TypeOK', LeasesEnd, NEW d \in Device, enrolled' = Revoked(d), lease' = EndedLeases(d), UNCHANGED <<clock, dropped>>,
         NEW p \in Peer, Accounted(p)
  PROVE  Accounted(p)'
<1>1. CASE p.dev # d
  <2>1. enrolled'[p.dev] = enrolled[p.dev] /\ \A m \in Node : lease'[p.dev][m] = lease[p.dev][m]
    BY <1>1, EndedRows DEF Revoked, TypeOK, Peer
  <2>2. clock <= clock' /\ \A m \in Node : lease[p.dev][m].until <= lease'[p.dev][m].until
    BY <2>1 DEF TypeOK, Peer, LeaseRow
  <2> QED
    BY <2>1, <2>2, AccountedAsBefore
<1>2. CASE p.dev = d /\ enrolled[d].st # "active"
  <2>1. enrolled'[d] = enrolled[d] /\ clock <= clock'
    BY <1>2 DEF Revoked, TypeOK
  <2> QED
    BY <1>2, <2>1, AccountedAsBefore
<1>3. CASE p.dev = d /\ enrolled[d].st = "active"
  <2>1. enrolled'[d] = [st |-> "revoking", release |-> ReleaseAfter(d)]
    BY <1>3 DEF Revoked, TypeOK
  <2>2. ReleaseAfter(d) \in Nat /\ \A m \in Node : lease[d][m].until <= ReleaseAfter(d)
    BY LeasesAreBounded DEF LeasesEnd
  <2>3. p.until \in Nat /\ \A m \in Node : lease[d][m].until \in Nat
    BY DEF TypeOK, Peer, LeaseRow
  <2>4. \A m \in Node : p.until <= lease[d][m].until => p.until <= ReleaseAfter(d)
    BY <2>2, <2>3
  <2> QED
    BY <1>3, <2>1, <2>4 DEF Accounted, Covered
<1> QED
  BY <1>1, <1>2, <1>3

LEMMA AccountedWhenConnected ==
  ASSUME TypeOK, TypeOK', NEW h \in Handler, NEW d \in Device, NEW n \in Node, NEW k \in Key, Connects(h, d, n, k),
         NEW p \in Peer, Accounted(p)
  PROVE  Accounted(p)'
<1>0. p.dev \in Device /\ clock <= clock' /\ clock' = clock
  BY DEF Connects, TypeOK, Peer
<1>1. CASE p.dev # d
  <2>1. \A m \in Node : lease'[p.dev][m] = lease[p.dev][m]
    BY <1>0, <1>1 DEF Connects, TypeOK
  <2>2. \A m \in Node : lease[p.dev][m].until <= lease'[p.dev][m].until
    BY <1>0, <2>1 DEF TypeOK, LeaseRow
  <2>3. enrolled'[p.dev] = Settled(enrolled)[p.dev] /\ dropped'[p.dev] = dropped[p.dev]
    BY <1>0, <1>1, SettledIsTyped DEF Connects, TypeOK
  <2>4. \/ enrolled'[p.dev] = enrolled[p.dev]
        \/ enrolled[p.dev].st = "revoking" /\ enrolled[p.dev].release <= clock
    BY <1>0, <2>3, SettledRows
  <2> QED
    BY <1>0, <2>2, <2>3, <2>4, AccountedAsBefore
<1>2. CASE p.dev = d
  <2>1. lease'[d][n] = [key |-> k, addr |-> IF lease[d][n] = NoLease THEN Min(FreeAddresses(n)) ELSE lease[d][n].addr,
                        until |-> Expiry, stamp |-> Stamp, req |-> 0]
    BY ConnectedRows
  <2>2. enrolled'[d].st = "active"
    <3>1. CASE enrolled[d].st = "none"
      <4>1. Settled(enrolled)[d] \in EnrollmentRow /\ enrolled'[d] = [Settled(enrolled)[d] EXCEPT !.st = "active"]
        BY <3>1, SettledIsTyped DEF Connects
      <4> QED
        BY <4>1 DEF EnrollmentRow
    <3>2. CASE enrolled[d].st # "none"
      <4>1. enrolled[d].st = "active" /\ enrolled'[d] = Settled(enrolled)[d]
        BY <3>2 DEF Connects, Admissible
      <4> QED
        BY <4>1 DEF Settled
    <3> QED
      BY <3>1, <3>2
  <2>3. clock + Ttl \in Nat /\ AccessUntil \in Nat /\ p.until \in Nat
    BY Numbers DEF TypeOK, Peer
  <2>4. Expiry \in {clock + Ttl, AccessUntil}
    BY <2>3, Sooner DEF Expiry
  <2>5. CASE p.ext \/ p.until <= clock
    BY <1>0, <2>5 DEF Accounted
  <2>6. CASE p.until <= clock + Ttl /\ p.until <= AccessUntil
    <3>1. p.until <= lease'[d][n].until
      BY <2>1, <2>3, <2>4, <2>6
    <3> QED
      BY <1>0, <1>2, <2>2, <2>6, <3>1 DEF Accounted, Covered
  <2> QED
    BY <2>5, <2>6 DEF Accounted
<1> QED
  BY <1>1, <1>2

LEMMA AccountedKept ==
  ASSUME TypeOK, TypeOK', LeasesEnd, [Next]_vars, NEW p \in Peer, Accounted(p)
  PROVE  Accounted(p)'
<1>0. p.dev \in Device /\ clock \in Nat /\ clock <= clock
  BY DEF Peer, TypeOK
<1> USE DEF rows, control, history
<1>a. ASSUME UNCHANGED <<lease, enrolled, dropped>>, clock <= clock' PROVE Accounted(p)'
  <2>1. \A m \in Node : lease[p.dev][m].until <= lease'[p.dev][m].until
    BY <1>0, <1>a DEF TypeOK, LeaseRow
  <2> QED
    BY <1>a, <2>1, AccountedAsBefore
<1>1. ASSUME NEW d \in Device, Login(d) PROVE Accounted(p)'
  <2>1. UNCHANGED <<clock, dropped>>
    BY <1>1 DEF Login
  <2>2. CASE ~(enrolled[d].st = "revoked" \/ Lapsed(d))
    BY <1>0, <1>1, <1>a, <2>1, <2>2 DEF Login
  <2>3. CASE enrolled[d].st = "revoked" \/ Lapsed(d)
    <3>1. /\ enrolled' = [enrolled EXCEPT ![d] = [st |-> "none", release |-> 0]]
          /\ lease' = [lease EXCEPT ![d] = [n \in Node |-> NoLease]]
      BY <1>1, <2>3 DEF Login
    <3>2. CASE p.dev = d
      BY <1>0, <2>1, <2>3, <3>2, AccountedAsBefore DEF Lapsed
    <3>3. CASE p.dev # d
      <4>1. enrolled'[p.dev] = enrolled[p.dev] /\ \A m \in Node : lease[p.dev][m].until <= lease'[p.dev][m].until
        BY <1>0, <3>1, <3>3 DEF TypeOK, LeaseRow
      <4> QED
        BY <1>0, <2>1, <4>1, AccountedAsBefore
    <3> QED
      BY <3>2, <3>3
  <2> QED
    BY <2>2, <2>3
<1>2. ASSUME NEW d \in Device, Logout(d) \/ Challenge(d) PROVE Accounted(p)'
  BY <1>0, <1>2, <1>a DEF Logout, Challenge
<1>3. ASSUME NEW d \in Device, ReadAccount(d) PROVE Accounted(p)'
  <2>1. enrolled' = Settled(enrolled) /\ UNCHANGED <<clock, lease, dropped>>
    BY <1>3 DEF ReadAccount
  <2>2. \A m \in Node : lease[p.dev][m].until <= lease'[p.dev][m].until
    BY <1>0, <2>1 DEF TypeOK, LeaseRow
  <2>3. \/ enrolled'[p.dev] = enrolled[p.dev]
        \/ enrolled[p.dev].st = "revoking" /\ enrolled[p.dev].release <= clock
    BY <1>0, <2>1, SettledRows
  <2> QED
    BY <1>0, <2>1, <2>2, <2>3, AccountedAsBefore
<1>4. ASSUME NEW h \in Handler, Connect(h) PROVE Accounted(p)'
  BY <1>4, ConnectMeans, AccountedWhenConnected
<1>5. ASSUME NEW h \in Handler, Record(h) PROVE Accounted(p)'
  <2>1. \A m \in Node : lease'[p.dev][m].until = lease[p.dev][m].until
    BY <1>0, <1>5, RecordedRows
  <2>2. \A m \in Node : lease[p.dev][m].until <= lease'[p.dev][m].until
    BY <1>0, <2>1 DEF TypeOK, LeaseRow
  <2>3. UNCHANGED <<clock, enrolled, dropped>>
    BY <1>5 DEF Record
  <2> QED
    BY <1>0, <2>2, <2>3, AccountedAsBefore
<1>6. ASSUME NEW h \in Handler, Build(h) \/ Dies(h) PROVE Accounted(p)'
  BY <1>0, <1>6, <1>a DEF Build, Dies
<1>7. CASE Disconnect
  <2>1. PICK c \in challenges : lease' = EndedLeases(c.dev) /\ dropped' = [dropped EXCEPT ![c.dev] = TRUE]
    BY <1>7 DEF Disconnect
  <2>2. c.dev \in Device /\ UNCHANGED <<clock, enrolled>>
    BY <1>7 DEF TypeOK, ChallengeRow, Disconnect
  <2>3. CASE p.dev = c.dev
    BY <1>0, <2>1, <2>2, <2>3, AccountedAsBefore DEF TypeOK
  <2>4. CASE p.dev # c.dev
    <3>1. dropped'[p.dev] = dropped[p.dev] /\ \A m \in Node : lease'[p.dev][m] = lease[p.dev][m]
      BY <1>0, <2>1, <2>2, <2>4, EndedRows DEF TypeOK
    <3>2. \A m \in Node : lease[p.dev][m].until <= lease'[p.dev][m].until
      BY <1>0, <3>1 DEF TypeOK, LeaseRow
    <3> QED
      BY <1>0, <2>2, <3>1, <3>2, AccountedAsBefore
  <2> QED
    BY <2>3, <2>4
<1>8. CASE RevokeDevice
  <2>1. PICK c \in challenges : lease' = EndedLeases(c.target) /\ enrolled' = Revoked(c.target)
    BY <1>8 DEF RevokeDevice
  <2>2. c.target \in Device /\ UNCHANGED <<clock, dropped>>
    BY <1>8 DEF TypeOK, ChallengeRow, RevokeDevice
  <2> QED
    BY <2>1, <2>2, AccountedWhenRevoked
<1>9. ASSUME NEW d \in Device, SignOut(d) \/ AdminRevoke(d) PROVE Accounted(p)'
  BY <1>9, AccountedWhenRevoked DEF SignOut, AdminRevoke
<1>10. CASE AccountChanges \/ Refuse
  BY <1>0, <1>10, <1>a DEF AccountChanges, Refuse
<1>11. CASE Tick
  BY <1>0, <1>11, <1>a DEF Tick
<1>12. ASSUME NEW n \in Node, PauseOrResume(n) \/ RebuildChanged(n) \/ Pull(n) \/ Handle(n) \/ ExtendOffline(n) PROVE Accounted(p)'
  BY <1>0, <1>12, <1>a DEF PauseOrResume, RebuildChanged, Pull, Handle, ExtendOffline
<1>13. CASE UNCHANGED vars
  BY <1>0, <1>13, <1>a DEF vars
<1> QED
  BY <1>1, <1>2, <1>3, <1>4, <1>5, <1>6, <1>7, <1>8, <1>9, <1>10, <1>11, <1>12, <1>13 DEF Next

LEMMA PeersAccounted ==
  ASSUME TypeOK, LeasesEnd, NEW n \in Node, NEW p \in LeasePeers(n)
  PROVE  Accounted(p)
<1>1. PICK d \in Device : p = PeerOf(d, n) /\ LiveLease(d, n) /\ enrolled[d].st = "active"
  BY DEF LeasePeers
<1>2. p.dev = d /\ p.until = lease[d][n].until /\ lease[d][n].until \in Nat /\ clock \in Nat
  BY <1>1 DEF PeerOf, TypeOK, LeaseRow
<1>3. p.until <= clock + Ttl /\ p.until <= AccessUntil
  BY <1>1, <1>2, Numbers DEF LeasesEnd, LiveLease
<1>4. lease[d][n].until <= lease[d][n].until
  BY <1>2
<1> QED
  BY <1>1, <1>2, <1>3, <1>4 DEF Accounted, Covered

(* A peer of the node before the step, or one that its leases give it now, whatever address it is let through at. *)
Known(n, p) == p.ext \/ \E q \in Admitted(n) \union LeasePeers(n) : p.ext = q.ext /\ p.until = q.until /\ p.dev = q.dev

LEMMA RefreshedKnown ==
  ASSUME NEW n \in Node, NEW file \in SUBSET Peer, NEW wanted \in SUBSET Peer, file \union wanted \subseteq Admitted(n),
         NEW q \in Refreshed(file, wanted)
  PROVE  Known(n, q)
<1>1. CASE q \in Restored(file, wanted)
  BY <1>1 DEF Restored, Known
<1>2. CASE \E p \in file : q = p
  BY <1>2 DEF Known
<1>3. ASSUME NEW p \in file, \E w \in wanted : w.key = p.key, q = [(CHOOSE w \in wanted : w.key = p.key) EXCEPT !.addr = p.addr]
      PROVE  Known(n, q)
  <2>1. PICK w \in wanted : w = CHOOSE x \in wanted : x.key = p.key
    BY <1>3
  <2>2. q = [w EXCEPT !.addr = p.addr] /\ w \in Peer
    BY <1>3, <2>1
  <2>3. q.ext = w.ext /\ q.until = w.until /\ q.dev = w.dev
    BY <2>2 DEF Peer
  <2> QED
    BY <2>1, <2>3 DEF Known
<1> QED
  BY <1>1, <1>2, <1>3 DEF Refreshed

(* Whatever a node is about to let through was known before the step. *)
LEMMA AdmittedFrom ==
  ASSUME TypeOK, [Next]_vars, NEW n \in Node, NEW p \in Admitted(n)'
  PROVE  Known(n, p)
<1> USE DEF rows, control, history
<1>a. ASSUME UNCHANGED <<queue, answer, agent>> PROVE Known(n, p)
  BY <1>a DEF Known, Admitted
<1>b. ASSUME NEW m \in Node, Rebuild(m), UNCHANGED <<answer, agent>> PROVE Known(n, p)
  <2>1. queue' = queue \/ queue' = [queue EXCEPT ![m] = [rev |-> NextRev(m), peers |-> LeasePeers(m)]]
    BY <1>b DEF Rebuild
  <2>2. p \in Admitted(n) \/ p \in LeasePeers(n)
    BY <1>b, <2>1 DEF Admitted, TypeOK
  <2> QED
    BY <2>2 DEF Known
<1>1. ASSUME NEW d \in Device, Login(d) \/ Logout(d) \/ Challenge(d) \/ ReadAccount(d) \/ SignOut(d) \/ AdminRevoke(d)
      PROVE  Known(n, p)
  BY <1>1, <1>a DEF Login, Logout, Challenge, ReadAccount, SignOut, AdminRevoke
<1>2. ASSUME NEW h \in Handler, Connect(h) \/ Record(h) \/ Dies(h) PROVE Known(n, p)
  BY <1>2, <1>a DEF Connect, Record, Dies
<1>3. ASSUME NEW h \in Handler, Build(h) PROVE Known(n, p)
  <2>1. call[h].node \in Node
    BY <1>3 DEF Build, TypeOK, CallRow, Idle
  <2> QED
    BY <1>3, <1>b, <2>1 DEF Build
<1>4. CASE Disconnect \/ RevokeDevice \/ AccountChanges \/ Refuse
  BY <1>4, <1>a DEF Disconnect, RevokeDevice, AccountChanges, Refuse
<1>5. ASSUME NEW m \in Node, PauseOrResume(m) PROVE Known(n, p)
  BY <1>5, <1>a DEF PauseOrResume
<1>6. ASSUME NEW m \in Node, RebuildChanged(m) PROVE Known(n, p)
  BY <1>6, <1>b DEF RebuildChanged
<1>7. ASSUME NEW m \in Node, Pull(m) PROVE Known(n, p)
  <2>1. /\ answer' = [answer EXCEPT ![m] = [open |-> TRUE, task |-> queue[m], peers |-> LeasePeers(m)]]
        /\ queue' = [queue EXCEPT ![m] = NoTask] /\ agent' = [agent EXCEPT ![m].contact = clock]
    BY <1>7 DEF Pull
  <2>2. agent'[n].file = agent[n].file
    BY <2>1 DEF TypeOK, AgentRow
  <2>3. queue'[n].peers \subseteq queue[n].peers
    BY <2>1 DEF TypeOK, NoTask
  <2>4. answer'[n].task.peers \union answer'[n].peers \subseteq Admitted(n) \union LeasePeers(n)
    BY <2>1 DEF TypeOK, Admitted
  <2>5. p \in Admitted(n) \/ p \in LeasePeers(n)
    BY <2>2, <2>3, <2>4 DEF Admitted
  <2> QED
    BY <2>5 DEF Known
<1>8. ASSUME NEW m \in Node, Handle(m) PROVE Known(n, p)
  <2>1. answer' = [answer EXCEPT ![m] = NoAnswer] /\ UNCHANGED queue
    BY <1>8 DEF Handle
  <2>2. answer'[n].task.peers \union answer'[n].peers \subseteq Admitted(n)
    BY <2>1 DEF TypeOK, Admitted, NoAnswer, NoTask
  <2>3. agent'[n].file = IF n = m THEN Refreshed(Applied(n), Wanted(n)) ELSE agent[n].file
    BY <1>8 DEF Handle, TypeOK, AgentRow
  <2>4. Applied(n) \in SUBSET Peer /\ Wanted(n) \in SUBSET Peer /\ Applied(n) \subseteq Admitted(n) /\ Wanted(n) \subseteq Admitted(n)
    BY AdmittedArePeers DEF Applied, Wanted, Admitted
  <2>5. CASE p \in Admitted(n)
    BY <2>5 DEF Known
  <2>6. CASE p \in Refreshed(Applied(n), Wanted(n))
    BY <2>4, <2>6, RefreshedKnown
  <2>7. p \in Admitted(n) \/ p \in Refreshed(Applied(n), Wanted(n))
    BY <2>1, <2>2, <2>3 DEF Admitted
  <2> QED
    BY <2>5, <2>6, <2>7
<1>9. ASSUME NEW m \in Node, ExtendOffline(m) PROVE Known(n, p)
  <2> DEFINE target == Min({clock + Ttl, agent[m].contact + Grace})
             due == {q \in agent[m].file : clock < q.until /\ q.until <= clock + 1 /\ q.until < target}
             Longer(q) == [q EXCEPT !.until = target, !.ext = TRUE]
  <2>1. agent' = [agent EXCEPT ![m].file = (@ \ due) \union {Longer(q) : q \in due}] /\ UNCHANGED <<queue, answer>>
    BY <1>9 DEF ExtendOffline
  <2>2. due \in SUBSET Peer
    BY AdmittedArePeers
  <2>3. \A q \in due : Longer(q).ext
    BY <2>2 DEF Peer
  <2> HIDE DEF due, Longer
  <2>4. agent'[n].file \subseteq agent[n].file \union {Longer(q) : q \in due}
    BY <2>1 DEF TypeOK, AgentRow
  <2>5. p \in Admitted(n) \/ p.ext
    BY <2>1, <2>3, <2>4 DEF Admitted
  <2> QED
    BY <2>5 DEF Known
<1>10. CASE Tick
  <2>1. agent'[n].file \subseteq agent[n].file /\ UNCHANGED <<queue, answer>>
    BY <1>10 DEF Tick, TypeOK, AgentRow
  <2> QED
    BY <2>1 DEF Known, Admitted
<1>11. CASE UNCHANGED vars
  BY <1>11, <1>a DEF vars
<1> QED
  BY <1>1, <1>2, <1>3, <1>4, <1>5, <1>6, <1>7, <1>8, <1>9, <1>10, <1>11 DEF Next

LEMMA AllAccountedStep == TypeOK /\ TypeOK' /\ LeasesEnd /\ AllAccounted /\ [Next]_vars => AllAccounted'
<1> SUFFICES ASSUME TypeOK, TypeOK', LeasesEnd, AllAccounted, [Next]_vars, NEW n \in Node, NEW p \in Admitted(n)'
             PROVE  Accounted(p)'
  BY DEF AllAccounted
<1>1. Accounted(p)
  <2>1. \A q \in Admitted(n) \union LeasePeers(n) : Accounted(q)
    BY PeersAccounted DEF AllAccounted
  <2>2. Known(n, p)
    BY AdmittedFrom
  <2> QED
    BY <2>1, <2>2 DEF Known, Accounted, Covered
<1>2. p \in Peer
  <2>1. queue'[n].peers \in SUBSET Peer /\ answer'[n].task.peers \in SUBSET Peer /\ answer'[n].peers \in SUBSET Peer
        /\ agent'[n].file \in SUBSET Peer
    BY DEF TypeOK, AnswerRow, AgentRow, Payload
  <2> QED
    BY <2>1 DEF Admitted
<1> QED
  BY <1>1, <1>2, AccountedKept

(* Slots are given back one way only, and taken by a connect that found room for one more. *)
LEMMA SlotsAreFinite ==
  ASSUME NEW S \in SUBSET Device
  PROVE  IsFiniteSet(S) /\ Cardinality(S) \in Nat /\ \A T \in SUBSET S : Cardinality(T) \in Nat /\ Cardinality(T) <= Cardinality(S)
<1>1. IsFiniteSet(S)
  BY SetAssumption, FS_Subset
<1>2. \A T \in SUBSET S : IsFiniteSet(T) /\ Cardinality(T) <= Cardinality(S)
  BY <1>1, FS_Subset
<1> QED
  BY <1>1, <1>2, FS_CardinalityType

LEMMA SlotsShrink ==
  ASSUME TypeOK, [Next]_vars, ~\E h \in Handler : Connect(h)
  PROVE  Slots' \subseteq Slots
<1> SUFFICES ASSUME NEW e \in Device, enrolled'[e].st \in {"active", "revoking"}
             PROVE  enrolled[e].st \in {"active", "revoking"}
  BY DEF Slots
<1> USE DEF rows, control, history
<1>1. ASSUME NEW d \in Device, Login(d) PROVE enrolled[e].st \in {"active", "revoking"}
  <2>1. enrolled' = enrolled \/ enrolled' = [enrolled EXCEPT ![d] = [st |-> "none", release |-> 0]]
    BY <1>1 DEF Login
  <2>2. enrolled'[e] = enrolled[e] \/ enrolled'[e] = [st |-> "none", release |-> 0]
    BY <2>1 DEF TypeOK
  <2> QED
    BY <2>2
<1>2. ASSUME NEW d \in Device, ReadAccount(d) PROVE enrolled[e].st \in {"active", "revoking"}
  BY <1>2, SettledRows DEF ReadAccount
<1>3. ASSUME NEW d \in Device, enrolled' = Revoked(d) PROVE enrolled[e].st \in {"active", "revoking"}
  BY <1>3 DEF Revoked, TypeOK
<1>4. CASE RevokeDevice
  BY <1>3, <1>4 DEF RevokeDevice, TypeOK, ChallengeRow
<1>5. ASSUME NEW d \in Device, SignOut(d) \/ AdminRevoke(d) PROVE enrolled[e].st \in {"active", "revoking"}
  BY <1>3, <1>5 DEF SignOut, AdminRevoke
<1>6. ASSUME UNCHANGED enrolled PROVE enrolled[e].st \in {"active", "revoking"}
  BY <1>6
<1> QED
  BY <1>1, <1>2, <1>4, <1>5, <1>6 DEF Next, vars, Logout, Challenge, Build, Record, Dies, Disconnect, AccountChanges,
     PauseOrResume, RebuildChanged, Pull, Handle, ExtendOffline, Refuse, Tick

LEMMA LimitHolds ==
  ASSUME TypeOK, TypeOK', [Next]_vars, withdrawn' = Never
  PROVE  withdrawn = Never /\ account.limit <= account'.limit
<1>1. clock < Never /\ account \in AccountRow /\ account' \in AccountRow
  BY Numbers DEF TypeOK, Never
<1>0. clock \in Nat /\ Never \in Nat
  BY Numbers DEF TypeOK
<1>2. account.limit \in Nat /\ account'.limit \in Nat
  BY <1>1 DEF AccountRow
<1>3. CASE AccountChanges
  <2>1. withdrawn' = clock \/ (withdrawn' = withdrawn /\ ~(account'.limit < account.limit))
    BY <1>3 DEF AccountChanges
  <2> QED
    BY <1>0, <1>1, <1>2, <2>1
<1>4. CASE ~AccountChanges
  <2>1. UNCHANGED <<account, withdrawn>>
    BY <1>4 DEF Next, vars, rows, control, history, Login, Logout, Challenge, ReadAccount, Connect, Build, Record, Dies, Disconnect,
       RevokeDevice, SignOut, AdminRevoke, PauseOrResume, RebuildChanged, Pull, Handle, ExtendOffline, Refuse, Tick
  <2> QED
    BY <1>2, <2>1
<1> QED
  BY <1>3, <1>4

LEMMA SlotsKeptStep == TypeOK /\ TypeOK' /\ SlotsKept /\ [Next]_vars => SlotsKept'
<1> SUFFICES ASSUME TypeOK, TypeOK', SlotsKept, [Next]_vars, withdrawn' = Never, Slots' # {}
             PROVE  Configs + Cardinality(Slots') <= account'.limit
  BY DEF SlotsKept
<1>1. withdrawn = Never /\ account.limit <= account'.limit
  BY LimitHolds
<1>2. /\ Configs \in Nat /\ account.limit \in Nat /\ account'.limit \in Nat /\ Cardinality(Slots) \in Nat /\ Cardinality(Slots') \in Nat
      /\ IsFiniteSet(Slots)
  <2>1. Slots \in SUBSET Device /\ Slots' \in SUBSET Device /\ account \in AccountRow /\ account' \in AccountRow
    BY DEF Slots, TypeOK
  <2> QED
    BY <2>1, SlotsAreFinite, SetAssumption DEF AccountRow
<1>3. CASE Slots' \subseteq Slots
  <2>1. Cardinality(Slots') <= Cardinality(Slots) /\ Slots # {}
    BY <1>3, SlotsAreFinite DEF Slots
  <2> QED
    BY <1>1, <1>2, <2>1 DEF SlotsKept
<1>4. ASSUME NEW h \in Handler, Connect(h) PROVE Configs + Cardinality(Slots') <= account'.limit
  <2>1. PICK d \in Device, n \in Node, k \in Key : Connects(h, d, n, k)
    BY <1>4, ConnectMeans
  <2>2. \A e \in Device \ {d} : enrolled'[e] = Settled(enrolled)[e]
    BY <2>1, SettledIsTyped DEF Connects
  <2>3. Slots' \subseteq Slots \union {d}
    BY <2>2, SettledRows DEF Slots
  <2>4. CASE enrolled[d].st = "none"
    <3>1. Configs + Cardinality(Slots) < account.limit
      BY <2>1, <2>4 DEF Connects, Admissible, SlotGranted, Used
    <3>2. Cardinality(Slots \union {d}) = IF d \in Slots THEN Cardinality(Slots) ELSE Cardinality(Slots) + 1
      BY <1>2, FS_AddElement
    <3>3. Cardinality(Slots') <= Cardinality(Slots \union {d}) /\ Cardinality(Slots \union {d}) \in Nat
      <4>1. Slots \union {d} \in SUBSET Device
        BY DEF Slots
      <4> QED
        BY <2>3, <4>1, SlotsAreFinite
    <3> QED
      BY <1>1, <1>2, <3>1, <3>2, <3>3
  <2>5. CASE enrolled[d].st # "none"
    <3>1. d \in Slots
      BY <2>1, <2>5 DEF Connects, Admissible, Slots
    <3> QED
      BY <1>3, <2>3, <3>1
  <2> QED
    BY <2>4, <2>5
<1> QED
  BY <1>3, <1>4, SlotsShrink

(* The devices with a working tunnel never exceed the limit: whatever a node lets through belongs to a device that  *)
(* still holds its slot, and slots are only taken while there is room (nativeConnect, nativeEnd, signOutDevice).    *)
THEOREM LimitIsKept == Spec => []TunnelsWithinLimit
<1>1. Init => AllAccounted /\ SlotsKept
  BY DEF Init, AllAccounted, Admitted, NoTask, NoAnswer, SlotsKept, Slots
<1>2. TypeOK /\ TypeOK' /\ LeasesEnd /\ AllAccounted /\ SlotsKept /\ [Next]_vars => AllAccounted' /\ SlotsKept'
  BY AllAccountedStep, SlotsKeptStep
<1>3. TypeOK /\ AllAccounted /\ SlotsKept => TunnelsWithinLimit
  <2> DEFINE devices == {p.dev : p \in {q \in Tunnels : ~q.ext /\ ~dropped[q.dev]}}
  <2>1. SUFFICES ASSUME TypeOK, AllAccounted, SlotsKept, withdrawn = Never, devices # {}
                 PROVE  Cardinality(devices) + Configs <= account.limit
    BY DEF TunnelsWithinLimit
  <2>2. ASSUME NEW n \in Node, NEW p \in Live(n), ~p.ext, ~dropped[p.dev] PROVE p.dev \in Slots
    <3>1. p \in Peer /\ p \in Admitted(n) /\ p.until > clock
      BY <2>1, <2>2, AdmittedArePeers DEF Live, Admitted
    <3>2. p.until \in Nat /\ clock \in Nat /\ p.dev \in Device
      BY <2>1, <3>1 DEF TypeOK, Peer
    <3>3. Accounted(p) /\ ~(p.until <= clock)
      BY <2>1, <3>1, <3>2 DEF AllAccounted
    <3> QED
      BY <2>2, <3>2, <3>3 DEF Accounted, Covered, Slots
  <2>3. devices \subseteq Slots
    BY <2>2 DEF Tunnels
  <2>4. Cardinality(devices) \in Nat /\ Cardinality(devices) <= Cardinality(Slots) /\ Cardinality(Slots) \in Nat
    BY <2>3, SlotsAreFinite DEF Slots
  <2> HIDE DEF devices
  <2>5. Configs \in Nat /\ account.limit \in Nat /\ Configs + Cardinality(Slots) <= account.limit
    BY <2>1, <2>3, SetAssumption DEF SlotsKept, TypeOK, AccountRow
  <2> QED
    BY <2>4, <2>5
<1> QED
  BY <1>1, <1>2, <1>3, NativeTyped, PTL DEF Spec

-----------------------------------------------------------------------------
(* TunnelsEndWithAccess. *)

(* While the account is shut out, what is still admitted ends within one lease of the withdrawal. *)
ShutOut == ~account.active => \A n \in Node : \A p \in Admitted(n) : p.ext \/ p.until <= clock \/ p.until <= withdrawn + Ttl

LEMMA ShutOutStep == TypeOK /\ TypeOK' /\ LeasesEnd /\ AllAccounted /\ ShutOut /\ [Next]_vars => ShutOut'
<1> SUFFICES ASSUME TypeOK, TypeOK', LeasesEnd, AllAccounted, ShutOut, [Next]_vars, ~account'.active,
                    NEW n \in Node, NEW p \in Admitted(n)'
             PROVE  p.ext \/ p.until <= clock' \/ p.until <= withdrawn' + Ttl
  BY DEF ShutOut
<1>1. Known(n, p)
  BY AdmittedFrom
<1>2. \A q \in Admitted(n) \union LeasePeers(n) : q \in Peer /\ q.until \in Nat
  BY AdmittedArePeers, PeersAreTyped DEF Peer
<1>3. clock \in Nat /\ clock' \in Nat /\ Ttl \in Nat /\ withdrawn \in Nat /\ withdrawn' \in Nat /\ clock <= clock'
  BY TimePasses, Numbers DEF TypeOK
<1>4. CASE withdrawn' = clock
  <2>1. \A q \in Admitted(n) \union LeasePeers(n) : q.ext \/ q.until <= clock \/ q.until <= clock + Ttl
    BY PeersAccounted DEF AllAccounted, Accounted
  <2> QED
    BY <1>1, <1>2, <1>3, <1>4, <2>1 DEF Known
<1>5. CASE withdrawn' # clock
  <2>1. ~account.active /\ withdrawn' = withdrawn
    <3>1. CASE AccountChanges
      BY <1>5, <3>1 DEF AccountChanges
    <3>2. CASE ~AccountChanges
      <4>1. UNCHANGED <<account, withdrawn>>
        BY <3>2 DEF Next, vars, rows, control, history, Login, Logout, Challenge, ReadAccount, Connect, Build, Record, Dies,
           Disconnect, RevokeDevice, SignOut, AdminRevoke, PauseOrResume, RebuildChanged, Pull, Handle, ExtendOffline, Refuse, Tick
      <4> QED
        BY <4>1
    <3> QED
      BY <3>1, <3>2
  <2>2. LeasePeers(n) = {}
    BY <2>1 DEF LeasePeers, Allowed
  <2>3. \A q \in Admitted(n) : q.ext \/ q.until <= clock \/ q.until <= withdrawn + Ttl
    BY <2>1 DEF ShutOut
  <2> QED
    BY <1>1, <1>2, <1>3, <2>1, <2>2, <2>3 DEF Known
<1> QED
  BY <1>4, <1>5

(* No tunnel outlives the account's end, nor its withdrawal by more than one lease, unless its node was cut off: *)
(* every deadline given out was cut to both (nativeConnect, listNativeLeasePeers, refresh_native_peers).         *)
THEOREM AccessEndsTunnels == Spec => []TunnelsEndWithAccess
<1>1. Init => AllAccounted /\ ShutOut
  BY DEF Init, AllAccounted, ShutOut, Admitted, NoTask, NoAnswer
<1>2. TypeOK /\ TypeOK' /\ LeasesEnd /\ AllAccounted /\ ShutOut /\ [Next]_vars => AllAccounted' /\ ShutOut'
  BY AllAccountedStep, ShutOutStep
<1>3. TypeOK /\ AllAccounted /\ ShutOut => TunnelsEndWithAccess
  <2>1. SUFFICES ASSUME TypeOK, AllAccounted, ShutOut, NEW n \in Node, NEW p \in Live(n)
                 PROVE  /\ clock >= AccessUntil => p.ext
                        /\ ~account.active /\ clock >= withdrawn + Ttl => p.ext
    BY DEF TunnelsEndWithAccess, Tunnels
  <2>2. p \in Admitted(n) /\ p \in Peer /\ p.until > clock
    BY <2>1, AdmittedArePeers DEF Live, Admitted
  <2>3. p.until \in Nat /\ clock \in Nat /\ AccessUntil \in Nat /\ withdrawn \in Nat /\ Ttl \in Nat
    BY <2>1, <2>2, Numbers DEF TypeOK, Peer
  <2>4. p.ext \/ (p.until <= AccessUntil /\ (~account.active => p.until <= withdrawn + Ttl))
    BY <2>1, <2>2, <2>3 DEF AllAccounted, Accounted, ShutOut
  <2> QED
    BY <2>2, <2>3, <2>4
<1> QED
  BY <1>1, <1>2, <1>3, NativeTyped, PTL DEF Spec

-----------------------------------------------------------------------------
(* ReadyIsBound. *)

Keys(peers) == {p.key : p \in peers}
(* A lease that works, and not cut to the account's end. *)
Good(d, n) == lease[d][n].until > clock /\ lease[d][n].until < AccessUntil /\ enrolled[d].st = "active"
(* Revision r of the node, and every later one on its way, gives the lease's key. *)
Bound(d, n, r) ==
  /\ 1 <= r /\ r <= desired[n].rev
  /\ queue[n].rev >= r => lease[d][n].key \in Keys(queue[n].peers)
  /\ answer[n].task.rev >= r => lease[d][n].key \in Keys(answer[n].task.peers)
  /\ observed[n] >= r => lease[d][n].key \in agent[n].keys
StillAllowed == withdrawn = Never => account.active /\ account.ok /\ \A d \in Device : enrolled[d].st = "active" => WithinLimit(d)
NewcomersLast == \A d \in Device : enrolled[d].st = "none" => \A e \in Device : d \notin older[e]
(* A revision means one set of keys, and none is ahead of the desired one. *)
OneByOne == \A n \in Node :
  /\ desired[n].rev >= 1
  /\ queue[n].rev <= desired[n].rev /\ answer[n].task.rev <= desired[n].rev /\ observed[n] <= desired[n].rev
  /\ queue[n].rev = desired[n].rev => Keys(queue[n].peers) = Keys(desired[n].peers)
  /\ answer[n].task.rev = desired[n].rev => Keys(answer[n].task.peers) = Keys(desired[n].peers)
  /\ observed[n] = desired[n].rev => agent[n].keys = Keys(desired[n].peers)
(* A connect in progress knows an older deadline than the next connect will write. *)
StampsDiffer == \A h \in Handler : call[h].pc # "idle" /\ call[h].until < AccessUntil => 0 < call[h].stamp /\ call[h].stamp <= connects
(* The revision a connect is about to record, or has recorded, gives the lease's key. *)
CallsKnow == withdrawn = Never => \A h \in Handler :
  LET d == call[h].dev  n == call[h].node IN call[h].pc = "record" /\ SameLease(h, lease[d][n]) /\ Good(d, n) => Bound(d, n, call[h].rev)
ReadyKnown == withdrawn = Never => \A d \in Device, n \in Node : lease[d][n].req # 0 /\ Good(d, n) => Bound(d, n, lease[d][n].req)

LEMMA NewcomersLastStep == TypeOK /\ NewcomersLast /\ [Next]_vars => NewcomersLast'
<1> SUFFICES ASSUME TypeOK, NewcomersLast, [Next]_vars, NEW d \in Device, enrolled'[d].st = "none", NEW e \in Device
             PROVE  d \notin older'[e]
  BY DEF NewcomersLast
<1> USE DEF rows, control, history
<1>1. ASSUME NEW x \in Device, Login(x) PROVE d \notin older'[e]
  <2>1. CASE ~(enrolled[x].st = "revoked" \/ Lapsed(x))
    BY <1>1, <2>1 DEF Login, NewcomersLast
  <2>2. CASE enrolled[x].st = "revoked" \/ Lapsed(x)
    <3>1. older'[e] = IF e = x THEN {} ELSE older[e] \ {x}
      BY <1>1, <2>2 DEF Login
    <3>2. d # x => enrolled'[d] = enrolled[d]
      BY <1>1, <2>2 DEF Login, TypeOK
    <3> QED
      BY <3>1, <3>2 DEF NewcomersLast
  <2> QED
    BY <2>1, <2>2
<1>2. ASSUME NEW x \in Device, ReadAccount(x) PROVE d \notin older'[e]
  <2>1. enrolled[d].st = "none" /\ older' = older
    BY <1>2, SettledRows DEF ReadAccount
  <2> QED
    BY <2>1 DEF NewcomersLast
<1>3. ASSUME NEW h \in Handler, Connect(h) PROVE d \notin older'[e]
  <2>1. PICK x \in Device, n \in Node, k \in Key : Connects(h, x, n, k)
    BY <1>3, ConnectMeans
  <2>2. enrolled[d].st = "none" /\ (d = x => enrolled[x].st # "none")
    <3>1. Settled(enrolled)[d] \in EnrollmentRow /\ Settled(enrolled)[d].st = "none" => enrolled[d].st = "none"
      BY SettledRows
    <3>2. CASE enrolled[x].st = "none"
      <4>1. enrolled' = [Settled(enrolled) EXCEPT ![x] = [Settled(enrolled)[x] EXCEPT !.st = "active"]]
        BY <2>1, <3>2 DEF Connects
      <4>2. Settled(enrolled)[x] \in EnrollmentRow /\ Settled(enrolled) \in [Device -> EnrollmentRow]
        BY SettledIsTyped
      <4>3. enrolled'[x].st = "active" /\ (d # x => enrolled'[d] = Settled(enrolled)[d])
        BY <4>1, <4>2 DEF EnrollmentRow
      <4> QED
        BY <3>1, <4>2, <4>3, SettledIsTyped
    <3>3. CASE enrolled[x].st # "none"
      <4>1. enrolled' = Settled(enrolled)
        BY <2>1, <3>3 DEF Connects
      <4> QED
        BY <3>1, <3>3, <4>1, SettledIsTyped
    <3> QED
      BY <3>2, <3>3
  <2>3. older' = older \/ older' = [older EXCEPT ![x] = {y \in Device : enrolled[y].st # "none"}]
    BY <2>1 DEF Connects
  <2>4. older'[e] = older[e] \/ older'[e] = {y \in Device : enrolled[y].st # "none"}
    BY <2>3 DEF TypeOK
  <2> QED
    BY <2>2, <2>4 DEF NewcomersLast
<1>4. ASSUME NEW x \in Device, enrolled' = Revoked(x), older' = older PROVE d \notin older'[e]
  <2>1. enrolled[d].st = "none"
    BY <1>4 DEF Revoked, TypeOK
  <2> QED
    BY <1>4, <2>1 DEF NewcomersLast
<1>5. CASE RevokeDevice
  BY <1>4, <1>5 DEF RevokeDevice, TypeOK, ChallengeRow
<1>6. ASSUME NEW x \in Device, SignOut(x) \/ AdminRevoke(x) PROVE d \notin older'[e]
  BY <1>4, <1>6 DEF SignOut, AdminRevoke
<1>7. ASSUME UNCHANGED <<enrolled, older>> PROVE d \notin older'[e]
  BY <1>7 DEF NewcomersLast
<1> QED
  BY <1>1, <1>2, <1>3, <1>5, <1>6, <1>7 DEF Next, vars, Logout, Challenge, Build, Record, Dies, Disconnect, AccountChanges,
     PauseOrResume, RebuildChanged, Pull, Handle, ExtendOffline, Refuse, Tick

LEMMA StaysActive ==
  ASSUME TypeOK, [Next]_vars, ~\E h \in Handler : Connect(h), NEW e \in Device, enrolled'[e].st = "active"
  PROVE  enrolled[e].st = "active" /\ older'[e] \subseteq older[e]
<1> USE DEF rows, control, history
<1>1. ASSUME NEW d \in Device, Login(d) PROVE enrolled[e].st = "active" /\ older'[e] \subseteq older[e]
  <2>1. CASE ~(enrolled[d].st = "revoked" \/ Lapsed(d))
    BY <1>1, <2>1 DEF Login
  <2>2. CASE enrolled[d].st = "revoked" \/ Lapsed(d)
    <3>1. older'[e] = IF e = d THEN {} ELSE older[e] \ {d}
      BY <1>1, <2>2 DEF Login
    <3>2. enrolled'[e] = IF e = d THEN [st |-> "none", release |-> 0] ELSE enrolled[e]
      BY <1>1, <2>2 DEF Login, TypeOK
    <3> QED
      BY <3>1, <3>2
  <2> QED
    BY <2>1, <2>2
<1>2. ASSUME NEW d \in Device, ReadAccount(d) PROVE enrolled[e].st = "active" /\ older'[e] \subseteq older[e]
  BY <1>2, SettledRows DEF ReadAccount
<1>3. ASSUME NEW d \in Device, enrolled' = Revoked(d), older' = older PROVE enrolled[e].st = "active" /\ older'[e] \subseteq older[e]
  BY <1>3 DEF Revoked, TypeOK
<1>4. CASE RevokeDevice
  BY <1>3, <1>4 DEF RevokeDevice, TypeOK, ChallengeRow
<1>5. ASSUME NEW d \in Device, SignOut(d) \/ AdminRevoke(d) PROVE enrolled[e].st = "active" /\ older'[e] \subseteq older[e]
  BY <1>3, <1>5 DEF SignOut, AdminRevoke
<1>6. ASSUME UNCHANGED <<enrolled, older>> PROVE enrolled[e].st = "active" /\ older'[e] \subseteq older[e]
  BY <1>6
<1> QED
  BY <1>1, <1>2, <1>4, <1>5, <1>6 DEF Next, vars, Logout, Challenge, Build, Record, Dies, Disconnect, AccountChanges,
     PauseOrResume, RebuildChanged, Pull, Handle, ExtendOffline, Refuse, Tick

(* A connect takes a slot only for its own device, or none. *)
LEMMA ConnectedSlots ==
  ASSUME TypeOK, NEW h, NEW d \in Device, NEW n, NEW k, Connects(h, d, n, k)
  PROVE  /\ \A e \in Device \ {d} : enrolled'[e] = Settled(enrolled)[e] /\ older'[e] = older[e]
         /\ enrolled[d].st \in {"none", "active"} /\ enrolled'[d].st = "active"
         /\ older'[d] = IF enrolled[d].st = "none" THEN {e \in Device : enrolled[e].st # "none"} ELSE older[d]
         /\ Slots' \subseteq Slots \union {d}
<1>1. \A e \in Device \ {d} : enrolled'[e] = Settled(enrolled)[e] /\ older'[e] = older[e]
  BY SettledIsTyped DEF Connects, TypeOK
<1>2. enrolled[d].st \in {"none", "active"}
  BY DEF Connects, Admissible
<1>3. enrolled'[d].st = "active"
  <2>1. CASE enrolled[d].st = "none"
    <3>1. Settled(enrolled)[d] \in EnrollmentRow /\ enrolled'[d] = [Settled(enrolled)[d] EXCEPT !.st = "active"]
      BY <2>1, SettledIsTyped DEF Connects
    <3> QED
      BY <3>1 DEF EnrollmentRow
  <2>2. CASE enrolled[d].st # "none"
    <3>1. enrolled[d].st = "active" /\ enrolled'[d] = Settled(enrolled)[d]
      BY <1>2, <2>2 DEF Connects
    <3> QED
      BY <3>1 DEF Settled
  <2> QED
    BY <2>1, <2>2
<1>4. older'[d] = IF enrolled[d].st = "none" THEN {e \in Device : enrolled[e].st # "none"} ELSE older[d]
  BY DEF Connects, TypeOK
<1>5. Slots' \subseteq Slots \union {d}
  BY <1>1, SettledRows DEF Slots
<1> QED
  BY <1>1, <1>2, <1>3, <1>4, <1>5

LEMMA StillAllowedStep == TypeOK /\ TypeOK' /\ NewcomersLast /\ StillAllowed /\ [Next]_vars => StillAllowed'
<1> SUFFICES ASSUME TypeOK, TypeOK', NewcomersLast, StillAllowed, [Next]_vars, withdrawn' = Never
             PROVE  account'.active /\ account'.ok /\ \A e \in Device : enrolled'[e].st = "active" => WithinLimit(e)'
  BY DEF StillAllowed
<1>1. withdrawn = Never /\ account.limit <= account'.limit /\ account.limit \in Nat /\ account'.limit \in Nat /\ Configs \in Nat
  <2>1. account \in AccountRow /\ account' \in AccountRow
    BY DEF TypeOK
  <2> QED
    BY <2>1, LimitHolds, SetAssumption DEF AccountRow
<1>2. account'.active /\ account'.ok
  <2>1. account.active /\ account.ok /\ account \in AccountRow /\ clock # Never
    BY <1>1, Numbers DEF StillAllowed, TypeOK, Never
  <2>2. CASE AccountChanges
    <3>1. (account.active => account'.active) /\ (account.ok => account'.ok)
      BY <2>1, <2>2 DEF AccountChanges
    <3> QED
      BY <2>1, <3>1
  <2>3. CASE ~AccountChanges
    <3>1. UNCHANGED account
      BY <2>3 DEF Next, vars, rows, control, history, Login, Logout, Challenge, ReadAccount, Connect, Build, Record, Dies, Disconnect,
         RevokeDevice, SignOut, AdminRevoke, PauseOrResume, RebuildChanged, Pull, Handle, ExtendOffline, Refuse, Tick
    <3> QED
      BY <2>1, <3>1
  <2> QED
    BY <2>2, <2>3
<1>3. ASSUME NEW e \in Device, NEW S \in SUBSET Device, Slots' \intersect older'[e] \subseteq S, Configs + Cardinality(S) < account.limit
      PROVE  WithinLimit(e)'
  <2>1. /\ Cardinality(S) \in Nat /\ Cardinality(Slots' \intersect older'[e]) \in Nat
        /\ Cardinality(Slots' \intersect older'[e]) <= Cardinality(S)
    BY <1>3, SlotsAreFinite
  <2> QED
    BY <1>1, <1>3, <2>1 DEF WithinLimit
<1>4. ASSUME NEW e \in Device, enrolled'[e].st = "active" PROVE WithinLimit(e)'
  <2>0. Slots \in SUBSET Device /\ Slots \intersect older[e] \in SUBSET Device
    BY DEF Slots
  <2>1. CASE ~\E h \in Handler : Connect(h)
    <3>1. Slots' \intersect older'[e] \subseteq Slots \intersect older[e]
      BY <1>4, <2>1, StaysActive, SlotsShrink
    <3>2. Configs + Cardinality(Slots \intersect older[e]) < account.limit
      BY <1>1, <1>4, <2>1, StaysActive DEF StillAllowed, WithinLimit
    <3> QED
      BY <1>3, <2>0, <3>1, <3>2
  <2>2. ASSUME NEW h \in Handler, Connect(h) PROVE WithinLimit(e)'
    <3>1. PICK d \in Device, n \in Node, k \in Key : Connects(h, d, n, k)
      BY <2>2, ConnectMeans
    <3>2. /\ \A y \in Device \ {d} : enrolled'[y] = Settled(enrolled)[y] /\ older'[y] = older[y]
          /\ enrolled[d].st \in {"none", "active"}
          /\ older'[d] = IF enrolled[d].st = "none" THEN {y \in Device : enrolled[y].st # "none"} ELSE older[d]
          /\ Slots' \subseteq Slots \union {d}
      BY <3>1, ConnectedSlots
    <3>3. CASE e = d /\ enrolled[d].st = "none"
      <4>1. Slots' \intersect older'[e] \subseteq Slots
        BY <3>2, <3>3
      <4>2. Configs + Cardinality(Slots) < account.limit
        BY <3>1, <3>3 DEF Connects, Admissible, SlotGranted, Used
      <4> QED
        BY <1>3, <2>0, <4>1, <4>2
    <3>4. CASE ~(e = d /\ enrolled[d].st = "none")
      <4>1. enrolled[e].st = "active" /\ older'[e] = older[e]
        BY <1>4, <3>2, <3>4, SettledRows
      <4>2. d \in older[e] => enrolled[d].st # "none"
        BY DEF NewcomersLast
      <4>3. Slots' \intersect older'[e] \subseteq Slots \intersect older[e]
        BY <3>2, <4>1, <4>2 DEF Slots
      <4>4. Configs + Cardinality(Slots \intersect older[e]) < account.limit
        BY <1>1, <4>1 DEF StillAllowed, WithinLimit
      <4> QED
        BY <1>3, <2>0, <4>3, <4>4
    <3> QED
      BY <3>3, <3>4
  <2> QED
    BY <2>1, <2>2
<1> QED
  BY <1>2, <1>4

(* The part of a configuration its hash covers names the keys. *)
LEMMA HashedKeys ==
  ASSUME NEW n \in Node, NEW P \in SUBSET Peer, NEW Q \in SUBSET Peer, Hashed(n, P) = Hashed(n, Q)
  PROVE  Keys(P) = Keys(Q)
<1>1. ASSUME NEW S \in SUBSET Peer PROVE Keys(Hashed(n, S)) = Keys(S)
  <2>1. \A p \in S : [p EXCEPT !.until = 0].key = p.key
    BY DEF Peer
  <2>2. CASE n \in InPlace
    <3> DEFINE Bare(p) == [p EXCEPT !.until = 0]
    <3>1. Hashed(n, S) = {Bare(p) : p \in S} /\ \A p \in S : Bare(p).key = p.key
      BY <2>1, <2>2 DEF Hashed
    <3> HIDE DEF Bare
    <3> QED
      BY <3>1 DEF Keys
  <2>3. CASE n \notin InPlace
    BY <2>3 DEF Hashed
  <2> QED
    BY <2>2, <2>3
<1> QED
  BY <1>1

LEMMA RebuiltRevision ==
  ASSUME TypeOK, NEW n \in Node, Rebuild(n)
  PROVE  /\ desired'[n].rev = NextRev(n) /\ desired'[n].peers = LeasePeers(n)
         /\ \A m \in Node \ {n} : desired'[m] = desired[m] /\ queue'[m] = queue[m]
         /\ \/ /\ desired'[n].rev = desired[n].rev + 1
               /\ queue'[n].rev = desired'[n].rev /\ queue'[n].peers = LeasePeers(n)
            \/ desired'[n].rev = desired[n].rev /\ queue' = queue /\ Keys(desired[n].peers) = Keys(LeasePeers(n))
<1>1. desired' = [desired EXCEPT ![n] = [rev |-> NextRev(n), peers |-> LeasePeers(n)]]
  BY DEF Rebuild
<1>2. desired'[n].rev = NextRev(n) /\ desired'[n].peers = LeasePeers(n)
  BY <1>1 DEF TypeOK
<1>3. LeasePeers(n) \in SUBSET Peer /\ desired[n].peers \in SUBSET Peer
  BY PeersAreTyped DEF TypeOK, Payload
<1>4. CASE Changed(n)
  <2>1. queue' = [queue EXCEPT ![n] = [rev |-> NextRev(n), peers |-> LeasePeers(n)]] /\ NextRev(n) = desired[n].rev + 1
    BY <1>4 DEF Rebuild, NextRev
  <2>2. queue'[n].rev = NextRev(n) /\ queue'[n].peers = LeasePeers(n)
    BY <2>1 DEF TypeOK
  <2> QED
    BY <1>1, <1>2, <2>1, <2>2 DEF TypeOK
<1>5. CASE ~Changed(n)
  <2>1. queue' = queue /\ NextRev(n) = desired[n].rev /\ Hashed(n, LeasePeers(n)) = Hashed(n, desired[n].peers)
    BY <1>5 DEF Rebuild, NextRev, Changed
  <2>2. Keys(LeasePeers(n)) = Keys(desired[n].peers)
    BY <1>3, <2>1, HashedKeys
  <2> QED
    BY <1>1, <1>2, <2>1, <2>2 DEF TypeOK
<1> QED
  BY <1>4, <1>5

LEMMA PulledAnswer ==
  ASSUME TypeOK, NEW n \in Node, Pull(n)
  PROVE  /\ answer'[n].task = queue[n] /\ queue'[n] = NoTask /\ UNCHANGED <<desired, observed>>
         /\ \A m \in Node \ {n} : answer'[m] = answer[m] /\ queue'[m] = queue[m]
         /\ \A m \in Node : agent'[m].keys = agent[m].keys
<1>1. /\ answer' = [answer EXCEPT ![n] = [open |-> TRUE, task |-> queue[n], peers |-> LeasePeers(n)]]
      /\ queue' = [queue EXCEPT ![n] = NoTask] /\ agent' = [agent EXCEPT ![n].contact = clock] /\ UNCHANGED <<desired, observed>>
  BY DEF Pull
<1>2. \A m \in Node : agent'[m].keys = agent[m].keys
  BY <1>1 DEF TypeOK, AgentRow
<1>3. answer'[n] = [open |-> TRUE, task |-> queue[n], peers |-> LeasePeers(n)]
  BY <1>1 DEF TypeOK
<1> QED
  BY <1>1, <1>2, <1>3 DEF TypeOK

LEMMA HandledAnswer ==
  ASSUME TypeOK, NEW n \in Node, Handle(n)
  PROVE  /\ answer'[n] = NoAnswer /\ UNCHANGED <<desired, queue>>
         /\ \A m \in Node \ {n} : answer'[m] = answer[m] /\ observed'[m] = observed[m] /\ agent'[m] = agent[m]
         /\ \/ answer[n].task = NoTask /\ observed'[n] = observed[n] /\ agent'[n].keys = agent[n].keys
            \/ observed'[n] = answer[n].task.rev /\ agent'[n].keys = Keys(answer[n].task.peers)
<1>1. /\ agent' = [agent EXCEPT ![n].file = Refreshed(Applied(n), Wanted(n)),
                                ![n].keys = IF answer[n].task = NoTask THEN @ ELSE {p.key : p \in answer[n].task.peers}]
      /\ observed' = IF answer[n].task = NoTask THEN observed ELSE [observed EXCEPT ![n] = answer[n].task.rev]
      /\ answer' = [answer EXCEPT ![n] = NoAnswer] /\ UNCHANGED <<desired, queue>>
  BY DEF Handle, rows
<1>2. agent'[n].keys = IF answer[n].task = NoTask THEN agent[n].keys ELSE Keys(answer[n].task.peers)
  BY <1>1 DEF TypeOK, AgentRow, Keys
<1>3. \A m \in Node \ {n} : answer'[m] = answer[m] /\ observed'[m] = observed[m] /\ agent'[m] = agent[m]
  BY <1>1 DEF TypeOK
<1>4. answer'[n] = NoAnswer /\ observed'[n] = IF answer[n].task = NoTask THEN observed[n] ELSE answer[n].task.rev
  BY <1>1 DEF TypeOK
<1> QED
  BY <1>1, <1>2, <1>3, <1>4

(* The other steps leave what a node is told and what it reports alone. *)
LEMMA OtherSteps ==
  ASSUME TypeOK, [Next]_vars, ~\E h \in Handler : Build(h), ~\E n \in Node : RebuildChanged(n) \/ Pull(n) \/ Handle(n)
  PROVE  UNCHANGED <<desired, queue, answer, observed>> /\ \A m \in Node : agent'[m].keys = agent[m].keys
<1>1. CASE Tick
  BY <1>1 DEF Tick, TypeOK, AgentRow, control
<1>2. ASSUME NEW n \in Node, ExtendOffline(n) PROVE UNCHANGED <<desired, queue, answer, observed>> /\ \A m \in Node : agent'[m].keys = agent[m].keys
  <2>1. PICK file : agent' = [agent EXCEPT ![n].file = file]
    BY <1>2 DEF ExtendOffline
  <2>2. \A m \in Node : agent'[m].keys = agent[m].keys
    BY <2>1 DEF TypeOK, AgentRow
  <2> QED
    BY <1>2, <2>2 DEF ExtendOffline, control
<1> QED
  BY <1>1, <1>2 DEF Next, vars, rows, control, history, Login, Logout, Challenge, ReadAccount, Connect, Record, Dies, Disconnect,
     RevokeDevice, AccountChanges, SignOut, AdminRevoke, PauseOrResume, Refuse

LEMMA OneByOneStep == TypeOK /\ TypeOK' /\ OneByOne /\ [Next]_vars => OneByOne'
<1> SUFFICES ASSUME TypeOK, TypeOK', OneByOne, [Next]_vars, NEW n \in Node
             PROVE  /\ desired'[n].rev >= 1
                    /\ queue'[n].rev <= desired'[n].rev /\ answer'[n].task.rev <= desired'[n].rev /\ observed'[n] <= desired'[n].rev
                    /\ queue'[n].rev = desired'[n].rev => Keys(queue'[n].peers) = Keys(desired'[n].peers)
                    /\ answer'[n].task.rev = desired'[n].rev => Keys(answer'[n].task.peers) = Keys(desired'[n].peers)
                    /\ observed'[n] = desired'[n].rev => agent'[n].keys = Keys(desired'[n].peers)
  BY DEF OneByOne, Keys
<1> DEFINE Goal == /\ desired'[n].rev >= 1
                   /\ queue'[n].rev <= desired'[n].rev /\ answer'[n].task.rev <= desired'[n].rev /\ observed'[n] <= desired'[n].rev
                   /\ queue'[n].rev = desired'[n].rev => Keys(queue'[n].peers) = Keys(desired'[n].peers)
                   /\ answer'[n].task.rev = desired'[n].rev => Keys(answer'[n].task.peers) = Keys(desired'[n].peers)
                   /\ observed'[n] = desired'[n].rev => agent'[n].keys = Keys(desired'[n].peers)
<1>0. /\ desired[n].rev \in Nat /\ queue[n].rev \in Nat /\ answer[n].task.rev \in Nat /\ observed[n] \in Nat
      /\ desired[n].rev >= 1 /\ queue[n].rev <= desired[n].rev /\ answer[n].task.rev <= desired[n].rev /\ observed[n] <= desired[n].rev
      /\ queue[n].rev = desired[n].rev => Keys(queue[n].peers) = Keys(desired[n].peers)
      /\ answer[n].task.rev = desired[n].rev => Keys(answer[n].task.peers) = Keys(desired[n].peers)
      /\ observed[n] = desired[n].rev => agent[n].keys = Keys(desired[n].peers)
  BY DEF TypeOK, Payload, AnswerRow, OneByOne
<1>a. ASSUME NEW m \in Node, Rebuild(m), UNCHANGED <<answer, observed, agent>> PROVE Goal
  <2>1. /\ \A x \in Node \ {m} : desired'[x] = desired[x] /\ queue'[x] = queue[x]
        /\ desired'[m].peers = LeasePeers(m)
        /\ \/ desired'[m].rev = desired[m].rev + 1 /\ queue'[m].rev = desired'[m].rev /\ queue'[m].peers = LeasePeers(m)
           \/ desired'[m].rev = desired[m].rev /\ queue' = queue /\ Keys(desired[m].peers) = Keys(LeasePeers(m))
    BY <1>a, RebuiltRevision
  <2>2. CASE n # m
    BY <1>0, <1>a, <2>1, <2>2
  <2>3. CASE n = m
    BY <1>0, <1>a, <2>1, <2>3
  <2> QED
    BY <2>2, <2>3
<1>1. ASSUME NEW h \in Handler, Build(h) PROVE Goal
  <2>1. call[h].node \in Node
    BY <1>1 DEF Build, TypeOK, CallRow, Idle
  <2> QED
    BY <1>1, <1>a, <2>1 DEF Build
<1>2. ASSUME NEW m \in Node, RebuildChanged(m) PROVE Goal
  BY <1>2, <1>a DEF RebuildChanged
<1>3. ASSUME NEW m \in Node, Pull(m) PROVE Goal
  <2>1. /\ answer'[m].task = queue[m] /\ queue'[m] = NoTask /\ UNCHANGED <<desired, observed>>
        /\ \A x \in Node \ {m} : answer'[x] = answer[x] /\ queue'[x] = queue[x]
        /\ agent'[n].keys = agent[n].keys /\ NoTask.rev = 0
    BY <1>3, PulledAnswer DEF NoTask
  <2> QED
    BY <1>0, <2>1
<1>4. ASSUME NEW m \in Node, Handle(m) PROVE Goal
  <2>1. /\ answer'[m] = NoAnswer /\ UNCHANGED <<desired, queue>> /\ NoAnswer.task.rev = 0
        /\ \A x \in Node \ {m} : answer'[x] = answer[x] /\ observed'[x] = observed[x] /\ agent'[x] = agent[x]
        /\ \/ answer[m].task = NoTask /\ observed'[m] = observed[m] /\ agent'[m].keys = agent[m].keys
           \/ observed'[m] = answer[m].task.rev /\ agent'[m].keys = Keys(answer[m].task.peers)
    BY <1>4, HandledAnswer DEF NoAnswer, NoTask
  <2> QED
    BY <1>0, <2>1
<1>5. CASE ~(\E h \in Handler : Build(h)) /\ ~(\E m \in Node : RebuildChanged(m) \/ Pull(m) \/ Handle(m))
  <2>1. UNCHANGED <<desired, queue, answer, observed>> /\ agent'[n].keys = agent[n].keys
    BY <1>5, OtherSteps
  <2> QED
    BY <1>0, <2>1
<1> QED
  BY <1>1, <1>2, <1>3, <1>4, <1>5

LEMMA GoodIsPeer ==
  ASSUME TypeOK, StillAllowed, withdrawn = Never, NEW d \in Device, NEW n \in Node, Good(d, n)
  PROVE  lease[d][n].key \in Keys(LeasePeers(n))
<1>1. lease[d][n].until \in Nat /\ clock \in Nat /\ AccessUntil \in Nat
  BY Numbers DEF TypeOK, LeaseRow
<1>2. LiveLease(d, n) /\ Allowed /\ WithinLimit(d) /\ enrolled[d].st = "active"
  BY <1>1 DEF Good, LiveLease, Allowed, StillAllowed
<1>3. PeerOf(d, n) \in LeasePeers(n) /\ PeerOf(d, n).key = lease[d][n].key
  BY <1>2 DEF LeasePeers, PeerOf
<1> QED
  BY <1>3 DEF Keys

(* What is bound stays bound while the lease keeps its key: every later revision gives it again. *)
LEMMA BoundKept ==
  ASSUME TypeOK, TypeOK', StillAllowed, withdrawn = Never, [Next]_vars, NEW d \in Device, NEW n \in Node, NEW r \in Nat,
         Good(d, n), Bound(d, n, r), lease'[d][n].key = lease[d][n].key
  PROVE  Bound(d, n, r)'
<1> DEFINE k == lease[d][n].key
           Goal == /\ 1 <= r /\ r <= desired'[n].rev
                   /\ queue'[n].rev >= r => k \in Keys(queue'[n].peers)
                   /\ answer'[n].task.rev >= r => k \in Keys(answer'[n].task.peers)
                   /\ observed'[n] >= r => k \in agent'[n].keys
<1>0. /\ desired[n].rev \in Nat /\ queue[n].rev \in Nat /\ answer[n].task.rev \in Nat /\ observed[n] \in Nat
      /\ 1 <= r /\ r <= desired[n].rev
      /\ queue[n].rev >= r => k \in Keys(queue[n].peers)
      /\ answer[n].task.rev >= r => k \in Keys(answer[n].task.peers)
      /\ observed[n] >= r => k \in agent[n].keys
  BY DEF TypeOK, Payload, AnswerRow, Bound
<1>6. k \in Keys(LeasePeers(n))
  BY GoodIsPeer
<1>7. Goal => Bound(d, n, r)'
  BY DEF Bound, Keys
<1> HIDE DEF k
<1>a. ASSUME NEW m \in Node, Rebuild(m), UNCHANGED <<answer, observed, agent>> PROVE Goal
  <2>1. /\ \A x \in Node \ {m} : desired'[x] = desired[x] /\ queue'[x] = queue[x]
        /\ \/ desired'[m].rev = desired[m].rev + 1 /\ queue'[m].rev = desired'[m].rev /\ queue'[m].peers = LeasePeers(m)
           \/ desired'[m].rev = desired[m].rev /\ queue' = queue
    BY <1>a, RebuiltRevision
  <2>2. CASE n # m
    BY <1>0, <1>a, <2>1, <2>2
  <2>3. CASE n = m
    BY <1>0, <1>6, <1>a, <2>1, <2>3
  <2> QED
    BY <2>2, <2>3
<1>1. ASSUME NEW h \in Handler, Build(h) PROVE Goal
  <2>1. call[h].node \in Node
    BY <1>1 DEF Build, TypeOK, CallRow, Idle
  <2> QED
    BY <1>1, <1>a, <2>1 DEF Build
<1>2. ASSUME NEW m \in Node, RebuildChanged(m) PROVE Goal
  BY <1>2, <1>a DEF RebuildChanged
<1>3. ASSUME NEW m \in Node, Pull(m) PROVE Goal
  <2>1. /\ answer'[m].task = queue[m] /\ queue'[m] = NoTask /\ UNCHANGED <<desired, observed>>
        /\ \A x \in Node \ {m} : answer'[x] = answer[x] /\ queue'[x] = queue[x]
        /\ agent'[n].keys = agent[n].keys /\ NoTask.rev = 0
    BY <1>3, PulledAnswer DEF NoTask
  <2> QED
    BY <1>0, <2>1
<1>4. ASSUME NEW m \in Node, Handle(m) PROVE Goal
  <2>1. /\ answer'[m] = NoAnswer /\ UNCHANGED <<desired, queue>> /\ NoAnswer.task.rev = 0
        /\ \A x \in Node \ {m} : answer'[x] = answer[x] /\ observed'[x] = observed[x] /\ agent'[x] = agent[x]
        /\ \/ answer[m].task = NoTask /\ observed'[m] = observed[m] /\ agent'[m].keys = agent[m].keys
           \/ observed'[m] = answer[m].task.rev /\ agent'[m].keys = Keys(answer[m].task.peers)
    BY <1>4, HandledAnswer DEF NoAnswer, NoTask
  <2> QED
    BY <1>0, <2>1
<1>5. CASE ~(\E h \in Handler : Build(h)) /\ ~(\E m \in Node : RebuildChanged(m) \/ Pull(m) \/ Handle(m))
  <2>1. UNCHANGED <<desired, queue, answer, observed>> /\ agent'[n].keys = agent[n].keys
    BY <1>5, OtherSteps
  <2>2. /\ desired'[n].rev = desired[n].rev /\ queue'[n] = queue[n] /\ answer'[n].task = answer[n].task
        /\ observed'[n] = observed[n] /\ agent'[n].keys = agent[n].keys
    BY <2>1
  <2> QED
    BY <1>0, <1>7, <2>2
<1> QED
  BY <1>1, <1>2, <1>3, <1>4, <1>5, <1>7

(* Where a working lease comes from. *)
LEMMA GoodBefore ==
  ASSUME TypeOK, TypeOK', [Next]_vars, NEW d \in Device, NEW n \in Node, Good(d, n)'
  PROVE  \/ Good(d, n) /\ lease'[d][n] = lease[d][n]
         \/ /\ Good(d, n)
            /\ lease'[d][n].key = lease[d][n].key /\ lease'[d][n].until = lease[d][n].until /\ lease'[d][n].stamp = lease[d][n].stamp
            /\ \E h \in Handler : /\ call[h].pc = "record" /\ call[h].dev = d /\ call[h].node = n /\ SameLease(h, lease[d][n])
                                  /\ lease'[d][n].req = call[h].rev
         \/ \E h \in Handler, k \in Key : Connects(h, d, n, k)
<1> USE DEF rows, control, history
<1>0. /\ clock \in Nat /\ clock' \in Nat /\ clock <= clock' /\ lease[d][n].until \in Nat /\ lease'[d][n].until \in Nat
      /\ lease'[d][n].until > clock' /\ lease'[d][n].until < AccessUntil /\ AccessUntil \in Nat /\ enrolled'[d].st = "active"
  BY TimePasses, Numbers DEF TypeOK, LeaseRow, Good
<1>a. ASSUME ~\E h \in Handler : Connect(h), lease'[d][n] = lease[d][n] PROVE Good(d, n) /\ lease'[d][n] = lease[d][n]
  BY <1>0, <1>a, StaysActive DEF Good
<1>1. ASSUME ~\E h \in Handler : Connect(h), NEW e \in Device, lease' = EndedLeases(e), clock' = clock
      PROVE  Good(d, n) /\ lease'[d][n] = lease[d][n]
  <2>1. CASE e = d
    <3>1. lease'[d][n] = NoLease \/ lease'[d][n].until = clock
      BY <1>1, <2>1, EndedRows
    <3>2. NoLease.until = 0
      BY DEF NoLease
    <3> QED
      BY <1>0, <1>1, <3>1, <3>2
  <2>2. CASE e # d
    <3>1. lease'[d][n] = lease[d][n]
      BY <1>1, <2>2, EndedRows
    <3> QED
      BY <1>1, <1>a, <3>1
  <2> QED
    BY <2>1, <2>2
<1>2. CASE \E h \in Handler : Connect(h)
  <2>1. PICK h \in Handler, x \in Device, m \in Node, k \in Key : Connects(h, x, m, k)
    BY <1>2, ConnectMeans
  <2>2. CASE x # d
    <3>1. lease'[d][n] = lease[d][n] /\ enrolled'[d] = Settled(enrolled)[d] /\ clock' = clock
      <4>1. lease'[d] = lease[d] /\ clock' = clock
        BY <2>1, <2>2 DEF Connects, TypeOK
      <4>2. \A e \in Device \ {x} : enrolled'[e] = Settled(enrolled)[e] /\ older'[e] = older[e]
        BY <2>1, ConnectedSlots
      <4> QED
        BY <2>2, <4>1, <4>2
    <3>2. enrolled[d].st = "active"
      BY <1>0, <3>1, SettledRows
    <3> QED
      BY <1>0, <3>1, <3>2 DEF Good
  <2>3. CASE x = d /\ m # n
    <3>1. clock' = clock
      BY <2>1 DEF Connects
    <3>2. (lease'[d][n] = lease[d][n] /\ ~LiveLease(d, n)) \/ lease'[d][n].until = clock
      <4>1. lease'[x] = LeaseRows(x, m, k)
        BY <2>1 DEF Connects, TypeOK
      <4>2. LiveLease(x, n) => lease'[x][n] = [lease[x][n] EXCEPT !.until = clock, !.stamp = 0]
        BY <2>3, <4>1 DEF LeaseRows
      <4>3. ~LiveLease(x, n) => lease'[x][n] = lease[x][n]
        BY <2>3, <4>1 DEF LeaseRows
      <4>4. lease[x][n] \in LeaseRow
        BY DEF TypeOK
      <4>5. LiveLease(x, n) => lease'[x][n].until = clock
        BY <4>2, <4>4 DEF LeaseRow
      <4> QED
        BY <2>3, <4>3, <4>5
    <3> QED
      BY <1>0, <3>1, <3>2 DEF LiveLease
  <2>4. CASE x = d /\ m = n
    BY <2>1, <2>4
  <2> QED
    BY <2>2, <2>3, <2>4
<1>3. ASSUME NEW e \in Device, Login(e), ~\E h \in Handler : Connect(h) PROVE Good(d, n) /\ lease'[d][n] = lease[d][n]
  <2>1. lease' = lease \/ lease' = [lease EXCEPT ![e] = [m \in Node |-> NoLease]]
    BY <1>3 DEF Login
  <2>2. lease'[d][n] = lease[d][n] \/ lease'[d][n] = NoLease
    <3>1. lease'[d] = lease[d] \/ lease'[d] = [m \in Node |-> NoLease]
      BY <2>1 DEF TypeOK
    <3> QED
      BY <3>1
  <2>3. NoLease.until = 0
    BY DEF NoLease
  <2> QED
    BY <1>0, <1>3, <1>a, <2>2, <2>3
<1>4. ASSUME NEW h \in Handler, Record(h), ~\E x \in Handler : Connect(x)
      PROVE  \/ Good(d, n) /\ lease'[d][n] = lease[d][n]
             \/ /\ Good(d, n)
                /\ lease'[d][n].key = lease[d][n].key /\ lease'[d][n].until = lease[d][n].until /\ lease'[d][n].stamp = lease[d][n].stamp
                /\ call[h].pc = "record" /\ call[h].dev = d /\ call[h].node = n /\ SameLease(h, lease[d][n])
                /\ lease'[d][n].req = call[h].rev
  <2>1. /\ call[h].pc = "record"
        /\ lease'[d][n].until = lease[d][n].until /\ lease'[d][n].stamp = lease[d][n].stamp /\ lease'[d][n].key = lease[d][n].key
        /\ \/ lease'[d][n] = lease[d][n]
           \/ /\ d = call[h].dev /\ n = call[h].node /\ SameLease(h, lease[d][n])
              /\ lease'[d][n].req = call[h].rev
    BY <1>4, RecordedRows
  <2>2. Good(d, n)
    BY <1>0, <1>4, <2>1, StaysActive DEF Good
  <2> QED
    BY <2>1, <2>2
<1>5. CASE Disconnect /\ ~\E h \in Handler : Connect(h)
  BY <1>1, <1>5 DEF Disconnect, TypeOK, ChallengeRow
<1>6. CASE RevokeDevice /\ ~\E h \in Handler : Connect(h)
  BY <1>1, <1>6 DEF RevokeDevice, TypeOK, ChallengeRow
<1>7. ASSUME NEW e \in Device, SignOut(e) \/ AdminRevoke(e), ~\E h \in Handler : Connect(h) PROVE Good(d, n) /\ lease'[d][n] = lease[d][n]
  BY <1>1, <1>7 DEF SignOut, AdminRevoke
<1>8. ASSUME UNCHANGED lease, ~\E h \in Handler : Connect(h) PROVE Good(d, n) /\ lease'[d][n] = lease[d][n]
  BY <1>8, <1>a
<1> QED
  BY <1>2, <1>3, <1>4, <1>5, <1>6, <1>7, <1>8 DEF Next, vars, Logout, Challenge, ReadAccount, Build, Dies, AccountChanges,
     PauseOrResume, RebuildChanged, Pull, Handle, ExtendOffline, Refuse, Tick

LEMMA CallBefore ==
  ASSUME TypeOK, [Next]_vars, NEW h \in Handler
  PROVE  \/ call'[h] = call[h]
         \/ call'[h] = Idle
         \/ /\ Build(h) /\ call'[h].dev = call[h].dev /\ call'[h].node = call[h].node /\ call'[h].key = call[h].key
            /\ call'[h].until = call[h].until /\ call'[h].stamp = call[h].stamp /\ call'[h].rev = NextRev(call[h].node)
         \/ \E d \in Device, n \in Node, k \in Key :
              /\ Connects(h, d, n, k)
              /\ call'[h] = [pc |-> "build", dev |-> d, node |-> n, key |-> k, until |-> Expiry, stamp |-> Stamp, rev |-> 0]
<1> USE DEF rows, control, history
<1>1. ASSUME NEW g \in Handler, Connect(g)
      PROVE  \/ call'[h] = call[h]
             \/ \E d \in Device, n \in Node, k \in Key :
                  /\ Connects(h, d, n, k)
                  /\ call'[h] = [pc |-> "build", dev |-> d, node |-> n, key |-> k, until |-> Expiry, stamp |-> Stamp, rev |-> 0]
  <2>1. PICK d \in Device, n \in Node, k \in Key : Connects(g, d, n, k)
    BY <1>1, ConnectMeans
  <2>2. call' = [call EXCEPT ![g] = [pc |-> "build", dev |-> d, node |-> n, key |-> k, until |-> Expiry, stamp |-> Stamp, rev |-> 0]]
    BY <2>1 DEF Connects
  <2>3. CASE g = h
    <3>1. call'[h] = [pc |-> "build", dev |-> d, node |-> n, key |-> k, until |-> Expiry, stamp |-> Stamp, rev |-> 0]
      BY <2>2, <2>3 DEF TypeOK
    <3> QED
      BY <2>1, <2>3, <3>1
  <2>4. CASE g # h
    BY <2>2, <2>4 DEF TypeOK
  <2> QED
    BY <2>3, <2>4
<1>2. ASSUME NEW g \in Handler, Build(g)
      PROVE  \/ call'[h] = call[h]
             \/ /\ Build(h) /\ call'[h].dev = call[h].dev /\ call'[h].node = call[h].node /\ call'[h].key = call[h].key
                /\ call'[h].until = call[h].until /\ call'[h].stamp = call[h].stamp /\ call'[h].rev = NextRev(call[h].node)
  <2>1. call' = [call EXCEPT ![g] = [call[g] EXCEPT !.pc = "record", !.rev = NextRev(call[g].node)]] /\ call[g].pc = "build"
    BY <1>2 DEF Build
  <2>2. CASE g = h
    <3>1. call[h] \in [pc : {"build", "record"}, dev : Device, node : Node, key : Key, until : Nat \ {0}, stamp : Nat, rev : Nat]
      BY <2>1, <2>2 DEF TypeOK, CallRow, Idle
    <3>2. call'[h] = [call[h] EXCEPT !.pc = "record", !.rev = NextRev(call[h].node)]
      BY <2>1, <2>2 DEF TypeOK
    <3>3. /\ call'[h].dev = call[h].dev /\ call'[h].node = call[h].node /\ call'[h].key = call[h].key
          /\ call'[h].until = call[h].until /\ call'[h].stamp = call[h].stamp /\ call'[h].rev = NextRev(call[h].node)
      BY <3>1, <3>2
    <3> QED
      BY <1>2, <2>2, <3>3
  <2>3. CASE g # h
    BY <2>1, <2>3 DEF TypeOK
  <2> QED
    BY <2>2, <2>3
<1>3. ASSUME NEW g \in Handler, Record(g) \/ Dies(g) PROVE call'[h] = call[h] \/ call'[h] = Idle
  BY <1>3 DEF Record, Dies, TypeOK
<1>4. ASSUME UNCHANGED call PROVE call'[h] = call[h]
  BY <1>4
<1> QED
  BY <1>1, <1>2, <1>3, <1>4 DEF Next, vars, Login, Logout, Challenge, ReadAccount, Disconnect, RevokeDevice, AccountChanges, SignOut,
     AdminRevoke, PauseOrResume, RebuildChanged, Pull, Handle, ExtendOffline, Refuse, Tick

LEMMA StampOfAGoodLease ==
  ASSUME TypeOK, Expiry < AccessUntil
  PROVE  Stamp = connects + 1
<1>1. clock + Ttl \in Nat /\ AccessUntil \in Nat
  BY Numbers DEF TypeOK
<1>2. Expiry \in {clock + Ttl, AccessUntil} /\ Expiry <= clock + Ttl
  BY <1>1, Sooner DEF Expiry
<1> QED
  BY <1>1, <1>2 DEF Stamp

LEMMA StampsDifferStep == TypeOK /\ TypeOK' /\ StampsDiffer /\ [Next]_vars => StampsDiffer'
<1> SUFFICES ASSUME TypeOK, TypeOK', StampsDiffer, [Next]_vars, NEW h \in Handler, call'[h].pc # "idle", call'[h].until < AccessUntil
             PROVE  0 < call'[h].stamp /\ call'[h].stamp <= connects'
  BY DEF StampsDiffer
<1>1. connects \in Nat /\ connects' \in Nat /\ connects <= connects'
  <2>1. connects' = connects \/ connects' = connects + 1
    BY DEF Next, vars, rows, control, history, Login, Logout, Challenge, ReadAccount, Connect, Build, Record, Dies, Disconnect,
       RevokeDevice, AccountChanges, SignOut, AdminRevoke, PauseOrResume, RebuildChanged, Pull, Handle, ExtendOffline, Refuse, Tick
  <2> QED
    BY <2>1 DEF TypeOK
<1>2. CASE call'[h] = call[h] \/ (Build(h) /\ call'[h].until = call[h].until /\ call'[h].stamp = call[h].stamp)
  <2>1. call[h].pc # "idle" /\ call'[h].until = call[h].until /\ call'[h].stamp = call[h].stamp
    BY <1>2 DEF Build
  <2>2. 0 < call[h].stamp /\ call[h].stamp <= connects
    BY <2>1 DEF StampsDiffer
  <2>3. call[h].stamp \in Nat
    BY DEF TypeOK, CallRow, Idle
  <2> QED
    BY <1>1, <2>1, <2>2, <2>3
<1>3. CASE call'[h] = Idle
  BY <1>3 DEF Idle
<1>4. ASSUME NEW d \in Device, NEW n \in Node, NEW k \in Key, Connects(h, d, n, k),
             call'[h] = [pc |-> "build", dev |-> d, node |-> n, key |-> k, until |-> Expiry, stamp |-> Stamp, rev |-> 0]
      PROVE  0 < call'[h].stamp /\ call'[h].stamp <= connects'
  <2>1. call'[h].stamp = connects + 1 /\ connects' = connects + 1
    BY <1>4, StampOfAGoodLease DEF Connects
  <2> QED
    BY <1>1, <2>1
<1> QED
  BY <1>2, <1>3, <1>4, CallBefore

LEMMA RecordsAreBuilt ==
  ASSUME TypeOK, TypeOK', [Next]_vars, NEW h \in Handler, call'[h].pc = "record"
  PROVE  /\ call'[h].dev \in Device /\ call'[h].node \in Node /\ call'[h].rev \in Nat
         /\ \/ call'[h] = call[h]
            \/ Build(h) /\ call'[h].dev = call[h].dev /\ call'[h].node = call[h].node /\ call'[h].rev = NextRev(call[h].node)
<1>1. call'[h] # Idle
  BY DEF Idle
<1>2. call'[h] \in CallRow
  BY DEF TypeOK
<1>3. call'[h].dev \in Device /\ call'[h].node \in Node /\ call'[h].rev \in Nat
  BY <1>1, <1>2 DEF CallRow
<1>4. ASSUME NEW d \in Device, NEW n \in Node, NEW k \in Key,
             call'[h] = [pc |-> "build", dev |-> d, node |-> n, key |-> k, until |-> Expiry, stamp |-> Stamp, rev |-> 0]
      PROVE  FALSE
  <2>1. call'[h].pc = "build"
    BY <1>4
  <2> QED
    BY <2>1
<1> QED
  BY <1>1, <1>3, <1>4, CallBefore

LEMMA CallsKnowStep ==
  TypeOK /\ TypeOK' /\ StillAllowed /\ OneByOne' /\ StampsDiffer /\ CallsKnow /\ [Next]_vars => CallsKnow'
<1> SUFFICES ASSUME TypeOK, TypeOK', StillAllowed, OneByOne', StampsDiffer, CallsKnow, [Next]_vars, withdrawn' = Never,
                    NEW h \in Handler, call'[h].pc = "record", SameLease(h, lease[call[h].dev][call[h].node])', Good(call[h].dev, call[h].node)'
             PROVE  Bound(call[h].dev, call[h].node, call[h].rev)'
  BY DEF CallsKnow
<1>a. PICK d \in Device, n \in Node, r \in Nat : d = call'[h].dev /\ n = call'[h].node /\ r = call'[h].rev
  BY RecordsAreBuilt
<1>b. /\ lease'[d][n].until = call'[h].until /\ lease'[d][n].stamp = call'[h].stamp /\ lease'[d][n].key = call'[h].key
      /\ Good(d, n)'
  BY <1>a DEF SameLease, Good
<1>c. SUFFICES Bound(d, n, r)'
  BY <1>a DEF Bound
<1>1. withdrawn = Never
  BY LimitHolds
<1>2. Idle.pc = "idle"
  BY DEF Idle
<1>3. CASE call'[h] = call[h]
  <2>1. ASSUME Good(d, n), lease'[d][n].key = lease[d][n].key, lease'[d][n].until = lease[d][n].until, lease'[d][n].stamp = lease[d][n].stamp
        PROVE  Bound(d, n, r)'
    <3>1. SameLease(h, lease[d][n])
      BY <1>3, <1>b, <2>1 DEF SameLease
    <3>2. Bound(d, n, r)
      BY <1>1, <1>3, <1>a, <2>1, <3>1 DEF CallsKnow
    <3> QED
      BY <1>1, <2>1, <3>2, BoundKept
  <2>2. ASSUME NEW g \in Handler, NEW k \in Key, Connects(g, d, n, k) PROVE FALSE
    <3>1. lease'[d][n] = [key |-> k, addr |-> IF lease[d][n] = NoLease THEN Min(FreeAddresses(n)) ELSE lease[d][n].addr,
                          until |-> Expiry, stamp |-> Stamp, req |-> 0]
      BY <2>2, ConnectedRows
    <3>2. lease'[d][n].until = Expiry /\ lease'[d][n].stamp = Stamp
      BY <3>1
    <3>3. Expiry < AccessUntil
      BY <1>b, <3>2 DEF Good
    <3>4. call[h].stamp = connects + 1 /\ call[h].until < AccessUntil
      BY <1>3, <1>b, <3>2, <3>3, StampOfAGoodLease
    <3>5. call[h].stamp <= connects /\ connects \in Nat
      BY <1>2, <1>3, <3>4 DEF StampsDiffer, TypeOK
    <3> QED
      BY <3>4, <3>5
  <2> QED
    BY <1>b, <2>1, <2>2, GoodBefore
<1>4. CASE Build(h) /\ call'[h].dev = call[h].dev /\ call'[h].node = call[h].node /\ call'[h].rev = NextRev(call[h].node)
  <2>1. Rebuild(n) /\ UNCHANGED <<lease, clock, enrolled>> /\ r = NextRev(n)
    BY <1>4, <1>a DEF Build, rows
  <2>2. Good(d, n)
    BY <1>b, <2>1 DEF Good
  <2>3. lease'[d][n].key \in Keys(LeasePeers(n))
    BY <1>1, <2>1, <2>2, GoodIsPeer
  <2>4. desired'[n].rev = r /\ desired'[n].peers = LeasePeers(n)
    BY <2>1, RebuiltRevision
  <2>5. /\ desired'[n].rev >= 1 /\ queue'[n].rev <= desired'[n].rev /\ answer'[n].task.rev <= desired'[n].rev /\ observed'[n] <= desired'[n].rev
        /\ queue'[n].rev = desired'[n].rev => Keys(queue'[n].peers) = Keys(desired'[n].peers)
        /\ answer'[n].task.rev = desired'[n].rev => Keys(answer'[n].task.peers) = Keys(desired'[n].peers)
        /\ observed'[n] = desired'[n].rev => agent'[n].keys = Keys(desired'[n].peers)
    BY DEF OneByOne, Keys
  <2>6. queue'[n].rev \in Nat /\ answer'[n].task.rev \in Nat /\ observed'[n] \in Nat
    BY DEF TypeOK, Payload, AnswerRow
  <2>7. /\ 1 <= r /\ r <= desired'[n].rev
        /\ queue'[n].rev >= r => lease'[d][n].key \in Keys(queue'[n].peers)
        /\ answer'[n].task.rev >= r => lease'[d][n].key \in Keys(answer'[n].task.peers)
        /\ observed'[n] >= r => lease'[d][n].key \in agent'[n].keys
    BY <2>3, <2>4, <2>5, <2>6
  <2> QED
    BY <2>7 DEF Bound, Keys
<1>5. call'[h] = call[h] \/ (Build(h) /\ call'[h].dev = call[h].dev /\ call'[h].node = call[h].node /\ call'[h].rev = NextRev(call[h].node))
  BY RecordsAreBuilt
<1> QED
  BY <1>3, <1>4, <1>5

LEMMA ReadyKnownStep ==
  TypeOK /\ TypeOK' /\ StillAllowed /\ CallsKnow /\ ReadyKnown /\ [Next]_vars => ReadyKnown'
<1> SUFFICES ASSUME TypeOK, TypeOK', StillAllowed, CallsKnow, ReadyKnown, [Next]_vars, withdrawn' = Never,
                    NEW d \in Device, NEW n \in Node, lease'[d][n].req # 0, Good(d, n)'
             PROVE  Bound(d, n, lease[d][n].req)'
  BY DEF ReadyKnown
<1>a. PICK r \in Nat : r = lease'[d][n].req
  BY DEF TypeOK, LeaseRow
<1>b. SUFFICES Bound(d, n, r)'
  BY <1>a DEF Bound
<1>1. withdrawn = Never
  BY LimitHolds
<1>2. ASSUME Good(d, n), lease'[d][n] = lease[d][n] PROVE Bound(d, n, r)'
  BY <1>1, <1>2, <1>a, BoundKept DEF ReadyKnown
<1>3. ASSUME Good(d, n), lease'[d][n].key = lease[d][n].key, NEW h \in Handler, call[h].pc = "record", call[h].dev = d, call[h].node = n,
             SameLease(h, lease[d][n]), r = call[h].rev
      PROVE  Bound(d, n, r)'
  <2>1. Bound(d, n, r)
    BY <1>1, <1>3 DEF CallsKnow
  <2> QED
    BY <1>1, <1>3, <2>1, BoundKept
<1>4. ASSUME NEW h \in Handler, NEW k \in Key, Connects(h, d, n, k) PROVE FALSE
  <2>1. lease'[d][n] = [key |-> k, addr |-> IF lease[d][n] = NoLease THEN Min(FreeAddresses(n)) ELSE lease[d][n].addr,
                        until |-> Expiry, stamp |-> Stamp, req |-> 0]
    BY <1>4, ConnectedRows
  <2> QED
    BY <2>1
<1> QED
  BY <1>2, <1>3, <1>4, <1>a, GoodBefore

(* A device is told "ready" only when its node was given the key of its lease: the revision recorded with a lease, and *)
(* every later one, names that key, and a connect that another one overtook records nothing (nativeConnect,            *)
(* bindLeaseRevision).                                                                                                 *)
THEOREM ReadyMeansGiven == Spec => []ReadyIsBound
<1> DEFINE Inv == StillAllowed /\ NewcomersLast /\ OneByOne /\ StampsDiffer /\ CallsKnow /\ ReadyKnown
<1>1. Init => Inv
  <2> SUFFICES ASSUME Init PROVE Inv
    OBVIOUS
  <2>1. StillAllowed /\ NewcomersLast
    BY DEF Init, StillAllowed, NewcomersLast
  <2>2. OneByOne
    BY DEF Init, OneByOne, NoTask, NoAnswer, Keys
  <2>3. StampsDiffer /\ CallsKnow /\ ReadyKnown
    BY DEF Init, StampsDiffer, CallsKnow, ReadyKnown, Idle, NoLease
  <2> QED
    BY <2>1, <2>2, <2>3
<1>2. TypeOK /\ TypeOK' /\ Inv /\ [Next]_vars => Inv'
  BY StillAllowedStep, NewcomersLastStep, OneByOneStep, StampsDifferStep, CallsKnowStep, ReadyKnownStep
<1>3. TypeOK /\ Inv => ReadyIsBound
  <2> SUFFICES ASSUME TypeOK, ReadyKnown, NEW d \in Device, NEW n \in Node, StatusReady(d, n), withdrawn = Never, lease[d][n].until < AccessUntil
               PROVE  lease[d][n].key \in agent[n].keys
    BY DEF ReadyIsBound
  <2>1. Good(d, n) /\ lease[d][n].req # 0 /\ observed[n] >= lease[d][n].req
    BY DEF StatusReady, LiveLease, Good
  <2>2. Bound(d, n, lease[d][n].req)
    BY <2>1 DEF ReadyKnown
  <2> QED
    BY <2>1, <2>2 DEF Bound
<1> HIDE DEF Inv
<1> QED
  BY <1>1, <1>2, <1>3, NativeTyped, PTL DEF Spec
=============================================================================
