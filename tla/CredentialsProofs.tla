-------------------------- MODULE CredentialsProofs --------------------------
(***************************************************************************)
(* Proofs about Credentials for any number of credentials, addresses,      *)
(* requests and devices a plan allows.                                     *)
(***************************************************************************)
EXTENDS Credentials, SequenceTheorems, WellFoundedInduction, TLAPS

(* A set of numbers has a least member. *)
LEMMA LeastMember ==
    ASSUME NEW S \in SUBSET Nat, S # {}
    PROVE  \E x \in S : \A y \in S : x <= y
<1>1. PICK x \in S : \A y \in S : ~(<<y, x>> \in OpToRel(<, Nat))
  BY WFMin, NatLessThanWellFounded
<1>2. \A y \in S : x <= y
  <2>1. SUFFICES ASSUME NEW y \in S, y < x PROVE FALSE
    OBVIOUS
  <2>2. <<y, x>> \in OpToRel(<, Nat)
    BY <2>1 DEF OpToRel
  <2> QED
    BY <1>1, <2>2
<1> QED
  BY <1>2

LEMMA Numbers == Creds \in SUBSET Nat /\ Addresses \in SUBSET Nat /\ None \notin Creds /\ None \notin Addresses /\ DeviceLimit \in Nat
BY CredentialsAssumption DEF None

-----------------------------------------------------------------------------
(* Types, of everything the proofs look at. *)

Peers == [Creds -> Addresses \union {None}]
Revision == [revision : Nat, peers : Peers]
CredRow == [status : {"none", "active", "revoked", "expired"}, user : BOOLEAN, admin : BOOLEAN]
LeaseRow == [holder : Creds \union {None}, held : BOOLEAN]
ProfileRow == [status : {"none", "issued", "active", "revoked", "expired"}, address : Addresses \union {None}, included : Nat]
Asked == {"config", "download"}

Creating == [at : {"create"}, op : {"subscription", "config"}]
Issuing == [at : {"issue", "lookup", "reuse", "activate", "build"}, op : Asked, cred : Creds]
Addressing == [at : {"reactivate", "save"}, op : Asked, cred : Creds, address : Addresses]
Inserting == [at : {"insert"}, op : Asked, cred : Creds, tried : SUBSET Addresses]
Answering == [at : {"desired", "serve"}, op : {"download"}, cred : Creds]
Comparing == [at : {"observed"}, op : {"download"}, cred : Creds, member : BOOLEAN, revision : Nat]
Managing == [at : {"manage"}, op : {"manage"}, cred : (SUBSET Creds) \ {{}}, action : {"enable", "disable", "revoke"}, admin : BOOLEAN]
RequestState == {Idle} \union Creating \union Issuing \union Addressing \union Inserting \union Answering \union Comparing \union Managing

Typed ==
    /\ cred \in [Creds -> CredRow]
    /\ account \in Nat
    /\ lease \in [Addresses -> LeaseRow]
    /\ profile \in [Creds -> ProfileRow]
    /\ desired \in Revision
    /\ tasks \in Seq(Revision)
    /\ running \in Peers
    /\ observed \in Nat
    /\ request \in [Requests -> RequestState]
    /\ dropped \subseteq Creds

LEMMA TypedInit == Init => Typed
<1> SUFFICES ASSUME Init PROVE Typed
  OBVIOUS
<1>1. NoPeers \in Peers /\ NoProfile \in ProfileRow /\ NoLease \in LeaseRow /\ Idle \in RequestState
  BY DEF NoPeers, Peers, NoProfile, ProfileRow, NoLease, LeaseRow, RequestState, NeverIncluded, None
<1>2. \A c \in Creds : [status |-> IF c = First THEN "active" ELSE "none", user |-> FALSE, admin |-> FALSE] \in CredRow
  BY DEF CredRow
<1>3. cred \in [Creds -> CredRow]
  BY <1>2 DEF Init
<1>4. desired \in Revision /\ tasks \in Seq(Revision)
  BY <1>1 DEF Init, Revision
<1> QED
  BY <1>1, <1>3, <1>4, Numbers DEF Init, Typed

(* What a request carries, by where it is. *)
LEMMA RequestRows ==
    ASSUME Typed, NEW r \in Requests
    PROVE  /\ request[r].at = "create" => request[r] \in Creating
           /\ request[r].at \in {"issue", "lookup", "reuse", "activate", "build"} => request[r] \in Issuing
           /\ request[r].at \in {"reactivate", "save"} => request[r] \in Addressing
           /\ request[r].at = "insert" => request[r] \in Inserting
           /\ request[r].at \in {"desired", "serve"} => request[r] \in Answering
           /\ request[r].at = "observed" => request[r] \in Comparing
           /\ request[r].at = "manage" => request[r] \in Managing
<1>1. request[r] \in RequestState
  BY DEF Typed
<1> QED
  BY <1>1 DEF RequestState, Idle, Creating, Issuing, Addressing, Inserting, Answering, Comparing, Managing

LEMMA MovesTyped ==
    ASSUME Typed, NEW r \in Requests, NEW state \in RequestState, Go(r, state)
    PROVE  request' \in [Requests -> RequestState]
BY DEF Typed, Go

LEMMA EndsTyped ==
    ASSUME Typed, NEW r \in Requests, Done(r)
    PROVE  request' \in [Requests -> RequestState]
<1>1. Idle \in RequestState
  BY DEF RequestState
<1> QED
  BY <1>1, MovesTyped DEF Done

(* Giving up either ends the request or turns it into a revocation of its credential. *)
LEMMA GiveUpTyped ==
    ASSUME Typed, NEW r \in Requests, GiveUp(r), request[r].op \in Asked, request[r].cred \in Creds
    PROVE  request' \in [Requests -> RequestState]
<1>1. CASE request[r].op = "download"
  BY <1>1, EndsTyped DEF GiveUp
<1>2. CASE request[r].op # "download"
  <2>1. {request[r].cred} \in (SUBSET Creds) \ {{}}
    OBVIOUS
  <2>2. [at |-> "manage", op |-> "manage", cred |-> {request[r].cred}, action |-> "revoke", admin |-> FALSE] \in RequestState
    BY <2>1 DEF RequestState, Managing
  <2> QED
    BY <1>2, <2>2, MovesTyped DEF GiveUp
<1> QED
  BY <1>1, <1>2

(* A build lists a credential that may connect, under an address it holds a row for. *)
LEMMA PeersOfABuild ==
    ASSUME Typed
    PROVE  /\ ActivePeers \in Peers
           /\ \A c \in Creds : ActivePeers[c] # None =>
                 Usable(c) /\ profile[c].status = "active" /\ ActivePeers[c] \in RowOf(c)
<1>1. ASSUME NEW c \in Creds
      PROVE  /\ ActivePeers[c] \in Addresses \union {None}
             /\ ActivePeers[c] # None => Usable(c) /\ profile[c].status = "active" /\ ActivePeers[c] \in RowOf(c)
  <2>1. CASE Usable(c) /\ profile[c].status = "active" /\ \E a \in RowOf(c) : lease[a].held
    <3>1. (CHOOSE a \in RowOf(c) : TRUE) \in RowOf(c)
      BY <2>1
    <3>2. ActivePeers[c] = CHOOSE a \in RowOf(c) : TRUE
      BY <2>1 DEF ActivePeers
    <3> QED
      BY <2>1, <3>1, <3>2 DEF RowOf
  <2>2. CASE ~(Usable(c) /\ profile[c].status = "active" /\ \E a \in RowOf(c) : lease[a].held)
    <3>1. ActivePeers[c] = None
      BY <2>2 DEF ActivePeers
    <3> QED
      BY <3>1
  <2> QED
    BY <2>1, <2>2
<1>2. ActivePeers = [c \in Creds |-> ActivePeers[c]]
  BY DEF ActivePeers
<1> QED
  BY <1>1, <1>2 DEF Peers

LEMMA BuildTyped ==
    ASSUME Typed, Build
    PROVE  desired' \in Revision /\ tasks' \in Seq(Revision) /\ dropped' \subseteq Creds
<1>1. CASE desired.peers = ActivePeers
  BY <1>1 DEF Build, Typed
<1>2. CASE desired.peers # ActivePeers
  <2>1. [revision |-> desired.revision + 1, peers |-> ActivePeers] \in Revision
    BY PeersOfABuild DEF Typed, Revision
  <2>2. desired' = [revision |-> desired.revision + 1, peers |-> ActivePeers] /\ tasks' = Append(tasks, desired')
        /\ dropped' = dropped \cup {c \in Creds : desired.peers[c] # None /\ ActivePeers[c] = None}
    BY <1>2 DEF Build
  <2> QED
    BY <2>1, <2>2 DEF Typed
<1> QED
  BY <1>1, <1>2

LEMMA ChangeTyped ==
    ASSUME Typed, NEW c \in Creds, NEW action \in {"enable", "disable", "revoke"}, NEW admin \in BOOLEAN, ChangeOne(c, action, admin)
    PROVE  cred' \in [Creds -> CredRow] /\ profile' \in [Creds -> ProfileRow] /\ lease' \in [Addresses -> LeaseRow]
<1>0. cred \in [Creds -> CredRow] /\ profile \in [Creds -> ProfileRow] /\ lease \in [Addresses -> LeaseRow]
  BY DEF Typed
<1>1. CASE action = "revoke"
  <2>1. cred' = [cred EXCEPT ![c] = [cred[c] EXCEPT !.status = "revoked"]]
    BY <1>1 DEF ChangeOne
  <2>2. [cred[c] EXCEPT !.status = "revoked"] \in CredRow
    BY <1>0 DEF CredRow
  <2>3. PICK status \in {"none", "issued", "active", "revoked", "expired"} :
           profile' = [profile EXCEPT ![c] = [profile[c] EXCEPT !.status = status]]
    <3>1. (IF profile[c].status \in {"issued", "active"} THEN "revoked" ELSE profile[c].status)
             \in {"none", "issued", "active", "revoked", "expired"}
      BY <1>0 DEF ProfileRow
    <3>2. profile' = [profile EXCEPT ![c] = [profile[c] EXCEPT
             !.status = IF profile[c].status \in {"issued", "active"} THEN "revoked" ELSE profile[c].status]]
      BY <1>1 DEF ChangeOne
    <3> QED
      BY <3>1, <3>2
  <2>4. [profile[c] EXCEPT !.status = status] \in ProfileRow
    BY <1>0, <2>3 DEF ProfileRow
  <2>5. \A a \in Addresses : (IF lease[a].holder = c THEN [lease[a] EXCEPT !.held = FALSE] ELSE lease[a]) \in LeaseRow
    BY <1>0 DEF LeaseRow
  <2>6. lease' \in [Addresses -> LeaseRow]
    BY <1>1, <2>5 DEF ChangeOne, Released
  <2> QED
    BY <1>0, <2>1, <2>2, <2>3, <2>4, <2>6
<1>2. CASE action # "revoke"
  <2>1. PICK row : row = (IF cred[c].status = "active" THEN Switched(c, action, admin) ELSE cred[c]) /\ cred' = [cred EXCEPT ![c] = row]
    BY <1>2 DEF ChangeOne
  <2>2. (action = "disable") \in BOOLEAN /\ cred[c] \in CredRow
    BY <1>0
  <2>3. Switched(c, action, admin) \in CredRow
    <3>1. \A b \in BOOLEAN : [cred[c] EXCEPT !.admin = b] \in CredRow /\ [cred[c] EXCEPT !.user = b] \in CredRow
      BY <2>2 DEF CredRow
    <3> QED
      BY <2>2, <3>1 DEF Switched
  <2>4. row \in CredRow
    BY <2>1, <2>2, <2>3
  <2> QED
    BY <1>0, <1>2, <2>1, <2>4 DEF ChangeOne
<1> QED
  BY <1>1, <1>2

(* A page's changes come one by one: one credential now, the rest of them later. *)
OneOf(r, ids, c, action, admin) ==
    /\ ChangeOne(c, action, admin)
    /\ \/ Go(r, Idle)
       \/ ids \ {c} # {} /\ Go(r, [at |-> "manage", op |-> "manage", cred |-> ids \ {c}, action |-> action, admin |-> admin])

LEMMA ChangesComeSingly ==
    ASSUME Typed, NEW r \in Requests, NEW ids \in SUBSET Creds, ids # {}, NEW action \in {"enable", "disable", "revoke"},
           NEW admin \in BOOLEAN, Change(r, ids, action, admin)
    PROVE  \E c \in ids : OneOf(r, ids, c, action, admin)
<1>1. \E d \in ids : \A e \in ids : d <= e
  <2>1. ids \in SUBSET Nat
    BY Numbers
  <2> QED
    BY <2>1, LeastMember
<1>2. PICK c : c = CHOOSE d \in ids : \A e \in ids : d <= e
  OBVIOUS
<1>3. c \in ids
  BY <1>1, <1>2
<1>4. ChangeOne(c, action, admin) /\ Go(r, IF ids = {c} THEN Idle
                ELSE [at |-> "manage", op |-> "manage", cred |-> ids \ {c}, action |-> action, admin |-> admin])
  BY <1>2 DEF Change
<1>5. ids # {c} => ids \ {c} # {}
  BY <1>3
<1> QED
  BY <1>3, <1>4, <1>5 DEF OneOf

LEMMA PageTyped ==
    ASSUME Typed, NEW r \in Requests, NEW ids \in SUBSET Creds, ids # {}, NEW action \in {"enable", "disable", "revoke"},
           NEW admin \in BOOLEAN, Change(r, ids, action, admin)
    PROVE  Typed'
<1>1. PICK c \in ids : OneOf(r, ids, c, action, admin)
  BY ChangesComeSingly
<1>2. cred' \in [Creds -> CredRow] /\ profile' \in [Creds -> ProfileRow] /\ lease' \in [Addresses -> LeaseRow]
  <2>1. c \in Creds
    OBVIOUS
  <2> QED
    BY <1>1, <2>1, ChangeTyped DEF OneOf
<1>3. request' \in [Requests -> RequestState]
  <2>1. Idle \in RequestState
    BY DEF RequestState
  <2>2. ids \ {c} # {} =>
           [at |-> "manage", op |-> "manage", cred |-> ids \ {c}, action |-> action, admin |-> admin] \in RequestState
    BY DEF RequestState, Managing
  <2> QED
    BY <1>1, <2>1, <2>2, MovesTyped DEF OneOf
<1>4. NodeUnchanged /\ UNCHANGED account
  BY DEF Change
<1> QED
  BY <1>2, <1>3, <1>4 DEF Typed, NodeUnchanged

(* What the three steps that look for an address can do. *)
At(r, place, a) == [at |-> place, op |-> request[r].op, cred |-> request[r].cred, address |-> a]
Takes(r, a) == lease' = [lease EXCEPT ![a] = [holder |-> request[r].cred, held |-> TRUE]] /\ Go(r, At(r, "save", a))

LEMMA LookupFinds ==
    ASSUME Typed, NEW r \in Requests, Lookup(r)
    PROVE  \/ RowOf(request[r].cred) = {} /\ Go(r, [request[r] EXCEPT !.at = "reuse"])
           \/ \E a \in RowOf(request[r].cred) : Go(r, At(r, IF lease[a].held THEN "save" ELSE "reactivate", a))
<1>1. CASE RowOf(request[r].cred) = {}
  BY <1>1 DEF Lookup
<1>2. CASE RowOf(request[r].cred) # {}
  <2>1. PICK a : a = CHOOSE x \in RowOf(request[r].cred) : TRUE
    OBVIOUS
  <2>2. a \in RowOf(request[r].cred)
    BY <1>2, <2>1
  <2>3. Go(r, [op |-> request[r].op, cred |-> request[r].cred, address |-> a, at |-> IF lease[a].held THEN "save" ELSE "reactivate"])
    BY <1>2, <2>1 DEF Lookup
  <2>4. [op |-> request[r].op, cred |-> request[r].cred, address |-> a, at |-> IF lease[a].held THEN "save" ELSE "reactivate"]
          = At(r, IF lease[a].held THEN "save" ELSE "reactivate", a)
    BY DEF At
  <2> QED
    BY <2>2, <2>3, <2>4
<1> QED
  BY <1>1, <1>2

LEMMA ReuseTakes ==
    ASSUME Typed, NEW r \in Requests, Reuse(r)
    PROVE  \/ lease' = lease /\ GiveUp(r)
           \/ \E tried \in SUBSET Addresses :
                lease' = lease /\ Go(r, [at |-> "insert", op |-> request[r].op, cred |-> request[r].cred, tried |-> tried])
           \/ \E a \in Addresses : lease[a].holder # None /\ ~lease[a].held /\ RowOf(request[r].cred) = {} /\ Takes(r, a)
<1>1. CASE Reusable = {}
  <2>1. {a \in Addresses : lease[a].holder # None} \in SUBSET Addresses
    OBVIOUS
  <2> QED
    BY <1>1, <2>1 DEF Reuse
<1>2. CASE Reusable # {}
  BY <1>2 DEF Reuse, Takes, At, Reusable
<1> QED
  BY <1>1, <1>2

LEMMA InsertTakes ==
    ASSUME Typed, NEW r \in Requests, Insert(r)
    PROVE  \/ lease' = lease /\ GiveUp(r)
           \/ \E a \in Addresses : lease' = lease /\ Go(r, [request[r] EXCEPT !.tried = request[r].tried \cup {a}])
           \/ \E a \in Addresses : lease[a].holder = None /\ RowOf(request[r].cred) = {} /\ Takes(r, a)
<1>1. PICK left : left = Addresses \ request[r].tried
  OBVIOUS
<1>2. PICK a : a = CHOOSE x \in left : \A y \in left : x <= y
  OBVIOUS
<1>3. IF left = {} THEN GiveUp(r) /\ lease' = lease
      ELSE IF lease[a].holder = None /\ RowOf(request[r].cred) = {}
      THEN /\ lease' = [lease EXCEPT ![a] = [holder |-> request[r].cred, held |-> TRUE]]
           /\ Go(r, [at |-> "save", op |-> request[r].op, cred |-> request[r].cred, address |-> a])
      ELSE Go(r, [request[r] EXCEPT !.tried = request[r].tried \cup {a}]) /\ lease' = lease
  BY <1>1, <1>2 DEF Insert
<1>4. left # {} => a \in Addresses
  <2>1. left # {} => \E x \in left : \A y \in left : x <= y
    <3>1. left \in SUBSET Nat
      BY <1>1, Numbers
    <3> QED
      BY <3>1, LeastMember
  <2> QED
    BY <1>1, <1>2, <2>1
<1> QED
  BY <1>3, <1>4 DEF Takes, At

LEMMA TakesTyped ==
    ASSUME Typed, NEW r \in Requests, NEW a \in Addresses, Takes(r, a), request[r].op \in Asked, request[r].cred \in Creds
    PROVE  lease' \in [Addresses -> LeaseRow] /\ request' \in [Requests -> RequestState]
<1>1. At(r, "save", a) \in RequestState
  BY DEF At, RequestState, Addressing
<1>2. [holder |-> request[r].cred, held |-> TRUE] \in LeaseRow
  BY DEF LeaseRow
<1> QED
  BY <1>1, <1>2, MovesTyped DEF Takes, Typed

LEMMA AskingTyped ==
    ASSUME Typed, NEW r \in Requests, request[r] \in Issuing, NEW at \in {"issue", "lookup", "reuse", "activate", "build"}
    PROVE  [request[r] EXCEPT !.at = at] \in RequestState
<1>1. [request[r] EXCEPT !.at = at] \in Issuing
  BY DEF Issuing
<1> QED
  BY <1>1 DEF RequestState

LEMMA CreateAdds ==
    ASSUME Typed, NEW r \in Requests, Create(r)
    PROVE  \/ Done(r) /\ cred' = cred
           \/ \E c \in Creds :
                /\ cred[c].status = "none" /\ cred' = [cred EXCEPT ![c].status = "active"]
                /\ Done(r) \/ Go(r, [at |-> "issue", op |-> "config", cred |-> c])
<1>1. CASE \E d \in Creds : cred[d].status = "none"
  <2>1. PICK c : c = CHOOSE d \in Creds : cred[d].status = "none" /\ \A e \in Creds : cred[e].status = "none" => d <= e
    OBVIOUS
  <2>2. \E d \in Creds : cred[d].status = "none" /\ \A e \in Creds : cred[e].status = "none" => d <= e
    <3>1. {d \in Creds : cred[d].status = "none"} \in SUBSET Nat /\ {d \in Creds : cred[d].status = "none"} # {}
      BY <1>1, Numbers
    <3>2. PICK x \in {d \in Creds : cred[d].status = "none"} : \A y \in {d \in Creds : cred[d].status = "none"} : x <= y
      BY <3>1, LeastMember
    <3> QED
      BY <3>2
  <2>3. c \in Creds /\ cred[c].status = "none"
    BY <2>1, <2>2
  <2>4. cred' = [cred EXCEPT ![c].status = "active"] /\ (Done(r) \/ Go(r, [at |-> "issue", op |-> "config", cred |-> c]))
    BY <1>1, <2>1 DEF Create
  <2> QED
    BY <2>3, <2>4
<1>2. CASE ~\E d \in Creds : cred[d].status = "none"
  BY <1>2 DEF Create
<1> QED
  BY <1>1, <1>2

LEMMA CreationTyped ==
    ASSUME Typed, NEW r \in Requests
    PROVE  /\ \A op \in {"subscription", "config"} : StartCreate(r, op) => Typed'
           /\ Create(r) => Typed'
           /\ \A c \in Creds : Download(r, c) => Typed'
<1>0. cred \in [Creds -> CredRow]
  BY DEF Typed
<1>1. ASSUME NEW op \in {"subscription", "config"}, StartCreate(r, op) PROVE Typed'
  <2>1. [at |-> "create", op |-> op] \in RequestState
    BY DEF RequestState, Creating
  <2>2. request' \in [Requests -> RequestState]
    BY <1>1, <2>1, MovesTyped DEF StartCreate
  <2> QED
    BY <1>1, <2>2 DEF Typed, StartCreate, NodeUnchanged
<1>2. ASSUME Create(r) PROVE Typed'
  <2>1. CASE Done(r) /\ cred' = cred
    <3>1. request' \in [Requests -> RequestState]
      BY <2>1, EndsTyped
    <3> QED
      BY <1>2, <2>1, <3>1 DEF Typed, Create, NodeUnchanged
  <2>2. ASSUME NEW c \in Creds, cred' = [cred EXCEPT ![c].status = "active"],
               Done(r) \/ Go(r, [at |-> "issue", op |-> "config", cred |-> c])
        PROVE  Typed'
    <3>1. [at |-> "issue", op |-> "config", cred |-> c] \in RequestState
      BY DEF RequestState, Issuing, Asked
    <3>2. request' \in [Requests -> RequestState]
      BY <2>2, <3>1, EndsTyped, MovesTyped
    <3>3. [cred[c] EXCEPT !.status = "active"] \in CredRow
      BY <1>0 DEF CredRow
    <3>4. cred' \in [Creds -> CredRow]
      BY <1>0, <2>2, <3>3
    <3> QED
      BY <1>2, <3>2, <3>4 DEF Typed, Create, NodeUnchanged
  <2> QED
    BY <1>2, <2>1, <2>2, CreateAdds
<1>3. ASSUME NEW c \in Creds, Download(r, c) PROVE Typed'
  <2>1. PICK at \in {"activate", "desired", "lookup"} : Go(r, [op |-> "download", cred |-> c, at |-> at])
    BY <1>3 DEF Download
  <2>2. [op |-> "download", cred |-> c, at |-> at] \in RequestState
    BY DEF RequestState, Issuing, Answering, Asked
  <2>3. request' \in [Requests -> RequestState]
    BY <2>1, <2>2, MovesTyped
  <2> QED
    BY <1>3, <2>3 DEF Typed, Download, NodeUnchanged
<1> QED
  BY <1>1, <1>2, <1>3

LEMMA AllocationTyped ==
    ASSUME Typed, NEW r \in Requests, Issue(r) \/ Lookup(r) \/ Reactivate(r) \/ Reuse(r) \/ Insert(r) \/ Save(r)
    PROVE  Typed'
<1>0. lease \in [Addresses -> LeaseRow] /\ profile \in [Creds -> ProfileRow]
  BY DEF Typed
<1>1. CASE Issue(r)
  <2>1. request[r] \in Issuing
    BY <1>1, RequestRows DEF Issue
  <2>2. [request[r] EXCEPT !.at = "lookup"] \in RequestState
    BY <2>1, AskingTyped
  <2>3. request' \in [Requests -> RequestState]
    BY <1>1, <2>1, <2>2, MovesTyped, GiveUpTyped DEF Issue, Issuing
  <2> QED
    BY <1>1, <2>3 DEF Typed, Issue, NodeUnchanged
<1>2. CASE Lookup(r)
  <2>1. request[r] \in Issuing
    BY <1>2, RequestRows DEF Lookup
  <2>2. [request[r] EXCEPT !.at = "reuse"] \in RequestState
    BY <2>1, AskingTyped
  <2>3. \A a \in Addresses : At(r, "save", a) \in RequestState /\ At(r, "reactivate", a) \in RequestState
    BY <2>1 DEF At, RequestState, Addressing, Issuing
  <2>4. request' \in [Requests -> RequestState]
    BY <1>2, <2>2, <2>3, LookupFinds, MovesTyped DEF RowOf
  <2> QED
    BY <1>2, <2>4 DEF Typed, Lookup, NodeUnchanged
<1>3. CASE Reactivate(r)
  <2>1. request[r] \in Addressing
    BY <1>3, RequestRows DEF Reactivate
  <2>2. [request[r] EXCEPT !.at = "save"] \in RequestState
    <3>1. [request[r] EXCEPT !.at = "save"] \in Addressing
      BY <2>1 DEF Addressing
    <3> QED
      BY <3>1 DEF RequestState
  <2>3. request' \in [Requests -> RequestState]
    BY <1>3, <2>2, MovesTyped DEF Reactivate
  <2>4. request[r].address \in Addresses
    BY <2>1 DEF Addressing
  <2>5. [lease[request[r].address] EXCEPT !.held = TRUE] \in LeaseRow
    BY <1>0, <2>4 DEF LeaseRow
  <2>6. lease' \in [Addresses -> LeaseRow]
    BY <1>0, <1>3, <2>4, <2>5 DEF Reactivate
  <2> QED
    BY <1>3, <2>3, <2>6 DEF Typed, Reactivate, NodeUnchanged
<1>4. CASE Reuse(r)
  <2>1. request[r].op \in Asked /\ request[r].cred \in Creds
    BY <1>4, RequestRows DEF Reuse, Issuing
  <2>2. ASSUME NEW tried \in SUBSET Addresses
        PROVE  [at |-> "insert", op |-> request[r].op, cred |-> request[r].cred, tried |-> tried] \in RequestState
    BY <2>1 DEF RequestState, Inserting
  <2>3. lease' \in [Addresses -> LeaseRow] /\ request' \in [Requests -> RequestState]
    <3>1. CASE lease' = lease /\ GiveUp(r)
      BY <1>0, <2>1, <3>1, GiveUpTyped
    <3>2. ASSUME NEW tried \in SUBSET Addresses, lease' = lease,
                 Go(r, [at |-> "insert", op |-> request[r].op, cred |-> request[r].cred, tried |-> tried])
          PROVE  lease' \in [Addresses -> LeaseRow] /\ request' \in [Requests -> RequestState]
      BY <1>0, <2>2, <3>2, MovesTyped
    <3>3. ASSUME NEW a \in Addresses, Takes(r, a)
          PROVE  lease' \in [Addresses -> LeaseRow] /\ request' \in [Requests -> RequestState]
      BY <2>1, <3>3, TakesTyped
    <3> QED
      BY <1>4, <3>1, <3>2, <3>3, ReuseTakes
  <2> QED
    BY <1>4, <2>3 DEF Typed, Reuse, NodeUnchanged
<1>5. CASE Insert(r)
  <2>1. request[r] \in Inserting
    BY <1>5, RequestRows DEF Insert
  <2>2. ASSUME NEW a \in Addresses
        PROVE  [request[r] EXCEPT !.tried = request[r].tried \cup {a}] \in RequestState
    <3>1. request[r].tried \cup {a} \in SUBSET Addresses
      BY <2>1 DEF Inserting
    <3>2. [request[r] EXCEPT !.tried = request[r].tried \cup {a}] \in Inserting
      BY <2>1, <3>1 DEF Inserting
    <3> QED
      BY <3>2 DEF RequestState
  <2>3. lease' \in [Addresses -> LeaseRow] /\ request' \in [Requests -> RequestState]
    <3>1. CASE lease' = lease /\ GiveUp(r)
      BY <1>0, <2>1, <3>1, GiveUpTyped DEF Inserting
    <3>2. ASSUME NEW a \in Addresses, lease' = lease, Go(r, [request[r] EXCEPT !.tried = request[r].tried \cup {a}])
          PROVE  lease' \in [Addresses -> LeaseRow] /\ request' \in [Requests -> RequestState]
      BY <1>0, <2>2, <3>2, MovesTyped
    <3>3. ASSUME NEW a \in Addresses, Takes(r, a)
          PROVE  lease' \in [Addresses -> LeaseRow] /\ request' \in [Requests -> RequestState]
      BY <2>1, <3>3, TakesTyped DEF Inserting
    <3> QED
      BY <1>5, <3>1, <3>2, <3>3, InsertTakes
  <2> QED
    BY <1>5, <2>3 DEF Typed, Insert, NodeUnchanged
<1>6. CASE Save(r)
  <2>1. request[r] \in Addressing
    BY <1>6, RequestRows DEF Save
  <2>2. [at |-> "activate", op |-> request[r].op, cred |-> request[r].cred] \in RequestState
    BY <2>1 DEF RequestState, Issuing, Addressing
  <2>3. request' \in [Requests -> RequestState]
    BY <1>6, <2>2, MovesTyped DEF Save
  <2>4. [status |-> "issued", address |-> request[r].address, included |-> NeverIncluded] \in ProfileRow
    BY <2>1 DEF Addressing, ProfileRow, NeverIncluded
  <2>5. profile' \in [Creds -> ProfileRow]
    BY <1>0, <1>6, <2>4 DEF Save
  <2> QED
    BY <1>6, <2>3, <2>5 DEF Typed, Save, NodeUnchanged
<1> QED
  BY <1>1, <1>2, <1>3, <1>4, <1>5, <1>6

LEMMA ServingTyped ==
    ASSUME Typed, NEW r \in Requests, Activate(r) \/ ActivationBuild(r) \/ ReadDesired(r) \/ CheckObserved(r) \/ Serve(r)
    PROVE  Typed'
<1>0. profile \in [Creds -> ProfileRow] /\ desired \in Revision
  BY DEF Typed
<1>1. CASE Activate(r)
  <2>1. request[r] \in Issuing
    BY <1>1, RequestRows DEF Activate
  <2>2. [at |-> "build", op |-> request[r].op, cred |-> request[r].cred] \in RequestState
    BY <2>1 DEF RequestState, Issuing
  <2>3. request' \in [Requests -> RequestState]
    BY <1>1, <2>2, EndsTyped, MovesTyped DEF Activate
  <2>4. profile' = profile \/ profile' = [profile EXCEPT ![request[r].cred] = [profile[request[r].cred] EXCEPT !.status = "active"]]
    BY <1>1 DEF Activate
  <2>5. request[r].cred \in Creds
    BY <2>1 DEF Issuing
  <2>6. [profile[request[r].cred] EXCEPT !.status = "active"] \in ProfileRow
    BY <1>0, <2>5 DEF ProfileRow
  <2>7. profile' \in [Creds -> ProfileRow]
    BY <1>0, <2>4, <2>6
  <2> QED
    BY <1>1, <2>3, <2>7 DEF Typed, Activate, NodeUnchanged
<1>2. CASE ActivationBuild(r)
  <2>1. request[r] \in Issuing
    BY <1>2, RequestRows DEF ActivationBuild
  <2>2. request[r].op = "download" => [request[r] EXCEPT !.at = "desired"] \in RequestState
    <3>1. request[r].op = "download" => [request[r] EXCEPT !.at = "desired"] \in Answering
      BY <2>1 DEF Issuing, Answering
    <3> QED
      BY <3>1 DEF RequestState
  <2>3. request' \in [Requests -> RequestState]
    BY <1>2, <2>2, EndsTyped, MovesTyped DEF ActivationBuild
  <2>4. desired' \in Revision /\ tasks' \in Seq(Revision) /\ dropped' \subseteq Creds
    BY <1>2, BuildTyped DEF ActivationBuild
  <2> QED
    BY <1>2, <2>3, <2>4 DEF Typed, ActivationBuild
<1>3. CASE ReadDesired(r)
  <2>1. request[r] \in Answering
    BY <1>3, RequestRows DEF ReadDesired
  <2>2. (desired.peers[request[r].cred] # None) \in BOOLEAN /\ desired.revision \in Nat
    BY <1>0 DEF Revision
  <2>3. [at |-> "observed", op |-> "download", cred |-> request[r].cred,
         member |-> desired.peers[request[r].cred] # None, revision |-> desired.revision] \in RequestState
    BY <2>1, <2>2 DEF RequestState, Comparing, Answering
  <2>4. request' \in [Requests -> RequestState]
    BY <1>3, <2>3, MovesTyped DEF ReadDesired
  <2> QED
    BY <1>3, <2>4 DEF Typed, ReadDesired, NodeUnchanged
<1>4. CASE CheckObserved(r)
  <2>1. request[r] \in Comparing
    BY <1>4, RequestRows DEF CheckObserved
  <2>2. request[r].cred \in Creds /\ request[r].revision \in Nat
    BY <2>1 DEF Comparing
  <2>3. PICK included \in Nat :
          included = IF request[r].member THEN Included(request[r].cred, request[r].revision) ELSE NeverIncluded
    BY <1>0, <2>2 DEF Included, NeverIncluded, ProfileRow
  <2>4. profile' = [profile EXCEPT ![request[r].cred] = [profile[request[r].cred] EXCEPT !.included = included]]
    BY <1>4, <2>3 DEF CheckObserved
  <2>5. [profile[request[r].cred] EXCEPT !.included = included] \in ProfileRow
    BY <1>0, <2>2 DEF ProfileRow
  <2>6. profile' \in [Creds -> ProfileRow]
    BY <1>0, <2>4, <2>5
  <2>7. [at |-> "serve", op |-> "download", cred |-> request[r].cred] \in RequestState
    BY <2>2 DEF RequestState, Answering
  <2>8. request' \in [Requests -> RequestState]
    BY <1>4, <2>7, EndsTyped, MovesTyped DEF CheckObserved
  <2> QED
    BY <1>4, <2>6, <2>8 DEF Typed, CheckObserved
<1>5. CASE Serve(r)
  <2>1. request' \in [Requests -> RequestState]
    BY <1>5, EndsTyped DEF Serve
  <2> QED
    BY <1>5, <2>1 DEF Typed, Serve, NodeUnchanged
<1> QED
  BY <1>1, <1>2, <1>3, <1>4, <1>5

(* A page opens with one credential or with all it may change. *)
LEMMA PagesOpen ==
    ASSUME Typed, NEW r \in Requests, OwnerManages(r) \/ AdminManages(r) \/ ManageNext(r)
    PROVE  \E ids \in SUBSET Creds, action \in {"enable", "disable", "revoke"}, admin \in BOOLEAN :
              ids # {} /\ Change(r, ids, action, admin)
<1>1. CASE OwnerManages(r)
  BY <1>1 DEF OwnerManages, Manage
<1>2. CASE AdminManages(r)
  BY <1>2 DEF AdminManages, Manage
<1>3. CASE ManageNext(r)
  <2>1. request[r] \in Managing
    BY <1>3, RequestRows DEF ManageNext
  <2> QED
    BY <1>3, <2>1 DEF ManageNext, Managing
<1> QED
  BY <1>1, <1>2, <1>3

LEMMA ExpiryTyped ==
    ASSUME Typed, NEW c \in Creds, Expires(c)
    PROVE  cred' \in [Creds -> CredRow] /\ profile' \in [Creds -> ProfileRow]
<1>0. cred \in [Creds -> CredRow] /\ profile \in [Creds -> ProfileRow]
  BY DEF Typed
<1>1. [cred[c] EXCEPT !.status = "expired"] \in CredRow
  BY <1>0 DEF CredRow
<1>2. cred' \in [Creds -> CredRow]
  BY <1>0, <1>1 DEF Expires
<1>3. PICK status \in {"none", "issued", "active", "revoked", "expired"} :
         status = IF profile[c].status \in {"issued", "active"} THEN "expired" ELSE profile[c].status
  BY <1>0 DEF ProfileRow
<1>4. profile' = [profile EXCEPT ![c] = [profile[c] EXCEPT !.status = status]]
  BY <1>3 DEF Expires
<1>5. [profile[c] EXCEPT !.status = status] \in ProfileRow
  BY <1>0 DEF ProfileRow
<1> QED
  BY <1>0, <1>2, <1>4, <1>5

LEMMA TypedStep == Typed /\ [Next]_vars => Typed'
<1> SUFFICES ASSUME Typed, [Next]_vars PROVE Typed'
  OBVIOUS
<1>1. ASSUME NEW r \in Requests, Proceeds(r) PROVE Typed'
  <2>1. CASE ManageNext(r)
    BY <2>1, PagesOpen, PageTyped
  <2> QED
    BY <1>1, <2>1, CreationTyped, AllocationTyped, ServingTyped DEF Proceeds
<1>2. ASSUME NEW r \in Requests, OwnerManages(r) \/ AdminManages(r) PROVE Typed'
  BY <1>2, PagesOpen, PageTyped
<1>3. CASE AccountChanges
  <2>1. account' \in Nat
    BY <1>3, Numbers DEF AccountChanges
  <2> QED
    BY <1>3, <2>1 DEF Typed, AccountChanges, NodeUnchanged
<1>4. ASSUME NEW c \in Creds, Expires(c) PROVE Typed'
  <2>1. cred' \in [Creds -> CredRow] /\ profile' \in [Creds -> ProfileRow]
    BY <1>4, ExpiryTyped
  <2> QED
    BY <1>4, <2>1 DEF Typed, Expires, NodeUnchanged
<1>5. CASE Rebuild
  <2>1. desired' \in Revision /\ tasks' \in Seq(Revision) /\ dropped' \subseteq Creds
    BY <1>5, BuildTyped DEF Rebuild
  <2> QED
    BY <1>5, <2>1 DEF Typed, Rebuild
<1>6. CASE Apply
  <2>1. Head(tasks) \in Revision /\ Tail(tasks) \in Seq(Revision)
    BY <1>6 DEF Typed, Apply
  <2>2. running' \in Peers /\ observed' \in Nat /\ tasks' \in Seq(Revision)
    BY <1>6, <2>1 DEF Apply, Revision
  <2> QED
    BY <1>6, <2>2 DEF Typed, Apply
<1>7. CASE ControllerRestarts
  <2>1. Idle \in RequestState
    BY DEF RequestState
  <2>2. request' \in [Requests -> RequestState]
    BY <1>7, <2>1 DEF ControllerRestarts
  <2> QED
    BY <1>7, <2>2 DEF Typed, ControllerRestarts, NodeUnchanged
<1>8. CASE UNCHANGED vars
  BY <1>8 DEF Typed, vars
<1> QED
  BY <1>1, <1>2, <1>3, <1>4, <1>5, <1>6, <1>7, <1>8, CreationTyped DEF Next

(* Types hold, whatever interleaves. *)
THEOREM CredentialsTyped == Spec => []Typed
BY TypedInit, TypedStep, PTL DEF Spec

-----------------------------------------------------------------------------
(* AddressIsItsOwn.  A released row is a revoked credential's, and revocation is final; so a row that is reused or     *)
(* brought back was not a working credential's, and what a request has found stays found while its credential works.   *)

Holds(a, c) == lease[a].holder = c /\ lease[a].held

(* Released rows are those of revoked credentials; no credential has two rows (UNIQUE per device and node). *)
ReleasedByRevoked == \A a \in Addresses : lease[a].holder # None /\ ~lease[a].held => cred[lease[a].holder].status = "revoked"
OneRow == \A a, b \in Addresses : lease[a].holder # None /\ lease[a].holder = lease[b].holder => a = b

(* What a request between two statements may rely on. *)
Started(r) == request[r].at \notin {"idle", "create", "manage"}
Knows(r) ==
    /\ Started(r) => cred[request[r].cred].status # "none"
    /\ request[r].at = "save" => (cred[request[r].cred].status = "active" => Holds(request[r].address, request[r].cred))
    /\ request[r].at = "reactivate" => cred[request[r].cred].status = "revoked"
RequestsKnow == \A r \in Requests : Knows(r)

NothingYet == \A c \in Creds : cred[c].status = "none" => profile[c].status = "none"
Given(c) == profile[c].status \in {"issued", "active"}
ProfilesHold ==
    \A c \in Creds : cred[c].status = "active" /\ Given(c) => profile[c].address \in Addresses /\ Holds(profile[c].address, c)

Owned == ReleasedByRevoked /\ OneRow /\ RequestsKnow /\ NothingYet /\ ProfilesHold

(* The life of a credential: nothing, active, expired; and revoked for good from any of them. *)
LEMMA StatusMoves ==
    ASSUME Typed, [Next]_vars, NEW c \in Creds
    PROVE  \/ cred'[c].status = cred[c].status
           \/ cred[c].status = "none" /\ cred'[c].status = "active"
           \/ cred[c].status = "active" /\ cred'[c].status = "expired"
           \/ cred'[c].status = "revoked"
<1> DEFINE Goal == \/ cred'[c].status = cred[c].status
                   \/ cred[c].status = "none" /\ cred'[c].status = "active"
                   \/ cred[c].status = "active" /\ cred'[c].status = "expired"
                   \/ cred'[c].status = "revoked"
<1> SUFFICES Goal
  OBVIOUS
<1>0. cred \in [Creds -> CredRow] /\ \A d \in Creds : cred[d] \in CredRow
  BY DEF Typed
<1>a. ASSUME NEW d \in Creds, NEW status, cred' = [cred EXCEPT ![d].status = status]
      PROVE  cred'[c].status = IF c = d THEN status ELSE cred[c].status
  BY <1>0, <1>a DEF CredRow
<1>1. ASSUME NEW r \in Requests, Create(r) PROVE Goal
  BY <1>1, <1>a, CreateAdds
<1>2. ASSUME NEW r \in Requests, OwnerManages(r) \/ AdminManages(r) \/ ManageNext(r) PROVE Goal
  <2>1. PICK ids \in SUBSET Creds, action \in {"enable", "disable", "revoke"}, admin \in BOOLEAN :
           ids # {} /\ Change(r, ids, action, admin)
    BY <1>2, PagesOpen
  <2>2. PICK d \in ids : OneOf(r, ids, d, action, admin)
    BY <2>1, ChangesComeSingly
  <2>3. CASE action = "revoke"
    BY <1>a, <2>2, <2>3 DEF OneOf, ChangeOne
  <2>4. CASE action # "revoke"
    <3>1. PICK row : row = (IF cred[d].status = "active" THEN Switched(d, action, admin) ELSE cred[d]) /\ cred' = [cred EXCEPT ![d] = row]
      BY <2>2, <2>4 DEF OneOf, ChangeOne
    <3>2. \A b : [cred[d] EXCEPT !.admin = b].status = cred[d].status /\ [cred[d] EXCEPT !.user = b].status = cred[d].status
      BY <1>0 DEF CredRow
    <3>3. row.status = cred[d].status
      BY <3>1, <3>2 DEF Switched
    <3> QED
      BY <1>0, <3>1, <3>3
  <2> QED
    BY <2>3, <2>4
<1>3. ASSUME NEW d \in Creds, Expires(d) PROVE Goal
  BY <1>3, <1>a DEF Expires
<1>4. CASE cred' = cred
  BY <1>4
<1> QED
  BY <1>1, <1>2, <1>3, <1>4 DEF Next, vars, Proceeds, StartCreate, Download, Issue, Lookup, Reactivate, Reuse, Insert, Save, Activate,
     ActivationBuild, ReadDesired, CheckObserved, Serve, AccountChanges, Rebuild, Apply, ControllerRestarts

(* What becomes of the rows of addresses. *)
Returned(a) == lease' = [lease EXCEPT ![a] = [lease[a] EXCEPT !.held = TRUE]]
Taken(a, c) ==
    /\ lease[a].holder = None \/ ~lease[a].held
    /\ RowOf(c) = {} /\ lease' = [lease EXCEPT ![a] = [holder |-> c, held |-> TRUE]]

LEMMA RowsMove ==
    ASSUME Typed, [Next]_vars
    PROVE  \/ lease' = lease
           \/ \E a \in Addresses : Returned(a)
           \/ \E c \in Creds : lease' = Released(c) /\ cred'[c].status = "revoked"
           \/ \E a \in Addresses, c \in Creds : Taken(a, c)
<1> DEFINE Goal == \/ lease' = lease
                   \/ \E a \in Addresses : Returned(a)
                   \/ \E c \in Creds : lease' = Released(c) /\ cred'[c].status = "revoked"
                   \/ \E a \in Addresses, c \in Creds : Taken(a, c)
<1> SUFFICES Goal
  OBVIOUS
<1>0. cred \in [Creds -> CredRow] /\ \A d \in Creds : cred[d] \in CredRow
  BY DEF Typed
<1>1. ASSUME NEW r \in Requests, Reactivate(r) PROVE Goal
  <2>1. request[r].address \in Addresses
    BY <1>1, RequestRows DEF Reactivate, Addressing
  <2> QED
    BY <1>1, <2>1 DEF Reactivate, Returned
<1>2. ASSUME NEW r \in Requests, Reuse(r) PROVE Goal
  <2>1. request[r].cred \in Creds
    BY <1>2, RequestRows DEF Reuse, Issuing
  <2> QED
    BY <1>2, <2>1, ReuseTakes DEF Taken, Takes
<1>3. ASSUME NEW r \in Requests, Insert(r) PROVE Goal
  <2>1. request[r].cred \in Creds
    BY <1>3, RequestRows DEF Insert, Inserting
  <2> QED
    BY <1>3, <2>1, InsertTakes DEF Taken, Takes
<1>4. ASSUME NEW r \in Requests, OwnerManages(r) \/ AdminManages(r) \/ ManageNext(r) PROVE Goal
  <2>1. PICK ids \in SUBSET Creds, action \in {"enable", "disable", "revoke"}, admin \in BOOLEAN :
           ids # {} /\ Change(r, ids, action, admin)
    BY <1>4, PagesOpen
  <2>2. PICK d \in ids : OneOf(r, ids, d, action, admin)
    BY <2>1, ChangesComeSingly
  <2>3. CASE action = "revoke"
    <3>1. lease' = Released(d) /\ cred' = [cred EXCEPT ![d] = [cred[d] EXCEPT !.status = "revoked"]]
      BY <2>2, <2>3 DEF OneOf, ChangeOne
    <3>2. cred'[d].status = "revoked"
      BY <1>0, <3>1 DEF CredRow
    <3> QED
      BY <3>1, <3>2
  <2>4. CASE action # "revoke"
    BY <2>2, <2>4 DEF OneOf, ChangeOne
  <2> QED
    BY <2>3, <2>4
<1>5. CASE lease' = lease
  BY <1>5
<1> QED
  BY <1>1, <1>2, <1>3, <1>4, <1>5 DEF Next, vars, Proceeds, StartCreate, Create, Download, Issue, Lookup, Save, Activate,
     ActivationBuild, ReadDesired, CheckObserved, Serve, AccountChanges, Expires, Rebuild, Apply, ControllerRestarts

LEMMA ReturnedRow ==
    ASSUME Typed, NEW a \in Addresses, Returned(a), NEW b \in Addresses
    PROVE  lease'[b].holder = lease[b].holder /\ lease'[b].held = (b = a \/ lease[b].held)
<1>1. lease[a] \in LeaseRow /\ lease[b] \in LeaseRow /\ lease \in [Addresses -> LeaseRow]
  BY DEF Typed
<1>2. [lease[a] EXCEPT !.held = TRUE].holder = lease[a].holder /\ [lease[a] EXCEPT !.held = TRUE].held = TRUE
  BY <1>1 DEF LeaseRow
<1>3. lease[b].held \in BOOLEAN
  BY <1>1 DEF LeaseRow
<1>4. lease'[b] = IF b = a THEN [lease[a] EXCEPT !.held = TRUE] ELSE lease[b]
  BY <1>1 DEF Returned
<1> QED
  BY <1>2, <1>3, <1>4

LEMMA ReleasedRow ==
    ASSUME Typed, NEW c \in Creds, lease' = Released(c), NEW b \in Addresses
    PROVE  lease'[b].holder = lease[b].holder /\ lease'[b].held = (lease[b].holder # c /\ lease[b].held)
<1>1. lease[b] \in LeaseRow
  BY DEF Typed
<1>2. [lease[b] EXCEPT !.held = FALSE].holder = lease[b].holder /\ [lease[b] EXCEPT !.held = FALSE].held = FALSE
  BY <1>1 DEF LeaseRow
<1>3. lease[b].held \in BOOLEAN
  BY <1>1 DEF LeaseRow
<1>4. lease'[b] = IF lease[b].holder = c THEN [lease[b] EXCEPT !.held = FALSE] ELSE lease[b]
  BY DEF Released
<1> QED
  BY <1>2, <1>3, <1>4

LEMMA TakenRow ==
    ASSUME Typed, NEW a \in Addresses, NEW c \in Creds, Taken(a, c), NEW b \in Addresses
    PROVE  lease'[b] = IF b = a THEN [holder |-> c, held |-> TRUE] ELSE lease[b]
BY DEF Typed, Taken

(* A credential keeps its row while it works. *)
LEMMA HoldsStays ==
    ASSUME Typed, [Next]_vars, NEW a \in Addresses, NEW c \in Creds, Holds(a, c), cred'[c].status = "active"
    PROVE  Holds(a, c)'
<1>0. lease[a].holder = c /\ lease[a].held /\ c # None
  BY Numbers DEF Holds
<1>1. CASE lease' = lease
  BY <1>0, <1>1 DEF Holds
<1>2. ASSUME NEW b \in Addresses, Returned(b) PROVE Holds(a, c)'
  BY <1>0, <1>2, ReturnedRow DEF Holds
<1>3. ASSUME NEW d \in Creds, lease' = Released(d), cred'[d].status = "revoked" PROVE Holds(a, c)'
  <2>1. c # d
    BY <1>3
  <2> QED
    BY <1>0, <1>3, <2>1, ReleasedRow DEF Holds
<1>4. ASSUME NEW b \in Addresses, NEW d \in Creds, Taken(b, d) PROVE Holds(a, c)'
  <2>1. a # b
    BY <1>0, <1>4 DEF Taken
  <2>2. lease'[a] = lease[a]
    BY <1>4, <2>1, TakenRow
  <2> QED
    BY <1>0, <2>2 DEF Holds
<1> QED
  BY <1>1, <1>2, <1>3, <1>4, RowsMove

LEMMA ReleasedStep == Typed /\ ReleasedByRevoked /\ [Next]_vars => ReleasedByRevoked'
<1> SUFFICES ASSUME Typed, ReleasedByRevoked, [Next]_vars, NEW a \in Addresses, lease'[a].holder # None, ~lease'[a].held
             PROVE  cred'[lease'[a].holder].status = "revoked"
  BY DEF ReleasedByRevoked
<1>1. lease[a].holder \in Creds \union {None}
  BY DEF Typed, LeaseRow
<1>2. ASSUME lease'[a].holder = lease[a].holder, ~lease[a].held PROVE cred'[lease'[a].holder].status = "revoked"
  <2>1. lease[a].holder \in Creds /\ cred[lease[a].holder].status = "revoked"
    BY <1>1, <1>2 DEF ReleasedByRevoked
  <2>2. cred'[lease[a].holder].status = "revoked"
    BY <2>1, StatusMoves
  <2> QED
    BY <1>2, <2>2
<1>3. CASE lease' = lease
  BY <1>2, <1>3
<1>4. ASSUME NEW b \in Addresses, Returned(b) PROVE cred'[lease'[a].holder].status = "revoked"
  BY <1>2, <1>4, ReturnedRow
<1>5. ASSUME NEW d \in Creds, lease' = Released(d), cred'[d].status = "revoked" PROVE cred'[lease'[a].holder].status = "revoked"
  <2>1. CASE lease[a].holder = d
    BY <1>5, <2>1, ReleasedRow
  <2>2. CASE lease[a].holder # d
    BY <1>2, <1>5, <2>2, ReleasedRow
  <2> QED
    BY <2>1, <2>2
<1>6. ASSUME NEW b \in Addresses, NEW d \in Creds, Taken(b, d) PROVE cred'[lease'[a].holder].status = "revoked"
  <2>1. lease'[a] = IF a = b THEN [holder |-> d, held |-> TRUE] ELSE lease[a]
    BY <1>6, TakenRow
  <2>2. a # b
    BY <2>1
  <2> QED
    BY <1>2, <2>1, <2>2
<1> QED
  BY <1>3, <1>4, <1>5, <1>6, RowsMove

LEMMA OneRowStep == Typed /\ OneRow /\ [Next]_vars => OneRow'
<1> SUFFICES ASSUME Typed, OneRow, [Next]_vars, NEW a \in Addresses, NEW b \in Addresses,
                    lease'[a].holder # None, lease'[a].holder = lease'[b].holder
             PROVE  a = b
  BY DEF OneRow
<1>1. CASE lease'[a].holder = lease[a].holder /\ lease'[b].holder = lease[b].holder
  BY <1>1 DEF OneRow
<1>2. ASSUME NEW x \in Addresses, NEW d \in Creds, Taken(x, d) PROVE a = b
  <2>1. RowOf(d) = {}
    BY <1>2 DEF Taken
  <2>2. \A y \in Addresses : lease[y].holder # d
    BY <2>1 DEF RowOf
  <2>3. lease'[a] = (IF a = x THEN [holder |-> d, held |-> TRUE] ELSE lease[a])
        /\ lease'[b] = (IF b = x THEN [holder |-> d, held |-> TRUE] ELSE lease[b])
    BY <1>2, TakenRow
  <2> QED
    BY <1>1, <2>2, <2>3
<1>3. CASE lease' = lease
  BY <1>1, <1>3
<1>4. ASSUME NEW x \in Addresses, Returned(x) PROVE a = b
  BY <1>1, <1>4, ReturnedRow
<1>5. ASSUME NEW d \in Creds, lease' = Released(d) PROVE a = b
  BY <1>1, <1>5, ReleasedRow
<1> QED
  BY <1>2, <1>3, <1>4, <1>5, RowsMove

(* A profile is written anew by a request that saves one, or keeps its address and is activated, ends or is compared. *)
Saves(r, c) ==
    /\ Save(r) /\ request[r].cred = c
    /\ profile'[c] = [status |-> "issued", address |-> request[r].address, included |-> NeverIncluded]
Compares(r, c) ==
    /\ CheckObserved(r) /\ request[r].cred = c
    /\ profile'[c].included = IF request[r].member THEN Included(c, request[r].revision) ELSE NeverIncluded
Continues(c) ==
    /\ profile'[c].address = profile[c].address
    /\ \/ profile'[c].status = profile[c].status
       \/ Given(c) /\ profile'[c].status = "active"
       \/ Given(c) /\ profile'[c].status \in {"revoked", "expired"} /\ cred'[c].status # "active"
    /\ profile'[c].included = profile[c].included \/ \E r \in Requests : Compares(r, c)

LEMMA ProfilesMove ==
    ASSUME Typed, [Next]_vars, NEW c \in Creds
    PROVE  Continues(c) \/ \E r \in Requests : Saves(r, c)
<1> DEFINE Goal == Continues(c) \/ \E r \in Requests : Saves(r, c)
<1> SUFFICES Goal
  OBVIOUS
<1>0. profile \in [Creds -> ProfileRow] /\ \A d \in Creds : profile[d] \in ProfileRow
  BY DEF Typed
<1>a. ASSUME NEW d \in Creds, NEW status, profile' = [profile EXCEPT ![d] = [profile[d] EXCEPT !.status = status]],
             \/ profile[d].status \in {"issued", "active"} /\ status = "active"
             \/ profile[d].status \in {"issued", "active"} /\ status \in {"revoked", "expired"} /\ cred'[d].status # "active"
             \/ status = profile[d].status
      PROVE  Goal
  <2>1. /\ [profile[d] EXCEPT !.status = status].status = status
        /\ [profile[d] EXCEPT !.status = status].address = profile[d].address
        /\ [profile[d] EXCEPT !.status = status].included = profile[d].included
    BY <1>0 DEF ProfileRow
  <2>2. profile'[c] = IF c = d THEN [profile[d] EXCEPT !.status = status] ELSE profile[c]
    BY <1>0, <1>a
  <2> QED
    BY <1>a, <2>1, <2>2 DEF Given, Continues
<1>1. ASSUME NEW r \in Requests, Activate(r) PROVE Goal
  <2>1. request[r].cred \in Creds
    BY <1>1, RequestRows DEF Activate, Issuing
  <2>2. CASE profile' = profile
    BY <2>2 DEF Continues
  <2>3. CASE profile' # profile
    <3>1. profile' = [profile EXCEPT ![request[r].cred] = [profile[request[r].cred] EXCEPT !.status = "active"]]
          /\ profile[request[r].cred].status \in {"issued", "active"}
      BY <1>1, <2>3 DEF Activate
    <3> QED
      BY <1>a, <2>1, <3>1
  <2> QED
    BY <2>2, <2>3
<1>2. ASSUME NEW r \in Requests, Save(r) PROVE Goal
  <2>1. request[r].cred \in Creds
    BY <1>2, RequestRows DEF Save, Addressing
  <2>2. profile' = [profile EXCEPT ![request[r].cred] =
                     [status |-> "issued", address |-> request[r].address, included |-> NeverIncluded]]
    BY <1>2 DEF Save
  <2> QED
    BY <1>0, <1>2, <2>1, <2>2 DEF Saves, Continues
<1>3. ASSUME NEW r \in Requests, CheckObserved(r) PROVE Goal
  <2>1. PICK included :
          included = (IF request[r].member THEN Included(request[r].cred, request[r].revision) ELSE NeverIncluded) /\ profile' = [profile EXCEPT ![request[r].cred] = [profile[request[r].cred] EXCEPT !.included = included]]
    BY <1>3 DEF CheckObserved
  <2>2. request[r].cred \in Creds
    BY <1>3, RequestRows DEF CheckObserved, Comparing
  <2>3. profile'[c] = IF request[r].cred = c THEN [profile[c] EXCEPT !.included = included] ELSE profile[c]
    BY <1>0, <2>1, <2>2
  <2>4. [profile[c] EXCEPT !.included = included].status = profile[c].status
        /\ [profile[c] EXCEPT !.included = included].address = profile[c].address
        /\ [profile[c] EXCEPT !.included = included].included = included
    BY <1>0 DEF ProfileRow
  <2>5. request[r].cred = c => Compares(r, c)
    BY <1>3, <2>1, <2>3, <2>4 DEF Compares
  <2> QED
    BY <2>3, <2>4, <2>5 DEF Continues
<1>4. ASSUME NEW r \in Requests, OwnerManages(r) \/ AdminManages(r) \/ ManageNext(r) PROVE Goal
  <2>1. PICK ids \in SUBSET Creds, action \in {"enable", "disable", "revoke"}, admin \in BOOLEAN :
           ids # {} /\ Change(r, ids, action, admin)
    BY <1>4, PagesOpen
  <2>2. PICK d \in ids : OneOf(r, ids, d, action, admin)
    BY <2>1, ChangesComeSingly
  <2>3. CASE action = "revoke"
    <3>1. PICK status : status = (IF profile[d].status \in {"issued", "active"} THEN "revoked" ELSE profile[d].status)
                        /\ profile' = [profile EXCEPT ![d] = [profile[d] EXCEPT !.status = status]]
      BY <2>2, <2>3 DEF OneOf, ChangeOne
    <3>2. cred' = [cred EXCEPT ![d] = [cred[d] EXCEPT !.status = "revoked"]]
      BY <2>2, <2>3 DEF OneOf, ChangeOne
    <3>3. cred'[d].status = "revoked"
      BY <3>2 DEF Typed, CredRow
    <3> QED
      BY <1>a, <3>1, <3>3
  <2>4. CASE action # "revoke"
    BY <2>2, <2>4 DEF OneOf, ChangeOne, Continues
  <2> QED
    BY <2>3, <2>4
<1>5. ASSUME NEW d \in Creds, Expires(d) PROVE Goal
  <2>1. PICK status : status = (IF profile[d].status \in {"issued", "active"} THEN "expired" ELSE profile[d].status)
                      /\ profile' = [profile EXCEPT ![d] = [profile[d] EXCEPT !.status = status]]
    BY <1>5 DEF Expires
  <2>2. cred' = [cred EXCEPT ![d] = [cred[d] EXCEPT !.status = "expired"]]
    BY <1>5 DEF Expires
  <2>3. cred'[d].status = "expired"
    BY <2>2 DEF Typed, CredRow
  <2> QED
    BY <1>a, <2>1, <2>3
<1>6. CASE profile' = profile
  BY <1>6 DEF Continues
<1> QED
  BY <1>1, <1>2, <1>3, <1>4, <1>5, <1>6 DEF Next, vars, Proceeds, StartCreate, Create, Download, Issue, Lookup, Reactivate, Reuse,
     Insert, ActivationBuild, ReadDesired, Serve, AccountChanges, Rebuild, Apply, ControllerRestarts

(* What a step makes of a request, as far as credentials and addresses go. *)
Same(r) == request'[r].cred = request[r].cred
Going(r) ==
    \/ request'[r] = request[r]
    \/ request'[r].at \in {"idle", "create", "manage"}
    \/ /\ request'[r].at \notin {"save", "reactivate"}
       /\ (Started(r) /\ Same(r)) \/ (request'[r].cred \in Creds /\ cred'[request'[r].cred].status # "none")
    \/ /\ request'[r].at = "save" /\ Started(r) /\ Same(r)
       /\ lease'[request'[r].address].holder = request[r].cred /\ lease'[request'[r].address].held
    \/ /\ request'[r].at = "reactivate" /\ Started(r) /\ Same(r)
       /\ cred'[request[r].cred].status = "revoked"
    \/ /\ request'[r].at = "save" /\ request[r].at = "reactivate" /\ Same(r)

LEMMA StartedOnes ==
    ASSUME Typed, NEW r \in Requests, Started(r)
    PROVE  request[r].cred \in Creds /\ request[r].op \in Asked
<1>1. request[r] \in RequestState
  BY DEF Typed
<1> QED
  BY <1>1 DEF Started, RequestState, Idle, Creating, Issuing, Addressing, Inserting, Answering, Comparing, Managing, Asked

LEMMA OthersStay ==
    ASSUME Typed, NEW r \in Requests, NEW q \in Requests, NEW state, Go(q, state)
    PROVE  request'[r] = (IF r = q THEN state ELSE request[r])
BY DEF Typed, Go

LEMMA GiveUpGoes ==
    ASSUME Typed, NEW r \in Requests, NEW q \in Requests, GiveUp(q)
    PROVE  Going(r)
<1>1. CASE Done(q)
  BY <1>1, OthersStay DEF Done, Idle, Going
<1>2. CASE Go(q, [at |-> "manage", op |-> "manage", cred |-> {request[q].cred}, action |-> "revoke", admin |-> FALSE])
  BY <1>2, OthersStay DEF Going
<1> QED
  BY <1>1, <1>2 DEF GiveUp

LEMMA TakesGoes ==
    ASSUME Typed, NEW r \in Requests, NEW q \in Requests, NEW a \in Addresses, Takes(q, a), Started(q)
    PROVE  Going(r)
<1>1. request'[r] = IF r = q THEN At(q, "save", a) ELSE request[r]
  BY OthersStay DEF Takes
<1>2. lease'[a] = [holder |-> request[q].cred, held |-> TRUE]
  BY DEF Takes, Typed
<1>3. lease'[a].holder = request[q].cred /\ lease'[a].held
  BY <1>2
<1> QED
  BY <1>1, <1>3 DEF Going, At, Same

LEMMA RequestsGo ==
    ASSUME Typed, ReleasedByRevoked, [Next]_vars, NEW r \in Requests
    PROVE  Going(r)
<1>0. request \in [Requests -> RequestState] /\ cred \in [Creds -> CredRow]
  BY DEF Typed
<1>a. ASSUME NEW q \in Requests, Done(q) PROVE Going(r)
  BY <1>a, OthersStay DEF Done, Idle, Going
<1>b. ASSUME NEW q \in Requests, NEW state, Go(q, state), state.at \in {"idle", "create", "manage"} PROVE Going(r)
  BY <1>b, OthersStay DEF Going
<1>c. ASSUME NEW q \in Requests, Started(q), NEW state, Go(q, state), state.at \notin {"save", "reactivate"}, state.cred = request[q].cred
      PROVE  Going(r)
  <2>1. CASE r = q
    <3>1. request'[r] = state
      BY <1>c, <2>1, OthersStay
    <3>2. request'[r].at \notin {"save", "reactivate"} /\ Same(r)
      BY <1>c, <2>1, <3>1 DEF Same
    <3> QED
      BY <1>c, <2>1, <3>2 DEF Going
  <2>2. CASE r # q
    BY <1>c, <2>2, OthersStay DEF Going
  <2> QED
    BY <2>1, <2>2
<1>d. ASSUME NEW q \in Requests, NEW state, Go(q, state), state.at \notin {"save", "reactivate"},
             state.cred \in Creds, cred'[state.cred].status # "none"
      PROVE  Going(r)
  BY <1>d, OthersStay DEF Going
<1>1. ASSUME NEW q \in Requests, NEW op \in {"subscription", "config"}, StartCreate(q, op) PROVE Going(r)
  BY <1>1, <1>b DEF StartCreate
<1>2. ASSUME NEW q \in Requests, Create(q) PROVE Going(r)
  <2>1. ASSUME NEW c \in Creds, cred' = [cred EXCEPT ![c].status = "active"], Go(q, [at |-> "issue", op |-> "config", cred |-> c])
        PROVE  Going(r)
    <3>1. cred[c] \in CredRow
      BY <1>0
    <3>2. cred'[c].status = "active"
      BY <1>0, <2>1, <3>1 DEF CredRow
    <3> QED
      BY <1>d, <2>1, <3>2
  <2> QED
    BY <1>2, <1>a, <2>1, CreateAdds
<1>3. ASSUME NEW q \in Requests, NEW c \in Creds, Download(q, c) PROVE Going(r)
  <2>1. PICK at \in {"activate", "desired", "lookup"} : Go(q, [op |-> "download", cred |-> c, at |-> at])
    BY <1>3 DEF Download
  <2>2. cred'[c].status = "active"
    BY <1>3 DEF Download, Usable, EnabledCredential
  <2> QED
    BY <1>d, <2>1, <2>2
<1>4. ASSUME NEW q \in Requests, Issue(q) PROVE Going(r)
  <2>1. request[q] \in Issuing /\ Started(q)
    BY <1>4, RequestRows DEF Issue, Started
  <2>2. [request[q] EXCEPT !.at = "lookup"].at = "lookup" /\ [request[q] EXCEPT !.at = "lookup"].cred = request[q].cred
    BY <2>1 DEF Issuing
  <2> QED
    BY <1>4, <1>c, <2>1, <2>2, GiveUpGoes DEF Issue
<1>5. ASSUME NEW q \in Requests, Lookup(q) PROVE Going(r)
  <2>1. request[q] \in Issuing /\ Started(q) /\ request[q].cred \in Creds
    BY <1>5, RequestRows DEF Lookup, Started, Issuing
  <2>2. CASE Go(q, [request[q] EXCEPT !.at = "reuse"])
    <3>1. [request[q] EXCEPT !.at = "reuse"].at = "reuse" /\ [request[q] EXCEPT !.at = "reuse"].cred = request[q].cred
      BY <2>1 DEF Issuing
    <3> QED
      BY <1>c, <2>1, <2>2, <3>1
  <2>3. ASSUME NEW a \in RowOf(request[q].cred), Go(q, At(q, IF lease[a].held THEN "save" ELSE "reactivate", a)) PROVE Going(r)
    <3>1. a \in Addresses /\ lease[a].holder = request[q].cred /\ request[q].cred # None
      BY <2>1, Numbers DEF RowOf
    <3>2. CASE lease[a].held
      <4>1. request'[r] = IF r = q THEN At(q, "save", a) ELSE request[r]
        BY <2>3, <3>2, OthersStay
      <4>2. lease'[a].holder = request[q].cred /\ lease'[a].held
        BY <1>5, <3>1, <3>2 DEF Lookup
      <4> QED
        BY <2>1, <4>1, <4>2 DEF Going, At, Same
    <3>3. CASE ~lease[a].held
      <4>1. request'[r] = IF r = q THEN At(q, "reactivate", a) ELSE request[r]
        BY <2>3, <3>3, OthersStay
      <4>2. cred'[request[q].cred].status = "revoked"
        BY <1>5, <3>1, <3>3 DEF Lookup, ReleasedByRevoked
      <4> QED
        BY <2>1, <4>1, <4>2 DEF Going, At, Same
    <3> QED
      BY <3>2, <3>3
  <2> QED
    BY <1>5, <2>2, <2>3, LookupFinds
<1>6. ASSUME NEW q \in Requests, Reactivate(q) PROVE Going(r)
  <2>1. request[q] \in Addressing
    BY <1>6, RequestRows DEF Reactivate
  <2>2. [request[q] EXCEPT !.at = "save"].at = "save" /\ [request[q] EXCEPT !.at = "save"].cred = request[q].cred
    BY <2>1 DEF Addressing
  <2>3. request'[r] = IF r = q THEN [request[q] EXCEPT !.at = "save"] ELSE request[r]
    BY <1>6, OthersStay DEF Reactivate
  <2> QED
    BY <1>6, <2>2, <2>3 DEF Going, Same, Reactivate
<1>7. ASSUME NEW q \in Requests, Reuse(q) PROVE Going(r)
  <2>1. Started(q)
    BY <1>7 DEF Reuse, Started
  <2>2. ASSUME NEW tried, Go(q, [at |-> "insert", op |-> request[q].op, cred |-> request[q].cred, tried |-> tried]) PROVE Going(r)
    BY <1>c, <2>1, <2>2
  <2> QED
    BY <1>7, <2>1, <2>2, ReuseTakes, GiveUpGoes, TakesGoes
<1>8. ASSUME NEW q \in Requests, Insert(q) PROVE Going(r)
  <2>1. Started(q) /\ request[q] \in Inserting
    BY <1>8, RequestRows DEF Insert, Started
  <2>2. ASSUME NEW a \in Addresses, Go(q, [request[q] EXCEPT !.tried = request[q].tried \cup {a}]) PROVE Going(r)
    <3>1. [request[q] EXCEPT !.tried = request[q].tried \cup {a}].at = "insert"
          /\ [request[q] EXCEPT !.tried = request[q].tried \cup {a}].cred = request[q].cred
      BY <2>1 DEF Inserting
    <3> QED
      BY <1>c, <2>1, <2>2, <3>1
  <2> QED
    BY <1>8, <2>1, <2>2, InsertTakes, GiveUpGoes, TakesGoes
<1>9. ASSUME NEW q \in Requests, Save(q) PROVE Going(r)
  BY <1>9, <1>c DEF Save, Started
<1>10. ASSUME NEW q \in Requests, Activate(q) PROVE Going(r)
  BY <1>10, <1>a, <1>c DEF Activate, Started
<1>11. ASSUME NEW q \in Requests, ActivationBuild(q) PROVE Going(r)
  <2>1. request[q] \in Issuing /\ Started(q)
    BY <1>11, RequestRows DEF ActivationBuild, Started
  <2>2. [request[q] EXCEPT !.at = "desired"].at = "desired" /\ [request[q] EXCEPT !.at = "desired"].cred = request[q].cred
    BY <2>1 DEF Issuing
  <2> QED
    BY <1>11, <1>a, <1>c, <2>1, <2>2 DEF ActivationBuild
<1>12. ASSUME NEW q \in Requests, ReadDesired(q) PROVE Going(r)
  BY <1>12, <1>c DEF ReadDesired, Started
<1>13. ASSUME NEW q \in Requests, CheckObserved(q) PROVE Going(r)
  BY <1>13, <1>a, <1>c DEF CheckObserved, Started
<1>14. ASSUME NEW q \in Requests, Serve(q) PROVE Going(r)
  BY <1>14, <1>a DEF Serve
<1>15. ASSUME NEW q \in Requests, OwnerManages(q) \/ AdminManages(q) \/ ManageNext(q) PROVE Going(r)
  <2>1. PICK ids \in SUBSET Creds, action \in {"enable", "disable", "revoke"}, admin \in BOOLEAN :
           ids # {} /\ Change(q, ids, action, admin)
    BY <1>15, PagesOpen
  <2>2. PICK d \in ids : OneOf(q, ids, d, action, admin)
    BY <2>1, ChangesComeSingly
  <2> QED
    BY <1>a, <1>b, <2>2 DEF OneOf, Done
<1>16. CASE ControllerRestarts
  BY <1>16 DEF ControllerRestarts, Idle, Going
<1>17. CASE request' = request
  BY <1>17 DEF Going
<1> QED
  BY <1>1, <1>2, <1>3, <1>4, <1>5, <1>6, <1>7, <1>8, <1>9, <1>10, <1>11, <1>12, <1>13, <1>14, <1>15, <1>16, <1>17
  DEF Next, vars, Proceeds, AccountChanges, Expires, Rebuild, Apply

(* A credential that exists keeps existing, a revoked one stays revoked, a working one was working or is new. *)
LEMMA StatusStays ==
    ASSUME Typed, [Next]_vars, NEW c \in Creds
    PROVE  /\ cred[c].status # "none" => cred'[c].status # "none"
           /\ cred[c].status = "revoked" => cred'[c].status = "revoked"
           /\ cred'[c].status = "active" => cred[c].status \in {"none", "active"}
           /\ cred'[c].status = "none" => cred[c].status = "none"
BY StatusMoves

LEMMA KnowsStep == Typed /\ ReleasedByRevoked /\ RequestsKnow /\ [Next]_vars => RequestsKnow'
<1> SUFFICES ASSUME Typed, ReleasedByRevoked, RequestsKnow, [Next]_vars, NEW r \in Requests PROVE Knows(r)'
  BY DEF RequestsKnow
<1>1. Going(r) /\ Knows(r)
  BY RequestsGo DEF RequestsKnow
<1>2. CASE request'[r].at \in {"idle", "create", "manage"}
  BY <1>2 DEF Knows, Started
<1>3. ASSUME Started(r), Same(r), request[r].cred \in Creds
      PROVE  cred'[request'[r].cred].status # "none"
  BY <1>1, <1>3, StatusStays DEF Knows, Same
<1>4. CASE request'[r] = request[r]
  <2>1. CASE ~Started(r)
    BY <1>2, <1>4, <2>1 DEF Started
  <2>2. CASE Started(r)
    <3>1. request[r].cred \in Creds /\ Same(r)
      BY <1>4, <2>2, StartedOnes DEF Same
    <3>2. cred'[request'[r].cred].status # "none"
      BY <1>3, <2>2, <3>1
    <3>3. ASSUME request[r].at = "save", cred'[request[r].cred].status = "active"
          PROVE  lease'[request[r].address].holder = request[r].cred /\ lease'[request[r].address].held
      <4>1. PICK a \in Addresses, c \in Creds : a = request[r].address /\ c = request[r].cred
        BY <3>1, <3>3, RequestRows DEF Addressing
      <4>2. cred[c].status = "active"
        BY <1>1, <2>2, <3>3, <4>1, StatusStays DEF Knows
      <4>3. Holds(a, c)
        BY <1>1, <3>3, <4>1, <4>2 DEF Knows
      <4>4. Holds(a, c)'
        BY <3>3, <4>1, <4>3, HoldsStays
      <4> QED
        BY <4>1, <4>4 DEF Holds
    <3>4. request[r].at = "reactivate" => cred'[request[r].cred].status = "revoked"
      BY <1>1, <3>1, StatusStays DEF Knows
    <3> QED
      BY <1>4, <3>2, <3>3, <3>4 DEF Knows, Holds
  <2> QED
    BY <2>1, <2>2
<1>5. CASE /\ request'[r].at \notin {"save", "reactivate"}
           /\ (Started(r) /\ Same(r)) \/ (request'[r].cred \in Creds /\ cred'[request'[r].cred].status # "none")
  <2>1. cred'[request'[r].cred].status # "none"
    BY <1>3, <1>5, StartedOnes
  <2> QED
    BY <1>5, <2>1 DEF Knows
<1>6. CASE /\ request'[r].at = "save" /\ Started(r) /\ Same(r)
           /\ lease'[request'[r].address].holder = request[r].cred /\ lease'[request'[r].address].held
  BY <1>3, <1>6, StartedOnes DEF Knows, Holds, Same
<1>7. CASE request'[r].at = "reactivate" /\ Started(r) /\ Same(r) /\ cred'[request[r].cred].status = "revoked"
  BY <1>7 DEF Knows, Same
<1>8. CASE request'[r].at = "save" /\ request[r].at = "reactivate" /\ Same(r)
  <2>1. Started(r) /\ cred[request[r].cred].status = "revoked"
    BY <1>1, <1>8 DEF Knows, Started
  <2>2. cred'[request'[r].cred].status = "revoked"
    BY <1>8, <2>1, StartedOnes, StatusStays DEF Same
  <2> QED
    BY <1>8, <2>2 DEF Knows
<1> QED
  BY <1>1, <1>2, <1>4, <1>5, <1>6, <1>7, <1>8 DEF Going

LEMMA NothingStep == Typed /\ RequestsKnow /\ NothingYet /\ [Next]_vars => NothingYet'
<1> SUFFICES ASSUME Typed, RequestsKnow, NothingYet, [Next]_vars, NEW c \in Creds, cred'[c].status = "none"
             PROVE  profile'[c].status = "none"
  BY DEF NothingYet
<1>1. cred[c].status = "none" /\ profile[c].status = "none"
  BY StatusStays DEF NothingYet
<1>2. \A r \in Requests : Save(r) => request[r].cred # c
  BY <1>1 DEF RequestsKnow, Knows, Started, Save
<1> QED
  BY <1>1, <1>2, ProfilesMove DEF Given, Continues, Saves

LEMMA ProfilesStep == Typed /\ RequestsKnow /\ NothingYet /\ ProfilesHold /\ [Next]_vars => ProfilesHold'
<1> SUFFICES ASSUME Typed, RequestsKnow, NothingYet, ProfilesHold, [Next]_vars, NEW c \in Creds, cred'[c].status = "active",
                    profile'[c].status \in {"issued", "active"}
             PROVE  profile'[c].address \in Addresses /\ Holds(profile[c].address, c)'
  BY DEF ProfilesHold, Given
<1>1. ASSUME NEW a \in Addresses, a = profile'[c].address, cred[c].status = "active", Holds(a, c)
      PROVE  profile'[c].address \in Addresses /\ Holds(profile[c].address, c)'
  <2>1. Holds(a, c)'
    BY <1>1, HoldsStays
  <2> QED
    BY <1>1, <2>1 DEF Holds
<1>2. CASE Continues(c)
  <2>1. Given(c)
    BY <1>2 DEF Given, Continues
  <2>2. cred[c].status = "active"
    BY <2>1, StatusStays DEF NothingYet, Given
  <2>3. profile[c].address \in Addresses /\ Holds(profile[c].address, c)
    BY <2>1, <2>2 DEF ProfilesHold
  <2> QED
    BY <1>1, <1>2, <2>2, <2>3 DEF Continues
<1>3. ASSUME NEW r \in Requests, Saves(r, c)
      PROVE  profile'[c].address \in Addresses /\ Holds(profile[c].address, c)'
  <2>1. request[r].at = "save" /\ request[r].address \in Addresses
    BY <1>3, RequestRows DEF Saves, Save, Addressing
  <2>2. cred[c].status = "active"
    BY <1>3, <2>1, StatusStays DEF RequestsKnow, Knows, Started, Saves
  <2>3. Holds(request[r].address, c)
    BY <1>3, <2>1, <2>2 DEF RequestsKnow, Knows, Saves
  <2> QED
    BY <1>1, <1>3, <2>1, <2>2, <2>3 DEF Saves
<1> QED
  BY <1>2, <1>3, ProfilesMove

LEMMA OwnedInit == Init => Owned
BY DEF Init, Owned, ReleasedByRevoked, OneRow, RequestsKnow, Knows, Started, Idle, NothingYet, ProfilesHold, Given, NoLease, NoProfile

(* Owned, whatever interleaves. *)
THEOREM AddressesOwned == Spec => []Owned
<1>1. Typed /\ Owned /\ [Next]_vars => Owned'
  BY ReleasedStep, OneRowStep, KnowsStep, NothingStep, ProfilesStep DEF Owned
<1> QED
  BY <1>1, OwnedInit, CredentialsTyped, PTL DEF Spec

(* What an active profile of a credential that may connect tells its client is the address the credential holds in the *)
(* pool, through every interleaving of downloads, node configs, revocations and reuses (allocateIpLease).              *)
THEOREM AddressesAreOwn == Spec => []AddressIsItsOwn
<1>1. Typed /\ Owned => AddressIsItsOwn
  <2> SUFFICES ASSUME Typed, Owned, NEW c \in Creds, Usable(c), profile[c].status = "active"
               PROVE  lease[profile[c].address] = [holder |-> c, held |-> TRUE]
    BY DEF AddressIsItsOwn
  <2>1. PICK a \in Addresses : a = profile[c].address /\ Holds(a, c)
    BY DEF Owned, ProfilesHold, Given, Usable, EnabledCredential
  <2>2. lease[a] \in LeaseRow
    BY DEF Typed
  <2>3. lease[a] = [holder |-> lease[a].holder, held |-> lease[a].held] /\ lease[a].held \in BOOLEAN
    BY <2>2 DEF LeaseRow
  <2> QED
    BY <2>1, <2>3 DEF Holds
<1> QED
  BY <1>1, AddressesOwned, CredentialsTyped, PTL

-----------------------------------------------------------------------------
(* ServedIsApplied.  From the revision that first had a credential on, every state the node has run, will run or is    *)
(* about to be given has it, unless a build has left it out since; so what the Agent reported decides.                 *)

Ran == [revision |-> observed, peers |-> running]
States == {Ran, desired} \union {tasks[i] : i \in 1..Len(tasks)}

(* The node runs revisions in order, and the desired one is the last. *)
InOrder ==
    /\ \A s \in States : observed <= s.revision /\ s.revision <= desired.revision
    /\ \A s \in States : s.revision = desired.revision => s.peers = desired.peers
    /\ \A i, j \in 1..Len(tasks) : i <= j => tasks[i].revision <= tasks[j].revision

(* A working credential is listed under the address its profile tells. *)
Listed(s, c) == s.peers[c] # None
PeersKnown ==
    \A c \in Creds : \A s \in States : Listed(s, c) =>
        /\ cred[c].status # "none"
        /\ cred[c].status = "active" => Given(c) /\ s.peers[c] = profile[c].address

From(c, revision) ==
    /\ revision <= desired.revision
    /\ \A s \in States : s.revision >= revision => Listed(s, c)
IncludedSince == \A c \in Creds : c \notin dropped /\ profile[c].included # NeverIncluded => From(c, profile[c].included)

(* One download of a credential's link at a time, and what it knows between two of its statements. *)
Loads(r, c) == Started(r) /\ request[r].op = "download" /\ request[r].cred = c
OneDownload == \A c \in Creds : \A q, r \in Requests : Loads(q, c) /\ Loads(r, c) => q = r
ReadersKnow ==
    \A r \in Requests, c \in Creds : request[r].cred = c /\ c \notin dropped =>
        /\ request[r].at = "observed" /\ request[r].member => From(c, request[r].revision)
        /\ request[r].at = "serve" => From(c, observed)

LEMMA StatesTyped == ASSUME Typed PROVE States \subseteq Revision /\ desired \in States /\ Ran \in States
<1>1. \A i \in 1..Len(tasks) : tasks[i] \in Revision
  BY DEF Typed
<1>2. Ran \in Revision
  BY DEF Typed, Ran, Revision
<1> QED
  BY <1>1, <1>2 DEF Typed, States

(* What a step does to the node, its tasks and the desired state. *)
Quiet == UNCHANGED <<desired, tasks, running, observed>>
Builds == Build /\ UNCHANGED <<cred, lease, profile, running, observed>>

LEMMA NodeMoves ==
    ASSUME [Next]_vars
    PROVE  \/ Quiet /\ dropped' = dropped
           \/ Quiet /\ \E r \in Requests : CheckObserved(r)
           \/ Builds
           \/ Apply
<1>1. ASSUME NodeUnchanged PROVE Quiet /\ dropped' = dropped
  BY <1>1 DEF NodeUnchanged, Quiet
<1>2. ASSUME NEW r \in Requests, ActivationBuild(r) PROVE Builds
  BY <1>2 DEF ActivationBuild, Builds
<1>3. ASSUME NEW r \in Requests, CheckObserved(r) PROVE Quiet
  BY <1>3 DEF CheckObserved, Quiet
<1>4. ASSUME NEW r \in Requests, OwnerManages(r) \/ AdminManages(r) \/ ManageNext(r) PROVE NodeUnchanged
  BY <1>4 DEF OwnerManages, AdminManages, Manage, ManageNext, Change
<1>5. ASSUME NEW r \in Requests, \/ Create(r) \/ Issue(r) \/ Lookup(r) \/ Reactivate(r) \/ Reuse(r) \/ Insert(r) \/ Save(r) \/ Activate(r)
                                \/ ReadDesired(r) \/ Serve(r)
      PROVE  NodeUnchanged
  BY <1>5 DEF Create, Issue, Lookup, Reactivate, Reuse, Insert, Save, Activate, ReadDesired, Serve
<1>6. CASE Rebuild
  BY <1>6 DEF Rebuild, Builds
<1>7. CASE UNCHANGED vars
  BY <1>7 DEF vars, Quiet
<1>8. ASSUME NEW r \in Requests, (\E op \in {"subscription", "config"} : StartCreate(r, op)) \/ (\E c \in Creds : Download(r, c))
      PROVE  NodeUnchanged
  BY <1>8 DEF StartCreate, Download
<1>9. ASSUME AccountChanges \/ ControllerRestarts \/ \E c \in Creds : Expires(c) PROVE NodeUnchanged
  BY <1>9 DEF AccountChanges, ControllerRestarts, Expires
<1> QED
  BY <1>1, <1>2, <1>3, <1>4, <1>5, <1>6, <1>7, <1>8, <1>9 DEF Next, Proceeds

LEMMA BuildMoves ==
    ASSUME Typed, Builds
    PROVE  \/ Quiet /\ dropped' = dropped
           \/ /\ desired' = [revision |-> desired.revision + 1, peers |-> ActivePeers]
              /\ tasks' = Append(tasks, desired')
              /\ States' \subseteq States \union {desired'} /\ desired' \in States'
              /\ dropped' = dropped \cup {c \in Creds : desired.peers[c] # None /\ ActivePeers[c] = None}
<1>1. CASE desired.peers = ActivePeers
  BY <1>1 DEF Builds, Build, Quiet
<1>2. CASE desired.peers # ActivePeers
  <2>1. /\ desired' = [revision |-> desired.revision + 1, peers |-> ActivePeers]
        /\ tasks' = Append(tasks, desired')
        /\ dropped' = dropped \cup {c \in Creds : desired.peers[c] # None /\ ActivePeers[c] = None}
    BY <1>2 DEF Builds, Build
  <2>2. tasks \in Seq(Revision)
    BY DEF Typed
  <2>3. Len(tasks') = Len(tasks) + 1 /\ Len(tasks) \in Nat
        /\ \A i \in 1..Len(tasks') : tasks'[i] = IF i = Len(tasks) + 1 THEN desired' ELSE tasks[i]
    BY <2>1, <2>2
  <2>4. Ran' = Ran
    BY DEF Builds, Ran
  <2>5. \A i \in 1..Len(tasks') : tasks'[i] \in States \union {desired'}
    <3> SUFFICES ASSUME NEW i \in 1..Len(tasks') PROVE tasks'[i] \in States \union {desired'}
      OBVIOUS
    <3>1. CASE i = Len(tasks) + 1
      BY <2>3, <3>1
    <3>2. CASE i # Len(tasks) + 1
      <4>1. i \in 1..Len(tasks) /\ tasks'[i] = tasks[i]
        BY <2>3, <3>2
      <4> QED
        BY <4>1 DEF States
    <3> QED
      BY <3>1, <3>2
  <2>6. States' \subseteq States \union {desired'} /\ desired' \in States'
    BY <2>4, <2>5 DEF States
  <2> QED
    BY <2>1, <2>6
<1> QED
  BY <1>1, <1>2

LEMMA ApplyMoves ==
    ASSUME Typed, InOrder, Apply
    PROVE  /\ States' \subseteq States /\ desired' = desired /\ dropped' = dropped
           /\ observed' >= observed
           /\ \A s \in States' : observed' <= s.revision
           /\ Len(tasks') \in Nat /\ \A i \in 1..Len(tasks') : i + 1 \in 1..Len(tasks) /\ tasks'[i] = tasks[i + 1]
<1>0. tasks \in Seq(Revision) /\ tasks # <<>> /\ tasks' = Tail(tasks) /\ running' = Head(tasks).peers /\ observed' = Head(tasks).revision
  BY DEF Typed, Apply
<1>1. Len(tasks) \in Nat /\ 1 \in 1..Len(tasks) /\ Head(tasks) = tasks[1]
  BY <1>0
<1>2. Len(tasks') \in Nat /\ \A i \in 1..Len(tasks') : i + 1 \in 1..Len(tasks) /\ tasks'[i] = tasks[i + 1]
  BY <1>0, <1>1
<1>3. tasks[1] \in States /\ tasks[1] \in Revision
  BY <1>0, <1>1 DEF States
<1>4. Ran' = tasks[1]
  BY <1>0, <1>1, <1>3 DEF Ran, Revision
<1>5. desired' = desired /\ dropped' = dropped
  BY DEF Apply
<1>6. \A i \in 1..Len(tasks') : tasks'[i] \in States /\ tasks[1].revision <= tasks'[i].revision
  <2> SUFFICES ASSUME NEW i \in 1..Len(tasks') PROVE tasks'[i] \in States /\ tasks[1].revision <= tasks'[i].revision
    OBVIOUS
  <2>1. i + 1 \in 1..Len(tasks) /\ tasks'[i] = tasks[i + 1] /\ 1 <= i + 1
    BY <1>2
  <2> QED
    BY <1>1, <2>1 DEF States, InOrder
<1>7. States' \subseteq States
  BY <1>3, <1>4, <1>5, <1>6 DEF States
<1>8. observed' = tasks[1].revision /\ observed' >= observed /\ observed' \in Nat
  <2>1. observed' = tasks[1].revision
    BY <1>0, <1>1
  <2>2. observed <= tasks[1].revision
    BY <1>3 DEF InOrder
  <2> QED
    BY <1>3, <2>1, <2>2 DEF Typed, Revision
<1>9. \A s \in States' : observed' <= s.revision
  <2> SUFFICES ASSUME NEW s \in States' PROVE observed' <= s.revision
    OBVIOUS
  <2>1. CASE s = Ran'
    BY <1>4, <1>8, <2>1
  <2>2. CASE s = desired
    BY <1>3, <1>8, <2>2 DEF InOrder
  <2>3. CASE \E i \in 1..Len(tasks') : s = tasks'[i]
    BY <1>6, <1>8, <2>3
  <2> QED
    BY <1>5, <2>1, <2>2, <2>3 DEF States
<1> QED
  BY <1>2, <1>5, <1>7, <1>8, <1>9

LEMMA OrderStep == Typed /\ InOrder /\ [Next]_vars => InOrder'
<1> SUFFICES ASSUME Typed, InOrder, [Next]_vars PROVE InOrder'
  OBVIOUS
<1>0. States \subseteq Revision /\ desired \in States /\ desired \in Revision /\ observed \in Nat
  BY StatesTyped DEF Typed
<1>1. CASE Quiet
  BY <1>1 DEF Quiet, InOrder, States, Ran
<1>2. CASE Apply
  <2>1. \A i, j \in 1..Len(tasks') : i <= j => tasks'[i].revision <= tasks'[j].revision
    <3> SUFFICES ASSUME NEW i \in 1..Len(tasks'), NEW j \in 1..Len(tasks'), i <= j PROVE tasks'[i].revision <= tasks'[j].revision
      OBVIOUS
    <3>1. i + 1 \in 1..Len(tasks) /\ tasks'[i] = tasks[i + 1] /\ j + 1 \in 1..Len(tasks) /\ tasks'[j] = tasks[j + 1] /\ i + 1 <= j + 1
      BY <1>2, ApplyMoves
    <3> QED
      BY <3>1 DEF InOrder
  <2> QED
    BY <1>2, <2>1, ApplyMoves DEF InOrder
<1>3. CASE Builds
  <2>1. CASE Quiet
    BY <1>1, <2>1
  <2>2. CASE /\ desired' = [revision |-> desired.revision + 1, peers |-> ActivePeers]
             /\ tasks' = Append(tasks, desired')
             /\ States' \subseteq States \union {desired'}
    <3>1. desired'.revision = desired.revision + 1 /\ desired.revision \in Nat /\ observed' = observed
      BY <1>0, <1>3, <2>2 DEF Revision, Builds
    <3>2. ASSUME NEW s \in States' PROVE observed' <= s.revision /\ s.revision <= desired'.revision
                                         /\ (s.revision = desired'.revision => s.peers = desired'.peers)
      <4>1. CASE s \in States
        <5>1. observed <= s.revision /\ s.revision <= desired.revision /\ s.revision \in Nat
          BY <1>0, <4>1 DEF InOrder, Revision
        <5> QED
          BY <3>1, <5>1
      <4>2. CASE s = desired'
        <5>1. observed <= desired.revision
          BY <1>0 DEF InOrder
        <5> QED
          BY <1>0, <3>1, <4>2, <5>1
      <4> QED
        BY <2>2, <4>1, <4>2
    <3>3. ASSUME NEW i \in 1..Len(tasks'), NEW j \in 1..Len(tasks'), i <= j PROVE tasks'[i].revision <= tasks'[j].revision
      <4>1. tasks \in Seq(Revision) /\ Len(tasks) \in Nat /\ Len(tasks') = Len(tasks) + 1
        BY <2>2 DEF Typed
      <4>2. \A k \in 1..Len(tasks) : tasks'[k] = tasks[k] /\ tasks[k].revision \in Nat /\ tasks[k].revision <= desired.revision
        <5> SUFFICES ASSUME NEW k \in 1..Len(tasks)
                     PROVE  tasks'[k] = tasks[k] /\ tasks[k].revision \in Nat /\ tasks[k].revision <= desired.revision
          OBVIOUS
        <5>1. tasks[k] \in States
          BY DEF States
        <5>2. tasks'[k] = tasks[k]
          BY <2>2, <4>1
        <5> QED
          BY <1>0, <5>1, <5>2 DEF InOrder, Revision
      <4>3. tasks'[Len(tasks) + 1] = desired'
        BY <2>2, <4>1
      <4>4. CASE j = Len(tasks) + 1
        BY <3>1, <4>1, <4>2, <4>3, <4>4
      <4>5. CASE j # Len(tasks) + 1
        <5>1. i \in 1..Len(tasks) /\ j \in 1..Len(tasks)
          BY <3>3, <4>1, <4>5
        <5> QED
          BY <3>3, <4>2, <5>1 DEF InOrder
      <4> QED
        BY <4>4, <4>5
    <3> QED
      BY <3>2, <3>3 DEF InOrder
  <2> QED
    BY <1>3, <2>1, <2>2, BuildMoves
<1> QED
  BY <1>1, <1>2, <1>3, NodeMoves

(* A working credential that is listed stays listed under its profile's address, because it has but one row. *)
LEMMA KnownStays ==
    ASSUME Typed, OneRow, RequestsKnow, NothingYet, ProfilesHold, [Next]_vars, NEW c \in Creds, NEW a \in Addresses,
           cred[c].status # "none", cred[c].status = "active" => Given(c) /\ profile[c].address = a
    PROVE  /\ cred'[c].status # "none"
           /\ cred'[c].status = "active" => profile'[c].status \in {"issued", "active"} /\ profile'[c].address = a
<1>1. cred'[c].status # "none"
  BY StatusStays
<1>2. ASSUME cred'[c].status = "active" PROVE profile'[c].status \in {"issued", "active"} /\ profile'[c].address = a
  <2>1. cred[c].status = "active" /\ Given(c) /\ profile[c].address = a
    BY <1>2, StatusStays
  <2>2. CASE Continues(c)
    BY <1>2, <2>1, <2>2 DEF Continues, Given
  <2>3. ASSUME NEW r \in Requests, Saves(r, c) PROVE profile'[c].status \in {"issued", "active"} /\ profile'[c].address = a
    <3>1. request[r].at = "save" /\ request[r].cred = c /\ request[r].address \in Addresses
      BY <2>3, RequestRows DEF Saves, Save, Addressing
    <3>2. Holds(request[r].address, c)
      BY <2>1, <3>1 DEF RequestsKnow, Knows
    <3>3. Holds(a, c)
      BY <2>1 DEF ProfilesHold
    <3>4. request[r].address = a
      BY <3>1, <3>2, <3>3, Numbers DEF OneRow, Holds
    <3> QED
      BY <2>3, <3>4 DEF Saves
  <2> QED
    BY <2>2, <2>3, ProfilesMove
<1> QED
  BY <1>1, <1>2

LEMMA KnownStep == Typed /\ Owned /\ InOrder /\ PeersKnown /\ [Next]_vars => PeersKnown'
<1> SUFFICES ASSUME Typed, Owned, InOrder, PeersKnown, [Next]_vars, NEW c \in Creds, NEW s \in States', s.peers[c] # None
             PROVE  /\ cred'[c].status # "none"
                    /\ cred'[c].status = "active" => profile'[c].status \in {"issued", "active"} /\ s.peers[c] = profile'[c].address
  BY DEF PeersKnown, Listed, Given
<1>0. States \subseteq Revision
  BY StatesTyped
<1>1. ASSUME s \in States
      PROVE  /\ cred'[c].status # "none"
             /\ cred'[c].status = "active" => profile'[c].status \in {"issued", "active"} /\ s.peers[c] = profile'[c].address
  <2>1. cred[c].status # "none" /\ (cred[c].status = "active" => Given(c) /\ s.peers[c] = profile[c].address)
    BY <1>1 DEF PeersKnown, Listed
  <2>2. PICK a \in Addresses : a = s.peers[c]
    BY <1>0, <1>1 DEF Revision, Peers
  <2>3. /\ cred'[c].status # "none"
        /\ cred'[c].status = "active" => profile'[c].status \in {"issued", "active"} /\ profile'[c].address = a
    BY <2>1, <2>2, KnownStays DEF Owned
  <2> QED
    BY <2>2, <2>3
<1>2. CASE s \notin States
  <2>1. Builds /\ s = desired' /\ desired' = [revision |-> desired.revision + 1, peers |-> ActivePeers]
    <3>1. CASE Quiet
      BY <1>2, <3>1 DEF Quiet, States, Ran
    <3>2. CASE Apply
      BY <1>2, <3>2, ApplyMoves
    <3>3. CASE Builds
      BY <1>2, <3>1, <3>3, BuildMoves
    <3> QED
      BY <3>1, <3>2, <3>3, NodeMoves
  <2>2. s.peers[c] = ActivePeers[c]
    BY <2>1
  <2>3. Usable(c) /\ profile[c].status = "active" /\ ActivePeers[c] \in RowOf(c)
    BY <2>2, PeersOfABuild
  <2>4. ActivePeers[c] \in Addresses /\ lease[ActivePeers[c]].holder = c /\ cred[c].status = "active" /\ Given(c) /\ c # None
    BY <2>3, Numbers DEF RowOf, Usable, EnabledCredential, Given
  <2>5. profile[c].address \in Addresses /\ lease[profile[c].address].holder = c
    BY <2>4 DEF Owned, ProfilesHold, Holds
  <2>6. ActivePeers[c] = profile[c].address
    BY <2>4, <2>5 DEF Owned, OneRow
  <2>7. cred' = cred /\ profile' = profile
    BY <2>1 DEF Builds
  <2> QED
    BY <2>2, <2>4, <2>6, <2>7 DEF Given
<1> QED
  BY <1>1, <1>2

(* From a revision on stays so, unless a build leaves the credential out. *)
LEMMA FromStays ==
    ASSUME Typed, InOrder, [Next]_vars, NEW c \in Creds, NEW n \in Nat, From(c, n), c \notin dropped'
    PROVE  From(c, n)'
<1>0. States \subseteq Revision /\ desired \in States
  BY StatesTyped
<1>1. CASE Quiet
  BY <1>1 DEF Quiet, From, States, Ran, Listed
<1>2. CASE Apply
  BY <1>2, ApplyMoves DEF From, Listed
<1>3. CASE Builds
  <2>1. CASE Quiet
    BY <1>1, <2>1
  <2>2. CASE /\ desired' = [revision |-> desired.revision + 1, peers |-> ActivePeers]
             /\ States' \subseteq States \union {desired'}
             /\ dropped' = dropped \cup {d \in Creds : desired.peers[d] # None /\ ActivePeers[d] = None}
    <3>1. desired.revision \in Nat /\ n <= desired.revision /\ Listed(desired, c)
      BY <1>0 DEF From, Revision
    <3>2. ActivePeers[c] # None
      BY <2>2, <3>1 DEF Listed
    <3>3. desired'.revision = desired.revision + 1 /\ desired'.peers[c] # None
      BY <2>2, <3>2
    <3> QED
      BY <2>2, <3>1, <3>3 DEF From, Listed
  <2> QED
    BY <1>3, <2>1, <2>2, BuildMoves
<1> QED
  BY <1>1, <1>2, <1>3, NodeMoves

(* A credential is excepted until a request that misses it in the desired state forgets when it was first included. *)
LEMMA DroppedMoves ==
    ASSUME Typed, [Next]_vars, NEW c \in Creds, c \notin dropped'
    PROVE  c \notin dropped \/ \E r \in Requests : Compares(r, c) /\ ~request[r].member
<1>1. ASSUME NEW r \in Requests, CheckObserved(r) PROVE c \notin dropped \/ (Compares(r, c) /\ ~request[r].member)
  <2>1. CASE c \in dropped
    <3>1. request[r].cred = c /\ ~request[r].member
      BY <1>1, <2>1 DEF CheckObserved
    <3>2. profile' = [profile EXCEPT ![c] = [profile[c] EXCEPT !.included = NeverIncluded]]
      BY <1>1, <3>1 DEF CheckObserved
    <3>3. profile'[c].included = NeverIncluded
      BY <3>2 DEF Typed, ProfileRow
    <3> QED
      BY <1>1, <3>1, <3>3 DEF Compares
  <2> QED
    BY <2>1
<1>2. CASE dropped' = dropped
  BY <1>2
<1>3. CASE Builds
  BY <1>3 DEF Builds, Build
<1>4. CASE Apply
  BY <1>4 DEF Apply
<1> QED
  BY <1>1, <1>2, <1>3, <1>4, NodeMoves

(* A step keeps a download's credential, ends the download, or starts one while no other is under way. *)
LEMMA LoadsMove ==
    ASSUME Typed, [Next]_vars, NEW c \in Creds, NEW r \in Requests, Loads(r, c)'
    PROVE  Loads(r, c) \/ (Download(r, c) /\ \A q \in Requests : q # r => request'[q] = request[q])
<1> DEFINE Goal == Loads(r, c) \/ (Download(r, c) /\ \A q \in Requests : q # r => request'[q] = request[q])
<1> SUFFICES Goal
  OBVIOUS
<1>0. request'[r].at \notin {"idle", "create", "manage"} /\ request'[r].op = "download" /\ request'[r].cred = c
  BY DEF Loads, Started
<1>a. ASSUME NEW q \in Requests, NEW state, Go(q, state), state.at \in {"idle", "create", "manage"} PROVE Goal
  <2>1. r # q /\ request'[r] = request[r]
    BY <1>0, <1>a, OthersStay
  <2> QED
    BY <1>0, <2>1 DEF Loads, Started
<1>b. ASSUME NEW q \in Requests, Done(q) PROVE Goal
  BY <1>a, <1>b DEF Done, Idle
<1>c. ASSUME NEW q \in Requests, Started(q), NEW state, Go(q, state), state.op = request[q].op, state.cred = request[q].cred PROVE Goal
  <2>1. CASE r = q
    <3>1. request'[r] = state
      BY <1>c, <2>1, OthersStay
    <3> QED
      BY <1>0, <1>c, <2>1, <3>1 DEF Loads
  <2>2. CASE r # q
    <3>1. request'[r] = request[r]
      BY <1>c, <2>2, OthersStay
    <3> QED
      BY <1>0, <3>1 DEF Loads, Started
  <2> QED
    BY <2>1, <2>2
<1>d. ASSUME NEW q \in Requests, GiveUp(q) PROVE Goal
  BY <1>a, <1>b, <1>d DEF GiveUp
<1>e. ASSUME NEW q \in Requests, NEW state, Go(q, state), state.op # "download" PROVE Goal
  <2>1. r # q /\ request'[r] = request[r]
    BY <1>0, <1>e, OthersStay
  <2> QED
    BY <1>0, <2>1 DEF Loads, Started
<1>1. ASSUME NEW q \in Requests, NEW op \in {"subscription", "config"}, StartCreate(q, op) PROVE Goal
  BY <1>1, <1>a DEF StartCreate
<1>2. ASSUME NEW q \in Requests, Create(q) PROVE Goal
  BY <1>2, <1>b, <1>e, CreateAdds
<1>3. ASSUME NEW q \in Requests, NEW d \in Creds, Download(q, d) PROVE Goal
  <2>1. PICK at \in {"activate", "desired", "lookup"} : Go(q, [op |-> "download", cred |-> d, at |-> at])
    BY <1>3 DEF Download
  <2>2. CASE r = q
    <3>1. request'[r] = [op |-> "download", cred |-> d, at |-> at]
      BY <2>1, <2>2, OthersStay
    <3>2. c = d
      BY <1>0, <3>1
    <3>3. \A p \in Requests : p # r => request'[p] = request[p]
      BY <2>1, <2>2, OthersStay
    <3> QED
      BY <1>3, <2>2, <3>2, <3>3
  <2>3. CASE r # q
    <3>1. request'[r] = request[r]
      BY <2>1, <2>3, OthersStay
    <3> QED
      BY <1>0, <3>1 DEF Loads, Started
  <2> QED
    BY <2>2, <2>3
<1>4. ASSUME NEW q \in Requests, Issue(q) PROVE Goal
  <2>1. request[q] \in Issuing /\ Started(q)
    BY <1>4, RequestRows DEF Issue, Started
  <2>2. [request[q] EXCEPT !.at = "lookup"].op = request[q].op /\ [request[q] EXCEPT !.at = "lookup"].cred = request[q].cred
    BY <2>1 DEF Issuing
  <2> QED
    BY <1>4, <1>c, <1>d, <2>1, <2>2 DEF Issue
<1>5. ASSUME NEW q \in Requests, Lookup(q) PROVE Goal
  <2>1. request[q] \in Issuing /\ Started(q)
    BY <1>5, RequestRows DEF Lookup, Started
  <2>2. [request[q] EXCEPT !.at = "reuse"].op = request[q].op /\ [request[q] EXCEPT !.at = "reuse"].cred = request[q].cred
    BY <2>1 DEF Issuing
  <2>3. ASSUME NEW a, NEW place, Go(q, At(q, place, a)) PROVE Goal
    <3>1. At(q, place, a).op = request[q].op /\ At(q, place, a).cred = request[q].cred
      BY DEF At
    <3> QED
      BY <1>c, <2>1, <2>3, <3>1
  <2> QED
    BY <1>5, <1>c, <2>1, <2>2, <2>3, LookupFinds
<1>6. ASSUME NEW q \in Requests, Reactivate(q) PROVE Goal
  <2>1. request[q] \in Addressing /\ Started(q)
    BY <1>6, RequestRows DEF Reactivate, Started
  <2>2. [request[q] EXCEPT !.at = "save"].op = request[q].op /\ [request[q] EXCEPT !.at = "save"].cred = request[q].cred
    BY <2>1 DEF Addressing
  <2> QED
    BY <1>6, <1>c, <2>1, <2>2 DEF Reactivate
<1>f. ASSUME NEW q \in Requests, Started(q), NEW a \in Addresses, Takes(q, a) PROVE Goal
  <2>1. At(q, "save", a).op = request[q].op /\ At(q, "save", a).cred = request[q].cred
    BY DEF At
  <2> QED
    BY <1>c, <1>f, <2>1 DEF Takes
<1>7. ASSUME NEW q \in Requests, Reuse(q) PROVE Goal
  <2>1. Started(q)
    BY <1>7 DEF Reuse, Started
  <2>2. ASSUME NEW tried, Go(q, [at |-> "insert", op |-> request[q].op, cred |-> request[q].cred, tried |-> tried]) PROVE Goal
    BY <1>c, <2>1, <2>2
  <2> QED
    BY <1>7, <1>d, <1>f, <2>1, <2>2, ReuseTakes
<1>8. ASSUME NEW q \in Requests, Insert(q) PROVE Goal
  <2>1. Started(q) /\ request[q] \in Inserting
    BY <1>8, RequestRows DEF Insert, Started
  <2>2. ASSUME NEW a \in Addresses, Go(q, [request[q] EXCEPT !.tried = request[q].tried \cup {a}]) PROVE Goal
    <3>1. [request[q] EXCEPT !.tried = request[q].tried \cup {a}].op = request[q].op
          /\ [request[q] EXCEPT !.tried = request[q].tried \cup {a}].cred = request[q].cred
      BY <2>1 DEF Inserting
    <3> QED
      BY <1>c, <2>1, <2>2, <3>1
  <2> QED
    BY <1>8, <1>d, <1>f, <2>1, <2>2, InsertTakes
<1>9. ASSUME NEW q \in Requests, Save(q) PROVE Goal
  BY <1>9, <1>c DEF Save, Started
<1>10. ASSUME NEW q \in Requests, Activate(q) PROVE Goal
  BY <1>10, <1>b, <1>c DEF Activate, Started
<1>11. ASSUME NEW q \in Requests, ActivationBuild(q) PROVE Goal
  <2>1. request[q] \in Issuing /\ Started(q)
    BY <1>11, RequestRows DEF ActivationBuild, Started
  <2>2. [request[q] EXCEPT !.at = "desired"].op = request[q].op /\ [request[q] EXCEPT !.at = "desired"].cred = request[q].cred
    BY <2>1 DEF Issuing
  <2> QED
    BY <1>11, <1>b, <1>c, <2>1, <2>2 DEF ActivationBuild
<1>12. ASSUME NEW q \in Requests, ReadDesired(q) PROVE Goal
  <2>1. request[q].op = "download" /\ Started(q)
    BY <1>12, RequestRows DEF ReadDesired, Answering, Started
  <2> QED
    BY <1>12, <1>c, <2>1 DEF ReadDesired
<1>13. ASSUME NEW q \in Requests, CheckObserved(q) PROVE Goal
  <2>1. request[q].op = "download" /\ Started(q)
    BY <1>13, RequestRows DEF CheckObserved, Comparing, Started
  <2> QED
    BY <1>13, <1>b, <1>c, <2>1 DEF CheckObserved
<1>14. ASSUME NEW q \in Requests, Serve(q) PROVE Goal
  BY <1>14, <1>b DEF Serve
<1>15. ASSUME NEW q \in Requests, OwnerManages(q) \/ AdminManages(q) \/ ManageNext(q) PROVE Goal
  <2>1. PICK ids \in SUBSET Creds, action \in {"enable", "disable", "revoke"}, admin \in BOOLEAN :
           ids # {} /\ Change(q, ids, action, admin)
    BY <1>15, PagesOpen
  <2>2. PICK d \in ids : OneOf(q, ids, d, action, admin)
    BY <2>1, ChangesComeSingly
  <2> QED
    BY <1>a, <1>b, <2>2 DEF OneOf, Done
<1>16. CASE ControllerRestarts
  BY <1>0, <1>16 DEF ControllerRestarts, Idle
<1>17. CASE request' = request
  BY <1>0, <1>17 DEF Loads, Started
<1> QED
  BY <1>1, <1>2, <1>3, <1>4, <1>5, <1>6, <1>7, <1>8, <1>9, <1>10, <1>11, <1>12, <1>13, <1>14, <1>15, <1>16, <1>17
  DEF Next, vars, Proceeds, AccountChanges, Expires, Rebuild, Apply

LEMMA OneDownloadStep == Typed /\ OneDownload /\ [Next]_vars => OneDownload'
<1> SUFFICES ASSUME Typed, OneDownload, [Next]_vars, NEW c \in Creds, NEW q \in Requests, NEW r \in Requests, Loads(q, c)', Loads(r, c)'
             PROVE  q = r
  BY DEF OneDownload
<1>1. ASSUME NEW p \in Requests, NEW o \in Requests, Download(p, c), Loads(o, c) PROVE FALSE
  <2>1. request[o] # Idle /\ request[o].at # "create" /\ request[o].op = "download" /\ request[o].cred = c
    BY <1>1 DEF Loads, Started, Idle
  <2> QED
    BY <1>1, <2>1 DEF Download, Locked
<1>2. CASE Loads(q, c) /\ Loads(r, c)
  BY <1>2 DEF OneDownload
<1>3. ASSUME NEW p \in Requests, NEW o \in Requests, p # o, Download(p, c), \A x \in Requests : x # p => request'[x] = request[x], Loads(o, c)'
      PROVE  FALSE
  <2>1. request'[o] = request[o]
    BY <1>3
  <2>2. Loads(o, c)
    BY <1>3, <2>1 DEF Loads, Started
  <2> QED
    BY <1>1, <1>3, <2>2
<1> QED
  BY <1>2, <1>3, LoadsMove

(* How a request comes to compare revisions, and to serve a file. *)
LEMMA ReadersMove ==
    ASSUME Typed, [Next]_vars, NEW r \in Requests, request'[r].at \in {"observed", "serve"}
    PROVE  \/ request'[r] = request[r]
           \/ /\ ReadDesired(r)
              /\ request'[r] = [at |-> "observed", op |-> "download", cred |-> request[r].cred,
                                member |-> desired.peers[request[r].cred] # None, revision |-> desired.revision]
           \/ /\ CheckObserved(r) /\ request[r].member /\ observed >= Included(request[r].cred, request[r].revision)
              /\ request'[r] = [at |-> "serve", op |-> "download", cred |-> request[r].cred]
<1> DEFINE Goal == \/ request'[r] = request[r]
                   \/ /\ ReadDesired(r)
                      /\ request'[r] = [at |-> "observed", op |-> "download", cred |-> request[r].cred,
                                        member |-> desired.peers[request[r].cred] # None, revision |-> desired.revision]
                   \/ /\ CheckObserved(r) /\ request[r].member /\ observed >= Included(request[r].cred, request[r].revision)
                      /\ request'[r] = [at |-> "serve", op |-> "download", cred |-> request[r].cred]
<1> SUFFICES Goal
  OBVIOUS
<1>a. ASSUME NEW q \in Requests, NEW state, Go(q, state), state.at \notin {"observed", "serve"} PROVE Goal
  BY <1>a, OthersStay
<1>b. ASSUME NEW q \in Requests, Done(q) PROVE Goal
  BY <1>a, <1>b DEF Done, Idle
<1>d. ASSUME NEW q \in Requests, GiveUp(q) PROVE Goal
  BY <1>a, <1>b, <1>d DEF GiveUp
<1>e. ASSUME NEW q \in Requests, NEW at \in {"lookup", "reuse", "save", "desired"}, Go(q, [request[q] EXCEPT !.at = at]),
             request[q] \in Issuing \union Addressing
      PROVE  Goal
  <2>1. [request[q] EXCEPT !.at = at].at = at
    BY <1>e DEF Issuing, Addressing
  <2> QED
    BY <1>a, <1>e, <2>1
<1>1. ASSUME NEW q \in Requests, NEW op \in {"subscription", "config"}, StartCreate(q, op) PROVE Goal
  BY <1>1, <1>a DEF StartCreate
<1>2. ASSUME NEW q \in Requests, Create(q) PROVE Goal
  BY <1>2, <1>a, <1>b, CreateAdds
<1>3. ASSUME NEW q \in Requests, NEW d \in Creds, Download(q, d) PROVE Goal
  <2>1. PICK at \in {"activate", "desired", "lookup"} : Go(q, [op |-> "download", cred |-> d, at |-> at])
    BY <1>3 DEF Download
  <2> QED
    BY <1>a, <2>1
<1>4. ASSUME NEW q \in Requests, Issue(q) PROVE Goal
  BY <1>4, <1>d, <1>e, RequestRows DEF Issue
<1>5. ASSUME NEW q \in Requests, Lookup(q) PROVE Goal
  <2>1. request[q] \in Issuing
    BY <1>5, RequestRows DEF Lookup
  <2>2. ASSUME NEW a \in Addresses, Go(q, At(q, IF lease[a].held THEN "save" ELSE "reactivate", a)) PROVE Goal
    <3>1. At(q, IF lease[a].held THEN "save" ELSE "reactivate", a).at \notin {"observed", "serve"}
      BY DEF At
    <3> QED
      BY <1>a, <2>2, <3>1
  <2> QED
    BY <1>5, <1>e, <2>1, <2>2, LookupFinds DEF RowOf
<1>6. ASSUME NEW q \in Requests, Reactivate(q) PROVE Goal
  BY <1>6, <1>e, RequestRows DEF Reactivate
<1>f. ASSUME NEW q \in Requests, NEW a \in Addresses, Takes(q, a) PROVE Goal
  <2>1. At(q, "save", a).at = "save"
    BY DEF At
  <2> QED
    BY <1>a, <1>f, <2>1 DEF Takes
<1>7. ASSUME NEW q \in Requests, Reuse(q) PROVE Goal
  <2>2. ASSUME NEW tried, Go(q, [at |-> "insert", op |-> request[q].op, cred |-> request[q].cred, tried |-> tried]) PROVE Goal
    BY <1>a, <2>2
  <2> QED
    BY <1>7, <1>d, <1>f, <2>2, ReuseTakes
<1>8. ASSUME NEW q \in Requests, Insert(q) PROVE Goal
  <2>1. request[q] \in Inserting
    BY <1>8, RequestRows DEF Insert
  <2>2. ASSUME NEW a \in Addresses, Go(q, [request[q] EXCEPT !.tried = request[q].tried \cup {a}]) PROVE Goal
    <3>1. [request[q] EXCEPT !.tried = request[q].tried \cup {a}].at = "insert"
      BY <2>1 DEF Inserting
    <3> QED
      BY <1>a, <2>2, <3>1
  <2> QED
    BY <1>8, <1>d, <1>f, <2>2, InsertTakes
<1>9. ASSUME NEW q \in Requests, Save(q) PROVE Goal
  BY <1>9, <1>a DEF Save
<1>10. ASSUME NEW q \in Requests, Activate(q) PROVE Goal
  BY <1>10, <1>a, <1>b DEF Activate
<1>11. ASSUME NEW q \in Requests, ActivationBuild(q) PROVE Goal
  BY <1>11, <1>b, <1>e, RequestRows DEF ActivationBuild
<1>12. ASSUME NEW q \in Requests, ReadDesired(q) PROVE Goal
  <2>1. CASE r = q
    BY <1>12, <2>1, OthersStay DEF ReadDesired
  <2>2. CASE r # q
    BY <1>12, <2>2, OthersStay DEF ReadDesired
  <2> QED
    BY <2>1, <2>2
<1>13. ASSUME NEW q \in Requests, CheckObserved(q) PROVE Goal
  <2>1. CASE Done(q)
    BY <1>b, <2>1
  <2>2. CASE request[q].member /\ observed >= Included(request[q].cred, request[q].revision)
             /\ Go(q, [at |-> "serve", op |-> "download", cred |-> request[q].cred])
    <3>1. CASE r = q
      BY <1>13, <2>2, <3>1, OthersStay
    <3>2. CASE r # q
      BY <2>2, <3>2, OthersStay
    <3> QED
      BY <3>1, <3>2
  <2> QED
    BY <1>13, <2>1, <2>2 DEF CheckObserved
<1>14. ASSUME NEW q \in Requests, Serve(q) PROVE Goal
  BY <1>14, <1>b DEF Serve
<1>15. ASSUME NEW q \in Requests, OwnerManages(q) \/ AdminManages(q) \/ ManageNext(q) PROVE Goal
  <2>1. PICK ids \in SUBSET Creds, action \in {"enable", "disable", "revoke"}, admin \in BOOLEAN :
           ids # {} /\ Change(q, ids, action, admin)
    BY <1>15, PagesOpen
  <2>2. PICK d \in ids : OneOf(q, ids, d, action, admin)
    BY <2>1, ChangesComeSingly
  <2> QED
    BY <1>a, <1>b, <2>2 DEF OneOf, Done
<1>16. CASE ControllerRestarts
  BY <1>16 DEF ControllerRestarts, Idle
<1>17. CASE request' = request
  BY <1>17
<1> QED
  BY <1>1, <1>2, <1>3, <1>4, <1>5, <1>6, <1>7, <1>8, <1>9, <1>10, <1>11, <1>12, <1>13, <1>14, <1>15, <1>16, <1>17
  DEF Next, vars, Proceeds, AccountChanges, Expires, Rebuild, Apply

LEMMA ComparedOnes ==
    ASSUME Typed, NEW r \in Requests, NEW c \in Creds, CheckObserved(r), request[r].cred = c
    PROVE  /\ Loads(r, c) /\ request[r].at = "observed" /\ request[r].revision \in Nat /\ request[r].member \in BOOLEAN
           /\ ~request[r].member => request'[r] = Idle
<1>1. request[r] \in Comparing /\ request[r].at = "observed"
  BY RequestRows DEF CheckObserved
<1>2. ~request[r].member => request'[r] = Idle
  BY OthersStay DEF CheckObserved, Done
<1> QED
  BY <1>1, <1>2 DEF Comparing, Loads, Started

(* The revision a comparison goes by has the credential, and so have all later ones. *)
LEMMA ComparedFrom ==
    ASSUME Typed, IncludedSince, ReadersKnow, NEW r \in Requests, NEW c \in Creds, CheckObserved(r), request[r].cred = c,
           request[r].member, c \notin dropped
    PROVE  Included(c, request[r].revision) \in Nat /\ From(c, Included(c, request[r].revision))
<1>1. request[r].at = "observed" /\ request[r].revision \in Nat
  BY ComparedOnes
<1>2. From(c, request[r].revision)
  BY <1>1 DEF ReadersKnow
<1>3. profile[c].included \in Nat /\ (profile[c].included # NeverIncluded => From(c, profile[c].included))
  BY DEF Typed, ProfileRow, IncludedSince
<1> QED
  BY <1>1, <1>2, <1>3 DEF Included

LEMMA IncludedStep == Typed /\ InOrder /\ IncludedSince /\ ReadersKnow /\ [Next]_vars => IncludedSince'
<1> SUFFICES ASSUME Typed, InOrder, IncludedSince, ReadersKnow, [Next]_vars, NEW c \in Creds, c \notin dropped',
                    profile'[c].included # NeverIncluded
             PROVE  From(c, profile[c].included)'
  BY DEF IncludedSince
<1>1. ASSUME NEW n \in Nat, From(c, n), profile'[c].included = n PROVE From(c, profile[c].included)'
  <2>1. From(c, n)'
    BY <1>1, FromStays
  <2> QED
    BY <1>1, <2>1 DEF From
<1>2. \A r \in Requests : ~Saves(r, c)
  BY DEF Saves
<1>3. \A r \in Requests : Compares(r, c) => request[r].member
  BY DEF Compares
<1>4. c \notin dropped
  BY <1>3, DroppedMoves
<1>5. CASE profile'[c].included = profile[c].included
  <2>1. profile[c].included \in Nat /\ From(c, profile[c].included)
    BY <1>4, <1>5 DEF Typed, ProfileRow, IncludedSince
  <2>2. PICK n \in Nat : n = profile[c].included
    BY <2>1
  <2> QED
    BY <1>1, <1>5, <2>1, <2>2
<1>6. ASSUME NEW r \in Requests, Compares(r, c) PROVE From(c, profile[c].included)'
  <2>1. CheckObserved(r) /\ request[r].cred = c /\ request[r].member /\ profile'[c].included = Included(c, request[r].revision)
    BY <1>3, <1>6 DEF Compares
  <2>2. PICK n \in Nat : n = Included(c, request[r].revision) /\ From(c, n)
    BY <1>4, <2>1, ComparedFrom
  <2> QED
    BY <1>1, <2>1, <2>2
<1> QED
  BY <1>2, <1>5, <1>6, ProfilesMove DEF Continues

LEMMA ReadersStep == Typed /\ InOrder /\ OneDownload /\ IncludedSince /\ ReadersKnow /\ [Next]_vars => ReadersKnow'
<1> SUFFICES ASSUME Typed, InOrder, OneDownload, IncludedSince, ReadersKnow, [Next]_vars, NEW r \in Requests, NEW c \in Creds,
                    request'[r].cred = c, c \notin dropped', request'[r].at \in {"observed", "serve"}
             PROVE  /\ request'[r].at = "observed" /\ request'[r].member => From(c, request[r].revision)'
                    /\ request'[r].at = "serve" => From(c, observed)'
  BY DEF ReadersKnow
<1>0. States \subseteq Revision /\ desired \in States /\ Ran \in States /\ observed \in Nat
  BY StatesTyped DEF Typed
<1>1. observed' \in Nat /\ observed' >= observed /\ observed' <= desired'.revision
  <2>1. InOrder' /\ Typed'
    BY OrderStep, TypedStep
  <2>2. desired' \in States' /\ observed' \in Nat
    BY <2>1 DEF States, Typed
  <2>3. observed' >= observed
    BY <1>0, NodeMoves, ApplyMoves DEF Quiet, Builds
  <2> QED
    BY <2>1, <2>2, <2>3 DEF InOrder
<1>a. ASSUME NEW n \in Nat, From(c, n), n <= observed PROVE From(c, observed)'
  <2>1. From(c, n)'
    BY <1>a, FromStays
  <2>2. Typed'
    BY TypedStep
  <2>3. States' \subseteq Revision
    <3>1. \A i \in 1..Len(tasks') : tasks'[i] \in Revision
      BY <2>2 DEF Typed
    <3>2. Ran' \in Revision /\ desired' \in Revision
      BY <2>2 DEF Typed, Ran, Revision
    <3> QED
      BY <3>1, <3>2 DEF States
  <2>4. n <= observed'
    BY <1>0, <1>1, <1>a
  <2>5. \A s \in States' : s.revision >= observed' => Listed(s, c)'
    <3> SUFFICES ASSUME NEW s \in States', s.revision >= observed' PROVE s.peers[c] # None
      BY DEF Listed
    <3>1. s.revision \in Nat /\ s.revision >= n
      BY <1>1, <2>3, <2>4 DEF Revision
    <3> QED
      BY <2>1, <3>1 DEF From, Listed
  <2> QED
    BY <1>1, <2>5 DEF From, Listed
<1>b. ASSUME c \notin dropped PROVE /\ request'[r].at = "observed" /\ request'[r].member => From(c, request[r].revision)'
                                    /\ request'[r].at = "serve" => From(c, observed)'
  <2>1. CASE request'[r] = request[r]
    <3>1. ASSUME request[r].at = "observed", request[r].member PROVE From(c, request[r].revision)'
      <4>1. PICK n \in Nat : n = request[r].revision
        BY <3>1, RequestRows DEF Comparing
      <4>2. From(c, n)
        BY <1>b, <2>1, <3>1, <4>1 DEF ReadersKnow
      <4>3. From(c, n)'
        BY <4>2, FromStays
      <4> QED
        BY <2>1, <4>1, <4>3 DEF From
    <3>2. ASSUME request[r].at = "serve" PROVE From(c, observed)'
      <4>1. PICK n \in Nat : n = observed
        BY <1>0
      <4>2. From(c, n)
        BY <1>b, <2>1, <3>2, <4>1 DEF ReadersKnow
      <4> QED
        BY <1>a, <4>1, <4>2
    <3> QED
      BY <2>1, <3>1, <3>2
  <2>2. CASE /\ ReadDesired(r)
             /\ request'[r] = [at |-> "observed", op |-> "download", cred |-> request[r].cred,
                               member |-> desired.peers[request[r].cred] # None, revision |-> desired.revision]
    <3>1. request[r].cred = c
      BY <2>2
    <3>2. ASSUME desired.peers[c] # None PROVE From(c, request[r].revision)'
      <4>1. PICK n \in Nat : n = desired.revision
        BY <1>0 DEF Revision
      <4>2. ASSUME NEW s \in States, s.revision >= n PROVE Listed(s, c)
        <5>1. s.revision \in Nat /\ s.revision <= n
          BY <1>0, <4>1 DEF Revision, InOrder
        <5>2. s.revision = desired.revision
          BY <4>1, <4>2, <5>1
        <5>3. s.peers = desired.peers
          BY <5>2 DEF InOrder
        <5> QED
          BY <3>2, <5>3 DEF Listed
      <4>3. From(c, n)
        BY <4>1, <4>2 DEF From
      <4>4. From(c, n)'
        BY <4>3, FromStays
      <4>5. request'[r].revision = n
        BY <2>2, <4>1
      <4> QED
        BY <4>4, <4>5 DEF From
    <3>3. request'[r].at = "observed" /\ request'[r].member = (desired.peers[c] # None)
      BY <2>2, <3>1
    <3> QED
      BY <3>2, <3>3
  <2>3. CASE /\ CheckObserved(r) /\ request[r].member /\ observed >= Included(request[r].cred, request[r].revision)
             /\ request'[r] = [at |-> "serve", op |-> "download", cred |-> request[r].cred]
    <3>1. request[r].cred = c
      BY <2>3
    <3>2. PICK n \in Nat : n = Included(c, request[r].revision) /\ From(c, n)
      BY <1>b, <2>3, <3>1, ComparedFrom
    <3>3. n <= observed
      BY <1>0, <2>3, <3>1, <3>2
    <3>4. From(c, observed)'
      BY <1>a, <3>2, <3>3
    <3> QED
      BY <2>3, <3>4
  <2> QED
    BY <2>1, <2>2, <2>3, ReadersMove
<1>c. ASSUME NEW q \in Requests, Compares(q, c), ~request[q].member PROVE c \notin dropped
  <2>1. CheckObserved(q) /\ request[q].cred = c /\ Loads(q, c) /\ request'[q] = Idle
    BY <1>c, ComparedOnes DEF Compares
  <2>2. q # r
    BY <2>1 DEF Idle
  <2>3. request[r].cred = c
    <3>1. CASE request'[r] = request[r]
      BY <3>1
    <3>2. ASSUME request'[r] = [at |-> "observed", op |-> "download", cred |-> request[r].cred,
                                member |-> desired.peers[request[r].cred] # None, revision |-> desired.revision]
          PROVE  request[r].cred = c
      BY <3>2
    <3>3. ASSUME request'[r] = [at |-> "serve", op |-> "download", cred |-> request[r].cred] PROVE request[r].cred = c
      BY <3>3
    <3> QED
      BY <3>1, <3>2, <3>3, ReadersMove
  <2>4. ~Loads(r, c)
    BY <2>1, <2>2 DEF OneDownload
  <2>5. CASE request'[r] = request[r]
    <3>1. request[r].op = "download" /\ Started(r)
      BY <2>5, RequestRows DEF Comparing, Answering, Started
    <3> QED
      BY <2>3, <2>4, <3>1 DEF Loads
  <2>6. CASE ReadDesired(r)
    BY <2>6 DEF ReadDesired, NodeUnchanged
  <2>7. CASE CheckObserved(r)
    BY <2>3, <2>4, <2>7, ComparedOnes
  <2> QED
    BY <2>5, <2>6, <2>7, ReadersMove
<1> QED
  BY <1>b, <1>c, DroppedMoves

Served == InOrder /\ PeersKnown /\ IncludedSince /\ OneDownload /\ ReadersKnow

LEMMA ServedInit == Init => Served
<1> SUFFICES ASSUME Init PROVE Served
  OBVIOUS
<1>1. tasks = <<>> /\ desired = [revision |-> 1, peers |-> NoPeers] /\ running = NoPeers /\ observed = 1
  BY DEF Init
<1>2. States = {desired} /\ Len(tasks) = 0
  BY <1>1 DEF States, Ran
<1>3. \A c \in Creds : ~Listed(desired, c)
  BY <1>1 DEF Listed, NoPeers
<1>4. InOrder
  BY <1>1, <1>2 DEF InOrder
<1>5. PeersKnown
  BY <1>2, <1>3 DEF PeersKnown
<1>6. IncludedSince
  BY DEF Init, IncludedSince, NoProfile
<1>7. \A r \in Requests : request[r] = Idle
  BY DEF Init
<1>8. OneDownload /\ ReadersKnow
  BY <1>7 DEF OneDownload, Loads, Started, ReadersKnow, Idle
<1> QED
  BY <1>4, <1>5, <1>6, <1>8 DEF Served

(* What a subscription serves is applied: the node has the key at the address the file tells, unless a build had left it *)
(* out once before (accessApplied, markIncludedRevision, downloadSubscription).                                          *)
THEOREM ServedAfterApplied == Spec => []ServedIsApplied
<1>1. Typed /\ Owned /\ Served /\ [Next]_vars => Served'
  BY OrderStep, KnownStep, IncludedStep, OneDownloadStep, ReadersStep DEF Served
<1>2. Typed /\ Served => ServedIsApplied
  <2> SUFFICES ASSUME Typed, Served, NEW c \in Creds, Usable(c), c \notin dropped,
                      NEW r \in Requests, request[r].at = "serve", request[r].cred = c
               PROVE  running[c] = profile[c].address
    BY DEF ServedIsApplied, Serving, OnTheNode
  <2>1. From(c, observed)
    BY DEF Served, ReadersKnow
  <2>2. Ran \in States /\ Ran.revision = observed /\ Ran.peers = running /\ observed \in Nat
    BY StatesTyped DEF Ran, Typed
  <2>3. Listed(Ran, c)
    BY <2>1, <2>2 DEF From
  <2>4. cred[c].status = "active"
    BY DEF Usable, EnabledCredential
  <2> QED
    BY <2>2, <2>3, <2>4 DEF Served, PeersKnown
<1> QED
  BY <1>1, <1>2, ServedInit, AddressesOwned, CredentialsTyped, PTL DEF Spec
=============================================================================
