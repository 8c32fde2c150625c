------------------------------ MODULE Certificates ------------------------------
(* The OpenVPN certificates (server/openvpn-pki.ts): one issuer for all nodes, *)
(* made by whoever needs it first, a certificate and a bundle for each node, a *)
(* certificate for each credential, its rotation, and the serials each node is *)
(* told to refuse.  The list is computed from the state of the credentials, so *)
(* that a suspended account is refused and let in again by builds alone.       *)
EXTENDS Naturals, Sequences, FiniteSets

CONSTANTS
    Nodes,      \* nodes with an OpenVPN service
    Creds,      \* OpenVPN credentials
    Requests,   \* calls of the profile routes in flight
    MaxCerts,   \* bound: client certificates signed
    MaxEvents   \* bound: requests, withdrawals and crashes

CertificateAssumption == Nodes \cap Requests = {} /\ {MaxCerts, MaxEvents} \subseteq Nat

VARIABLES
    issuers,   \* credential_authorities with status active, numbered
    minted,    \* key pairs made for an issuer so far
    cert,      \* certificate_issuances by serial: [owner, issuer, status]
    cred,      \* a credential may be used ("usable"), may not now ("withheld"), never again ("revoked")
    profile,   \* connection_profiles: [cred, serial, status]
    bundle,    \* the server bundle of each node: the issuer in it, 0 before it is made
    desired,   \* the serials the desired state of each node refuses
    refused,   \* the serials each node refuses: the files of its revoked directory
    call,      \* what each request and each node's build is doing
    events

vars == <<issuers, minted, cert, cred, profile, bundle, desired, refused, call, events>>
store == <<issuers, minted, cert, cred, profile>>
node == <<bundle, desired, refused>>

Serials == 1 .. Len(cert)
Idle == [at |-> "idle", cred |-> "none", issuer |-> 0, serial |-> 0, saved |-> 0, old |-> 0, list |-> {}]
Happens == events < MaxEvents /\ events' = events + 1
Goes(x, at) == call' = [call EXCEPT ![x].at = at]
Done(x) == call' = [call EXCEPT ![x] = Idle]

TypeOK ==
    /\ issuers \subseteq 1 .. minted
    /\ \A s \in Serials : cert[s].status \in {"active", "revoked"} /\ cert[s].owner \in Creds \cup Nodes
    /\ cred \in [Creds -> {"usable", "withheld", "revoked"}]
    /\ \A p \in DOMAIN profile : profile[p].serial \in Serials /\ profile[p].status \in {"issued", "active", "expired"}
    /\ bundle \in [Nodes -> 0 .. minted]
    /\ \A n \in Nodes : desired[n] \cup refused[n] \subseteq Serials

Init ==
    /\ issuers = {} /\ minted = 0
    /\ cert = <<>>
    /\ cred = [c \in Creds |-> "usable"]
    /\ profile = <<>>
    /\ bundle = [n \in Nodes |-> 0]
    /\ desired = [n \in Nodes |-> {}] /\ refused = [n \in Nodes |-> {}]
    /\ call = [x \in Nodes \cup Requests |-> Idle]
    /\ events = 0

-----------------------------------------------------------------------------
(* ensureOpenVpnAuthority: look, else make keys, store them and insert the     *)
(* row; the unique index on the active issuer refuses the second of two.       *)

Find(x) ==
    /\ call[x].at = "find"
    /\ \/ \E i \in issuers : call' = [call EXCEPT ![x].issuer = i, ![x].at = IF x \in Nodes THEN "serve" ELSE "certify"]
       \/ issuers = {} /\ Goes(x, "mint")
    /\ UNCHANGED <<store, node, events>>

(* A slip: nothing in the database refuses a second active issuer.             *)
MintAnyway(x) ==
    /\ call[x].at = "mint"
    /\ minted' = minted + 1 /\ issuers' = issuers \cup {minted'} /\ Goes(x, "find")
    /\ UNCHANGED <<cert, cred, profile, node, events>>

Mint(x) ==
    /\ call[x].at = "mint"
    /\ IF issuers = {} THEN minted' = minted + 1 /\ issuers' = {minted'} /\ Goes(x, "find")
                       ELSE UNCHANGED <<minted, issuers>> /\ Done(x)
    /\ UNCHANGED <<cert, cred, profile, node, events>>

Sign(owner, issuer) == cert' = Append(cert, [owner |-> owner, issuer |-> issuer, status |-> "active"])
Active(owner, issuer) == {s \in Serials : cert[s].owner = owner /\ cert[s].issuer = issuer /\ cert[s].status = "active"}
Newest(S) == CHOOSE s \in S : \A t \in S : t <= s

-----------------------------------------------------------------------------
(* A profile is issued or rotated (app/api/v1/profiles).                       *)

Issue(r, c) ==
    /\ call[r] = Idle /\ cred[c] = "usable" /\ Happens
    /\ call' = [call EXCEPT ![r].at = "find", ![r].cred = c]
    /\ UNCHANGED <<store, node>>

Rotate(r, p) ==
    /\ call[r] = Idle /\ cred[profile[p].cred] = "usable" /\ Happens
    /\ call' = [call EXCEPT ![r].at = "find", ![r].cred = profile[p].cred, ![r].old = p]
    /\ UNCHANGED <<store, node>>

(* The newest active certificate is used again; a rotation revokes it first.   *)
Certify(r) ==
    /\ call[r].at = "certify"
    /\ LET mine == Active(call[r].cred, call[r].issuer)
       IN IF mine = {} THEN Goes(r, "sign") /\ cert' = cert
          ELSE IF call[r].old # 0 THEN Goes(r, "sign") /\ cert' = [cert EXCEPT ![Newest(mine)].status = "revoked"]
          ELSE call' = [call EXCEPT ![r].serial = Newest(mine), ![r].at = "save"] /\ cert' = cert
    /\ UNCHANGED <<issuers, minted, cred, profile, node, events>>

SignClient(r) ==
    /\ call[r].at = "sign" /\ Cardinality({s \in Serials : cert[s].owner \in Creds}) < MaxCerts
    /\ Sign(call[r].cred, call[r].issuer)
    /\ call' = [call EXCEPT ![r].serial = Len(cert) + 1, ![r].at = "save"]
    /\ UNCHANGED <<issuers, minted, cred, profile, node, events>>

Save(r) ==
    /\ call[r].at = "save"
    /\ profile' = Append(profile, [cred |-> call[r].cred, serial |-> call[r].serial, status |-> "issued"])
    /\ call' = [call EXCEPT ![r].saved = Len(profile) + 1, ![r].at = "activate"]
    /\ UNCHANGED <<issuers, minted, cert, cred, node, events>>

(* activateProfile asks again whether the credential may be used.              *)
Activate(r) ==
    /\ call[r].at = "activate"
    /\ IF cred[call[r].cred] = "usable"
       THEN profile' = [p \in DOMAIN profile |->
                IF p = call[r].old /\ profile[p].status # "expired" THEN [profile[p] EXCEPT !.status = "expired"]
                ELSE IF p = call[r].saved /\ profile[p].status = "issued" THEN [profile[p] EXCEPT !.status = "active"]
                ELSE profile[p]]
       ELSE profile' = profile
    /\ Done(r)
    /\ UNCHANGED <<issuers, minted, cert, cred, node, events>>

-----------------------------------------------------------------------------
(* A credential is withheld and returned (switches, plans, device limits), or  *)
(* revoked: its certificates first, then the credential.                       *)

Withhold(c) ==
    /\ cred[c] \in {"usable", "withheld"} /\ Happens
    /\ cred' = [cred EXCEPT ![c] = IF @ = "usable" THEN "withheld" ELSE "usable"]
    /\ UNCHANGED <<issuers, minted, cert, profile, node, call>>

RevokeCertificates(r, c) ==
    /\ call[r] = Idle /\ cred[c] # "revoked" /\ Happens
    /\ cert' = [s \in Serials |-> IF cert[s].owner = c THEN [cert[s] EXCEPT !.status = "revoked"] ELSE cert[s]]
    /\ call' = [call EXCEPT ![r].at = "revoke", ![r].cred = c]
    /\ UNCHANGED <<issuers, minted, cred, profile, node>>

RevokeCredential(r) ==
    /\ call[r].at = "revoke"
    /\ cred' = [cred EXCEPT ![call[r].cred] = "revoked"]
    /\ profile' = [p \in DOMAIN profile |-> IF profile[p].cred = call[r].cred
                                            THEN [profile[p] EXCEPT !.status = "expired"] ELSE profile[p]]
    /\ Done(r)
    /\ UNCHANGED <<issuers, minted, cert, node, events>>

-----------------------------------------------------------------------------
(* The build of a node: its bundle, made once, then the list, then the desired *)
(* state; the Agent makes its directory of refused serials equal to it.        *)

(* A slip: the list holds only the certificates that are marked.               *)
MarkedOnly == {s \in Serials : cert[s].owner \in Creds /\ cert[s].status = "revoked"}

(* listRevokedCertificateSerials                                               *)
Refusable == {s \in Serials : cert[s].owner \in Creds /\ (cert[s].status = "revoked" \/ cred[cert[s].owner] # "usable")}

Serve(n) ==
    /\ call[n].at = "serve"
    /\ IF bundle[n] # 0 THEN Goes(n, "list") /\ UNCHANGED <<cert, bundle>>
       ELSE IF Active(n, call[n].issuer) # {} THEN Goes(n, "list") /\ bundle' = [bundle EXCEPT ![n] = call[n].issuer] /\ cert' = cert
       ELSE Sign(n, call[n].issuer) /\ UNCHANGED <<call, bundle>>
    /\ UNCHANGED <<issuers, minted, cred, profile, desired, refused, events>>

List(n) ==
    /\ call[n].at = "list"
    /\ call' = [call EXCEPT ![n].list = Refusable, ![n].at = "write"]
    /\ UNCHANGED <<store, node, events>>

Write(n) ==
    /\ call[n].at = "write"
    /\ desired' = [desired EXCEPT ![n] = call[n].list]
    /\ Done(n)
    /\ UNCHANGED <<store, bundle, refused, events>>

(* Builds come from heartbeats, the safety interval and the routes themselves. *)
Build(n) ==
    /\ call[n] = Idle /\ (bundle[n] = 0 \/ desired[n] # Refusable)
    /\ Goes(n, "find")
    /\ UNCHANGED <<store, node, events>>

Apply(n) ==
    /\ refused[n] # desired[n]
    /\ refused' = [refused EXCEPT ![n] = desired[n]]
    /\ UNCHANGED <<store, bundle, desired, call, events>>

Crash ==
    /\ Happens /\ \E x \in DOMAIN call : call[x] # Idle
    /\ call' = [x \in DOMAIN call |-> Idle]
    /\ UNCHANGED <<store, node>>

NodeStep(n) == Build(n) \/ Find(n) \/ Mint(n) \/ Serve(n) \/ List(n) \/ Write(n) \/ Apply(n)

Next ==
    \/ \E r \in Requests : (\E c \in Creds : Issue(r, c) \/ RevokeCertificates(r, c)) \/ (\E p \in DOMAIN profile : Rotate(r, p))
    \/ \E r \in Requests : Find(r) \/ Mint(r) \/ Certify(r) \/ SignClient(r) \/ Save(r) \/ Activate(r) \/ RevokeCredential(r)
    \/ \E c \in Creds : Withhold(c)
    \/ \E n \in Nodes : NodeStep(n)
    \/ Crash

(* Heartbeats keep coming and the safety interval builds every ten minutes.    *)
Fairness == \A n \in Nodes : WF_vars(NodeStep(n))

Spec == Init /\ [][Next]_vars /\ Fairness

-----------------------------------------------------------------------------
(* Every certificate and every node's bundle come from one issuer, whoever     *)
(* made it first and whatever failed meanwhile: a profile with another CA      *)
(* cannot connect to any node.                                                 *)
IssuersAgree ==
    /\ Cardinality(issuers) <= 1
    /\ \A s \in Serials : cert[s].issuer \in issuers
    /\ \A n \in Nodes : bundle[n] # 0 => bundle[n] \in issuers

(* In the end every node refuses exactly the client certificates that are      *)
(* marked or whose credential may not be used, also one that was signed while  *)
(* its credential was being withdrawn, after the node had been told.           *)
Withdrawn(s) == cert[s].status = "revoked" \/ cred[cert[s].owner] \in {"withheld", "revoked"}
RefusalsSettle == <>[](\A n \in Nodes : refused[n] = {s \in Serials : cert[s].owner \in Creds /\ Withdrawn(s)})
=================================================================================
