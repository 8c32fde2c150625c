---------------------------------- MODULE Sites ----------------------------------
(* The sites on top of the shared engine (server/sites.ts): administrators     *)
(* create, change and delete them and choose the default one, each request in  *)
(* several statements; a partial unique index allows one default row.  Every   *)
(* request for a page is answered from a copy of the table that is read again  *)
(* after half a minute.                                                        *)
EXTENDS Naturals, FiniteSets

CONSTANTS Ids, Names,   \* possible sites and hostnames
          Requests      \* each handled once

(* There are hostnames enough for the sites.                                   *)
SitesAssumption == \E f \in [Ids -> Names] : \A i, j \in Ids : f[i] = f[j] => i = j

VARIABLES
    sites,      \* [is, domain, default] of each id
    request,    \* of an administrator: [at, kind, id, domain, saw]
    copy,       \* the cached table, with at = FALSE when it has to be read
    reads       \* tables read and not kept yet

vars == <<sites, request, copy, reads>>

NoSite == [is |-> FALSE, domain |-> "none", default |-> FALSE]
NoCopy == [at |-> FALSE]
Waits == [at |-> "new", kind |-> "none", id |-> "none", domain |-> "none", saw |-> {}]
Step(r, at) == request' = [request EXCEPT ![r].at = at]
Stored == {i \in Ids : sites[i].is}
Default == {i \in Stored : sites[i].default}
Kinds == {"create", "update", "default", "delete"}

TypeOK ==
    /\ sites \in [Ids -> [is : BOOLEAN, domain : Names \cup {"none"}, default : BOOLEAN]]
    /\ \A r \in Requests : /\ request[r].at \in {"new", "first", "write", "exists", "unset", "set", "look", "delete", "done"}
                           /\ request[r].saw \subseteq Ids
    /\ \A t \in reads : t \in [Ids -> [is : BOOLEAN, domain : Names \cup {"none"}, default : BOOLEAN]]

(* seed: the deployment's own site, which is the default one; others may have  *)
(* been added since, each with a name of its own.                              *)
Init ==
    /\ \E some \in SUBSET Ids \ {{}} : \E own \in some :
          LET name == CHOOSE f \in [some -> Names] : \A i, j \in some : i # j => f[i] # f[j] IN
          sites = [i \in Ids |-> IF i \in some THEN [is |-> TRUE, domain |-> name[i], default |-> i = own] ELSE NoSite]
    /\ request = [r \in Requests |-> Waits] /\ copy = NoCopy /\ reads = {}

(* assertDomainsFree, of a new name or a changed one.                          *)
Free(i, d) == \A j \in Stored \ {i} : sites[j].domain # d

(* One administrator, one request of each of the routes.                       *)
FirstStep(kind) == CASE kind = "create" -> "first" [] kind = "update" -> "write"
                     [] kind = "default" -> "exists" [] OTHER -> "look"
Ask(r) ==
    /\ request[r].at = "new"
    /\ \E k \in Kinds, i \in Ids, d \in Names :
          /\ k = "create" => \A q \in Requests : request[q].id # i
          /\ (k = "create") # sites[i].is
          /\ k \in {"default", "delete"} => d = CHOOSE n \in Names : TRUE
          /\ request' = [request EXCEPT ![r] = [at |-> FirstStep(k), kind |-> k, id |-> i, domain |-> d, saw |-> {}]]
          /\ k \in {"create", "update"} => Free(i, d)
    /\ UNCHANGED <<sites, copy, reads>>

(* createSite: is it the first one, and then the row; the index refuses a      *)
(* second default.                                                             *)
First(r) ==
    /\ request[r].at = "first"
    /\ request' = [request EXCEPT ![r].at = "write", ![r].saw = Stored]
    /\ UNCHANGED <<sites, copy, reads>>

(* A slip: an index that does not hold the defaults apart.                     *)
Anyone(i, table) == TRUE
Unique(i, table) == \A j \in Ids : table[j].default => j = i

Insert(r) ==
    /\ request[r].at = "write" /\ request[r].kind = "create"
    /\ LET i == request[r].id  first == request[r].saw = {} IN
       IF first => Unique(i, sites)
       THEN /\ sites' = [sites EXCEPT ![i] = [is |-> TRUE, domain |-> request[r].domain, default |-> first]]
            /\ copy' = NoCopy
       ELSE UNCHANGED <<sites, copy>>
    /\ Step(r, "done") /\ UNCHANGED reads

Update(r) ==
    /\ request[r].at = "write" /\ request[r].kind = "update"
    /\ LET i == request[r].id IN
       sites' = IF sites[i].is THEN [sites EXCEPT ![i].domain = request[r].domain] ELSE sites
    /\ copy' = NoCopy /\ Step(r, "done") /\ UNCHANGED reads

(* makeDefaultSite: the site exists; then one transaction takes the flag from  *)
(* the row that had it (a second one waits for that row and then finds nothing *)
(* to take) and gives it to the new one.                                       *)
Exists(r) ==
    /\ request[r].at = "exists"
    /\ Step(r, IF sites[request[r].id].is THEN "unset" ELSE "done")
    /\ UNCHANGED <<sites, copy, reads>>
Unset(r) ==
    /\ request[r].at = "unset"
    /\ request' = [request EXCEPT ![r].at = "set", ![r].saw = Default \ {request[r].id}]
    /\ UNCHANGED <<sites, copy, reads>>
MakeDefault(r) ==
    /\ request[r].at = "set"
    /\ LET i == request[r].id
           cleared == [j \in Ids |-> IF j \in request[r].saw THEN [sites[j] EXCEPT !.default = FALSE] ELSE sites[j]] IN
       IF ~sites[i].is THEN sites' = cleared /\ copy' = NoCopy
       ELSE IF Unique(i, cleared)
       THEN sites' = [cleared EXCEPT ![i].default = TRUE] /\ copy' = NoCopy
       ELSE UNCHANGED <<sites, copy>>
    /\ Step(r, "done") /\ UNCHANGED reads

(* deleteSite: the default site cannot be deleted.                             *)
LookAt(r) ==
    /\ request[r].at = "look"
    /\ Step(r, IF sites[request[r].id].is /\ ~sites[request[r].id].default THEN "delete" ELSE "done")
    /\ UNCHANGED <<sites, copy, reads>>
Delete(r) ==
    /\ request[r].at = "delete"
    /\ sites' = [sites EXCEPT ![request[r].id] = NoSite]
    /\ copy' = NoCopy /\ Step(r, "done") /\ UNCHANGED reads

(* listSites: the table is read, and then kept.                                *)
Read == /\ ~copy.at /\ Cardinality(reads) < 2 /\ reads' = reads \cup {sites}
        /\ UNCHANGED <<sites, request, copy>>
Keep == /\ \E t \in reads : reads' = reads \ {t} /\ copy' = [at |-> TRUE, table |-> t]
        /\ UNCHANGED <<sites, request>>
(* A slip: what is kept is kept for good.                                      *)
NeverExpire == FALSE /\ UNCHANGED vars
Expire == /\ copy.at /\ copy' = NoCopy
          /\ UNCHANGED <<sites, request, reads>>

Handle(r) == First(r) \/ Insert(r) \/ Update(r) \/ Exists(r) \/ Unset(r) \/ MakeDefault(r) \/ LookAt(r) \/ Delete(r)
Next == (\E r \in Requests : Ask(r) \/ Handle(r)) \/ Read \/ Keep \/ Expire

(* Statements return, and half a minute passes.                                *)
Fairness == WF_vars(\E r \in Requests : Handle(r)) /\ WF_vars(Read) /\ WF_vars(Keep) /\ WF_vars(Expire)
Spec == Init /\ [][Next]_vars /\ Fairness

-----------------------------------------------------------------------------
(* There is never more than one default site.                                  *)
OneDefault == Cardinality(Default) <= 1

(* Whatever is read in between, the changes are seen: a copy without them is   *)
(* not served for good.                                                        *)
SitesAreShown == []<>(copy.at /\ copy.table = sites)

(* sites.ts: "The default site carries the system defaults (unknown hosts,     *)
(* native apps), so it cannot be deleted."                                     *)
DefaultStays == [][Default # {} => Default' # {}]_vars

(* Two sites do not share a hostname.                                          *)
DomainsApart == \A i, j \in Stored : i # j => sites[i].domain # sites[j].domain
=============================================================================
