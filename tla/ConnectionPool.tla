---------------------------- MODULE ConnectionPool ----------------------------
(* The Controller's PostgreSQL pool (server/db.ts) and the calls that share    *)
(* it.  A statement borrows one of PoolMax connections and gives it back; a    *)
(* transaction keeps one for as long as it is open.  Two transactions,         *)
(* ensureStealthServer (server/stealth.ts) and configureReality               *)
(* (server/reality.ts), send further statements through the pool WHILE they    *)
(* hold a connection and an advisory lock.  The pool is created without a      *)
(* connection timeout, so a call that finds no free connection waits for ever. *)
(*                                                                             *)
(* Every call happens once: a finite set of requests is one burst of work.     *)
(* pg's queue of waiting calls is left open (any of them may be served next),  *)
(* which allows every order the real queue can produce.                        *)
EXTENDS Naturals, FiniteSets

CONSTANTS
    Statements,  \* calls of one statement, or of a transaction that only uses its own client
    Builders,    \* calls of ensureStealthServer and ensureRealityService
    Realities,   \* the builders that are ensureRealityService: their rows are written in the transaction
    Keys,        \* what they make: the stealth keys or the REALITY keys of a node, one advisory lock each
    KeyOf,       \* what each builder makes
    PoolMax,     \* VEILBIRD_DB_POOL_MAX
    MaxFailures  \* bound: statements that fail

Calls == Statements \cup Builders

Nobody == "nobody"   \* nobody holds a lock, no keys are known yet

PoolAssumption ==
    /\ IsFiniteSet(Statements) /\ IsFiniteSet(Builders)
    /\ Statements \cap Builders = {}
    /\ Realities \subseteq Builders
    /\ Nobody \notin Builders
    /\ KeyOf \in [Builders -> Keys]
    /\ PoolMax \in Nat
    /\ MaxFailures \in Nat

VARIABLES
    ready,     \* readyPromise: "no", "seeding" (pending) or "yes" (resolved)
    idle,      \* connections nobody uses
    at,        \* where each call is
    got,       \* the calls with a connection for one statement
    open,      \* the calls with a connection for their transaction
    lock,      \* who holds each advisory lock
    keys,      \* the materials made for each key, named by the builder that made them
    result,    \* what each builder returns: the builder whose keys it uses
    failures   \* statements that failed so far

vars == <<ready, idle, at, got, open, lock, keys, result, failures>>

(* The steps at which a call sends a statement through the pool.               *)
Sending == {"seed", "statement", "look", "check", "make", "read"}
(* The steps of a builder between BEGIN and COMMIT.                            *)
Inside == {"lock", "check", "make", "commit"}

TypeOK ==
    /\ ready \in {"no", "seeding", "yes"}
    /\ idle \in Nat
    /\ at \in [Calls -> {"off", "waiting", "begin", "done"} \cup Sending \cup Inside]
    /\ got \in SUBSET Calls
    /\ open \in SUBSET Builders
    /\ lock \in [Keys -> Builders \cup {Nobody}]
    /\ keys \in [Keys -> SUBSET Builders]
    /\ result \in [Builders -> Builders \cup {Nobody}]
    /\ failures \in 0 .. MaxFailures

Init ==
    /\ ready = "no"
    /\ idle = PoolMax
    /\ at = [c \in Calls |-> "off"]
    /\ got = {}
    /\ open = {}
    /\ lock = [k \in Keys |-> Nobody]
    /\ keys = [k \in Keys |-> {}]
    /\ result = [b \in Builders |-> Nobody]
    /\ failures = 0

First(c) == IF c \in Builders THEN "look" ELSE "statement"
GoTo(c, step) == at' = [at EXCEPT ![c] = step]

-----------------------------------------------------------------------------
(* ensureReady: the first call runs the start-up statements; the others await  *)
(* the same promise.                                                           *)
Enter(c) ==
    /\ at[c] = "off"
    /\ \/ ready = "no" /\ ready' = "seeding" /\ GoTo(c, "seed")
       \/ ready = "seeding" /\ ready' = ready /\ GoTo(c, "waiting")
       \/ ready = "yes" /\ ready' = ready /\ GoTo(c, First(c))
    /\ UNCHANGED <<idle, got, open, lock, keys, result, failures>>

Ready(c) ==
    /\ at[c] = "waiting" /\ ready = "yes"
    /\ GoTo(c, First(c))
    /\ UNCHANGED <<ready, idle, got, open, lock, keys, result, failures>>

(* pool.query / pool.connect: take a free connection.                          *)
Borrow(c) ==
    /\ at[c] \in Sending /\ c \notin got
    /\ idle > 0
    /\ idle' = idle - 1
    /\ got' = got \cup {c}
    /\ UNCHANGED <<ready, at, open, lock, keys, result, failures>>

(* The statement is answered and its connection goes back.                     *)
Returned(c) == got' = got \ {c} /\ idle' = idle + 1

Seeded(c) ==
    /\ at[c] = "seed" /\ c \in got
    /\ Returned(c)
    /\ ready' = "yes"
    /\ GoTo(c, First(c))
    /\ UNCHANGED <<open, lock, keys, result, failures>>

Answered(c) ==
    /\ at[c] \in {"statement", "read"} /\ c \in got
    /\ Returned(c)
    /\ GoTo(c, "done")
    /\ UNCHANGED <<ready, open, lock, keys, result, failures>>

(* The first, unlocked look: keys that exist are used as they are.             *)
Look(c) ==
    /\ at[c] = "look" /\ c \in got
    /\ Returned(c)
    /\ \/ /\ keys[KeyOf[c]] = {}
          /\ GoTo(c, "begin") /\ result' = result
       \/ \E k \in keys[KeyOf[c]] :
             /\ result' = [result EXCEPT ![c] = k]
             /\ GoTo(c, IF c \in Realities THEN "done" ELSE "read")
    /\ UNCHANGED <<ready, open, lock, keys, failures>>

(* withTransaction: a connection for BEGIN, kept until COMMIT or ROLLBACK.     *)
Begin(c) ==
    /\ at[c] = "begin" /\ idle > 0
    /\ idle' = idle - 1
    /\ open' = open \cup {c}
    /\ GoTo(c, "lock")
    /\ UNCHANGED <<ready, got, lock, keys, result, failures>>

(* SELECT pg_advisory_xact_lock: waits in the database, connection in hand.    *)
Lock(c) ==
    /\ at[c] = "lock" /\ lock[KeyOf[c]] = Nobody
    /\ lock' = [lock EXCEPT ![KeyOf[c]] = c]
    /\ GoTo(c, "check")
    /\ UNCHANGED <<ready, idle, got, open, keys, result, failures>>

(* A slip: without the second look under the lock.                             *)
NoSecondLook(c) ==
    /\ at[c] = "check" /\ c \in got
    /\ Returned(c)
    /\ GoTo(c, "make") /\ result' = result
    /\ UNCHANGED <<ready, open, lock, keys, failures>>

(* The second look, under the lock but through the pool.                       *)
Check(c) ==
    /\ at[c] = "check" /\ c \in got
    /\ Returned(c)
    /\ \/ /\ keys[KeyOf[c]] = {} /\ c \in Realities
          /\ GoTo(c, "commit") /\ result' = [result EXCEPT ![c] = c]
       \/ /\ keys[KeyOf[c]] = {} /\ c \notin Realities
          /\ GoTo(c, "make") /\ result' = result
       \/ \E k \in keys[KeyOf[c]] :
             result' = [result EXCEPT ![c] = k] /\ GoTo(c, "commit")
    /\ UNCHANGED <<ready, open, lock, keys, failures>>

(* ensureStealthServer writes the new keys through the pool: committed at once. *)
Make(c) ==
    /\ at[c] = "make" /\ c \in got
    /\ Returned(c)
    /\ keys' = [keys EXCEPT ![KeyOf[c]] = @ \cup {c}]
    /\ result' = [result EXCEPT ![c] = c]
    /\ GoTo(c, "commit")
    /\ UNCHANGED <<ready, open, lock, failures>>

Unlocked(c) == lock' = [k \in Keys |-> IF lock[k] = c THEN Nobody ELSE lock[k]]

(* COMMIT publishes what the transaction wrote and releases the lock,          *)
(* client.release() gives the connection back; the caller then reads the row.  *)
Commit(c) ==
    /\ at[c] = "commit"
    /\ keys' = [keys EXCEPT ![KeyOf[c]] = @ \cup {result[c]}]
    /\ Unlocked(c)
    /\ open' = open \ {c}
    /\ idle' = idle + 1
    /\ GoTo(c, "read")
    /\ UNCHANGED <<ready, got, result, failures>>

-----------------------------------------------------------------------------
(* A statement fails.                                                          *)
Failing(c) ==
    /\ c \in got /\ failures < MaxFailures
    /\ failures' = failures + 1

(* The start-up statements fail: every call awaiting the promise fails with    *)
(* it, and the next call starts them again.                                    *)
SeedFails(c) ==
    /\ at[c] = "seed" /\ Failing(c)
    /\ Returned(c)
    /\ ready' = "no"
    /\ at' = [d \in Calls |-> IF d = c \/ at[d] = "waiting" THEN "done" ELSE at[d]]
    /\ UNCHANGED <<open, lock, keys, result>>

(* Any other statement fails: an open transaction is rolled back, its lock and *)
(* its connection are released.                                                *)
Fails(c) ==
    /\ at[c] \in Sending \ {"seed"} /\ Failing(c)
    /\ got' = got \ {c}
    /\ IF c \in open THEN open' = open \ {c} /\ idle' = idle + 2
                     ELSE open' = open /\ idle' = idle + 1
    /\ Unlocked(c)
    /\ GoTo(c, "done")
    /\ UNCHANGED <<ready, keys, result>>

Step(c) ==
    \/ Enter(c) \/ Ready(c) \/ Borrow(c)
    \/ Seeded(c) \/ Answered(c) \/ SeedFails(c) \/ Fails(c)

BuilderStep(b) == Look(b) \/ Begin(b) \/ Lock(b) \/ Check(b) \/ Make(b) \/ Commit(b)

Next == (\E c \in Calls : Step(c)) \/ (\E b \in Builders : BuilderStep(b))

Spec == Init /\ [][Next]_vars

-----------------------------------------------------------------------------
(* "A concurrent builder may have won the lock first; keep its keys."           *)
(* (server/stealth.ts:58): a builder that waits for the lock comes to look in  *)
(* the end, so when every connection is taken, some call has one for a         *)
(* statement of its own or is about to commit, and gives it back.  The code    *)
(* does not keep this: with as many builders as connections, each of them can  *)
(* hold an open transaction that waits for a second connection, or for the     *)
(* lock of one that does, and the Controller stops answering.                  *)
NeverStuck == idle = 0 => got # {} \/ \E b \in open : at[b] = "commit"

(* The builders are the only way to lock it up, and it takes PoolMax of them   *)
(* at once: whatever fails or is rolled back, no other call keeps a connection *)
(* it does not use.                                                            *)
OnlyBuildsBlock ==
    ~NeverStuck => Cardinality(open) = PoolMax /\ \A b \in open : at[b] \in Inside \ {"commit"}

(* A node has one set of keys of a kind, however many builders race for them,  *)
(* and every builder that is past its transaction works with that set: apps    *)
(* that pin another certificate than the node's cannot connect.                *)
OneServer ==
    /\ \A k \in Keys : Cardinality(keys[k]) <= 1
    /\ \A b \in Builders : at[b] = "read" => result[b] \in keys[KeyOf[b]]
=============================================================================
