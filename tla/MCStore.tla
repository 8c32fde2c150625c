------------------------------- MODULE MCStore -------------------------------
(* Small instances of the eight parts.                                         *)
EXTENDS Store

CONSTANTS c1, c2, c3, c4, k1, k2   \* the calls of the keyed lock and their keys

(* KeyedLock: four calls, three of them with one key.                          *)
FourCalls == {c1, c2, c3, c4}
TwoKeys == {k1, k2}
ThreeShareAKey == [c \in FourCalls |-> IF c = c4 THEN k2 ELSE k1]

(* ConnectionPool: two stealth builds and a REALITY build.                     *)
BuildKey == [b \in {"b1", "b2", "r1"} |-> IF b = "r1" THEN "reality" ELSE "stealth"]

(* NodeRegistry: m2 is a clone of m1, and its endpoint is new.                 *)
KnownAt == [n \in {"n1", "n2", "n3"} |-> CASE n = "n1" -> "e1" [] n = "n2" -> "e3" [] n = "n3" -> None]
MachineAt == [e \in {"e1", "e2", "e3"} |-> CASE e = "e1" -> "m1" [] e = "e2" -> "m2" [] e = "e3" -> "m3"]
CloneKey == [m \in {"m1", "m2", "m3"} |-> IF m = "m3" THEN "k3" ELSE "k1"]

(* UserBundles: u3 names the secrets of u2 by new ids: another content, the same list. *)
UserList == [s \in {"u1", "u2", "u3"} |-> IF s = "u1" THEN 1 ELSE 2]

(* Migrations: the changes after the baseline.                                 *)
Changes == <<"indexes", "limits", "legacy">>

(* Traffic: one account with a WireGuard and a VLESS device, one with a stealth device. *)
Payer == [k \in {"d1", "d2", "d3"} |-> IF k = "d3" THEN "u2" ELSE "u1"]
ProtocolOf == [k \in {"d1", "d2", "d3"} |-> CASE k = "d1" -> "wireguard" [] k = "d2" -> "vless" [] k = "d3" -> "stealth"]
==============================================================================
