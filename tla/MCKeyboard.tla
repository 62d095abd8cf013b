----------------------------- MODULE MCKeyboard -----------------------------
(* Keyboard with a small key table for TLC. *)
EXTENDS Keyboard

\* Two keys that shift changes, and a key without a character
SmallTable ==
    [s \in {0, 1} |-> [k \in {"a", "b", "dead"} |->
        CASE k = "a" -> IF s = 1 THEN "A" ELSE "a"
          [] k = "b" -> IF s = 1 THEN "B" ELSE "b"
          [] k = "dead" -> NUL]]
=============================================================================
