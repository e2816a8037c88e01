------------------------ MODULE MCEventDispatcher ------------------------
(* Small instances of EventDispatcher for TLC.                             *)
EXTENDS EventDispatcher

CONSTANTS a, b, u1, u2, w1

OneName == {a}
TwoNames == {a, b}
OneUser == {u1}
TwoUsers == {u1, u2}
OneWorker == {w1}

Takes == {"pop", "pop all", "wait"}
Clears == {"pop", "clear", "clear all"}
KeepsAndClears == {"pop all", "wait keep", "clear", "clear all"}
TakesAndMatches == Takes \union {"pop events"}

Second == {2}
=============================================================================
