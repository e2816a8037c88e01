----------------------------- MODULE MCTestRunner -----------------------------
(* Small instances of TestRunner for TLC.                                  *)
EXTENDS TestRunner

(* An entry with one class, one with a pattern that matches two, and one   *)
(* that matches none.                                                      *)
Mixed == <<<<"A">>, <<"B", "C">>, <<>>>>
TwoEntries == <<<<"A">>, <<"B">>>>
TwoModules == <<"android_device", "access_point">>

Errors == Operations
NoErrors == {}
EveryEnd == AllClassEnds
PassOrFail == {"pass", "fail"}
=============================================================================
