------------------------------ MODULE MCTestClass ------------------------------
(* Small instances of TestClass for TLC.                                   *)
EXTENDS TestClass

GeneratorAndTest == <<"test_g", "test_t">>
TestMissingGenerator == <<"test_t", "test_missing", "test_g">>
OneSetting == <<"s1">>

AllEnds == Ends
TeardownOrHookEnds == {"none", "abort class", "abort all", "error", "exit"}
HookSample == {"none", "abort all", "error"}
SetupSample == {"none", "false", "skip", "abort class", "exit"}
LoudEnds == Ends \ {"silent"}
Quiet == {"none"}
OnlyAbortAll == {"none", "abort all"}
=============================================================================
