------------------------------ MODULE MCXQueue ------------------------------
(* Instances of XQueue for TLC.                                            *)
EXTENDS XQueueStream

NoConfigs == {}
SmallerConfig == {<<1, 1>>}
=============================================================================
