---------------------------- MODULE MCEventLoop ----------------------------
(***************************************************************************)
(* EventLoop for TLC: clients of one kind are interchangeable, descriptor  *)
(* numbers are not (the kernel gives out the lowest).                      *)
(***************************************************************************)
EXTENDS EventLoop, TLC

ClientSymmetry == Permutations(SftClient) \cup Permutations(HttpClient)
==============================================================================
