---------------------------- MODULE MCNFSClients ----------------------------
(* NFSClients on small instances: reboots of one principal and of another. *)
EXTENDS NFSClients, TLC

CONSTANTS w1, w2, v1, v2, u, x

Interchangeable ==
    Permutations(Workers) \cup Permutations({v1, v2}) \cup Permutations({u, x})

MCBoots  == [v : {v1, v2}, p : {u, x}]
MCReboot == [v : {v1, v2}, p : {u}]
=============================================================================
