------------------------------ MODULE MCDigest ------------------------------
(* A small instance of Digest: a day of 12 units with the digest at 4, give or *)
(* take 1, and runs 3 apart; two users in one of two zones.                    *)
EXTENDS Digest, TLC

CONSTANTS u1, u2

MCUsers == {u1, u2}
MCZones == {0, 5}

UserSymmetry == Permutations(MCUsers)
=============================================================================
