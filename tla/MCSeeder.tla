------------------------------ MODULE MCSeeder ------------------------------
(***************************************************************************)
(* Instances of Seeder for TLC.                                            *)
(***************************************************************************)
EXTENDS SeederProperties

CONSTANTS k1, k2, admin, jason, james, p1, p2, o1, i1, i2, i3

=============================================================================
