----------------------------- MODULE MCVolumes -----------------------------
(* Volumes for TLC: three machines, two disks, in one zone or in two.      *)
EXTENDS Volumes

CONSTANTS m1, m2, m3, d1, d2, z1, z2

Place(far) == [x \in {m1, m2, m3, d1, d2} |-> IF x \in far THEN z2 ELSE z1]

\* Everything in one zone; a machine and a disk in another; two
\* machines with one disk between them.
MCLayouts == {Place({}), Place({m2, d2}), Place({d2})}
=============================================================================
