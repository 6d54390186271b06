---------------------------- MODULE MCAuditSchema ----------------------------
(***************************************************************************)
(* Instances of AuditSchema for TLC: a measure and the index rule after it,*)
(* and the ways two versions of the measure can differ.                    *)
(***************************************************************************)
EXTENDS AuditSchema, TLC
CONSTANTS a, b, c, int, str

def(cols) == <<cols, {<<a, int>>}>>
pair(x, y) == <<def(x), def(y)>>
A == <<a, int>>
B == <<b, int>>
C == <<c, int>>
\* Each version adds a column of its own, or they disagree on one.
MCDeployments == {pair({A, B}, {A, C}), pair({A}, {<<a, str>>})}
MCSameVersion == {pair({A}, {A})}
MCSymmetry == Permutations(Nodes)
=============================================================================
