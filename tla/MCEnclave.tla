----------------------------- MODULE MCEnclave -----------------------------
(* Model-checking instances of the enclave life cycle. *)
EXTENDS Enclave, TLC

Symmetry == Permutations(Harts)

\* Measured pages: all of the private memory, or none of it.
Args(epm, epmsize, utm, utmsize, measured) ==
    [epm |-> epm, epmsize |-> epmsize, utm |-> utm, utmsize |-> utmsize,
     runtime |-> epm, user |-> epm, free |-> epm + measured]

NoPages == {}

\* Two enclaves that fit beside each other.
PairArgs == {Args(2, 2, 8, 2, 0), Args(6, 2, 10, 2, 0)}

\* A one-register enclave and one whose private memory takes two registers.
BottomArgs == {Args(2, 2, 8, 2, 0), Args(4, 4, 8, 2, 0), Args(10, 4, 8, 2, 0)}

\* One slot used again and again: a one-page enclave; one whose private memory covers
\* the first one's private and shared memory and takes two PMP registers; one whose
\* shared memory no single PMP register can describe, so that creation fails.
ReuseArgs == {Args(2, 2, 4, 2, 2), Args(2, 6, 8, 2, 6), Args(8, 2, 2, 6, 2)}

OnePagePerRegion == {2, 4, 6, 8}

\* Every monitor call ends; the harts are interchangeable, so one stands for all.
CallsReturn == CallReturns(CHOOSE h \in Harts : TRUE)
=============================================================================
