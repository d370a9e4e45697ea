------------------------------ MODULE MCTuning ------------------------------
EXTENDS Tuning

\* The first and the fourth row of COMBOS.
MCCombos == << [cpu |-> 300, hpa |-> <<55, 2, 10>>], [cpu |-> 300, hpa |-> <<45, 3, 12>>] >>

MCDeployed == [ user   |-> [cpu |-> 200, hpa |-> <<55, 2, 10>>],
                stress |-> [cpu |-> 500, hpa |-> <<55, 2, 10>>] ]

\* Both knobs are clamped on one side of it.
MCStarts == { [cpu |-> 950, util |-> 72] }

=============================================================================
