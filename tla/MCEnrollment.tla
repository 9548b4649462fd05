---------------------------- MODULE MCEnrollment ----------------------------
\* TLC instance of Enrollment.  Attempts are interchangeable.  OldNames are the host names of
\* the machines that had an old agent; a machine that was renamed has reported every name.
EXTENDS Enrollment, TLC

CONSTANTS OldNames, Renamed

NamesByAge == [m \in Machines |-> IF m \in Renamed THEN Names
                                  ELSE IF m \in OldAgents THEN OldNames
                                  ELSE Names \ OldNames]

EnrollSymmetry == Permutations(Attempts)
=============================================================================
