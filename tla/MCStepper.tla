------------------------------ MODULE MCStepper ------------------------------
EXTENDS StepperProperties

\* A flat line and a steep one.
MCLines == {[X |-> 2, Y |-> 1], [X |-> 1, Y |-> 2]}
=============================================================================
