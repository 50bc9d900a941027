---------------------------- MODULE MCVFDSpindle ----------------------------
EXTENDS VFDSpindleProperties

\* M3 S1200, M3 S0 and M5, which leaves the S.
Changes == [Huanyang |-> {},
            H2A |-> {<<"Cw", 120>>, <<"Disable", 120>>},
            YL620 |-> {<<"Cw", 120>>, <<"Cw", 0>>, <<"Disable", 120>>}]

\* The H2A is started and stopped, with a motion before, between or after that.
Calls == [Huanyang |-> 0, H2A |-> 2, YL620 |-> 1]
Motions == [Huanyang |-> 1, H2A |-> 1, YL620 |-> 0]
Resets == [Huanyang |-> 1, H2A |-> 0, YL620 |-> 0]
=============================================================================
