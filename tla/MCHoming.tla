------------------------------ MODULE MCHoming ------------------------------
EXTENDS HomingProperties

\* Axes 1 and 2; axis 1 has one motor, or a pair with one or two switches.
MCAxis == {1, 2}
Single == [motors |-> <<{0}, {0}>>, switches |-> <<{0}, {0}>>]
Pog    == [motors |-> <<{0, 1}, {0}>>, switches |-> <<{0}, {0}>>]
Square == [motors |-> <<{0, 1}, {0}>>, switches |-> <<{0, 1}, {0}>>]

Machine(kind, cycle, rate, pulloff1, allPins) ==
    [motors |-> kind.motors, switches |-> kind.switches, cycle |-> cycle,
     rate |-> rate, maxTravel |-> 2, allPins |-> allPins, order |-> <<1, 2>>,
     pulloff |-> [m \in MCAxis \X {0, 1} |-> IF m = <<1, 1>> THEN pulloff1 ELSE 1]]

MCMachines == {Machine(Single, <<1, 1>>, <<1, 1>>, 1, {}),
               Machine(Single, <<1, 2>>, <<1, 2>>, 1, {2}),
               Machine(Pog, <<1, 2>>, <<1, 1>>, 1, {}),
               Machine(Square, <<2, 1>>, <<1, 1>>, 2, {})}
MCStarts == {0, 2}

=============================================================================
