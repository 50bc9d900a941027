------------------------------ MODULE MCGCode ------------------------------
EXTENDS GCodeProperties

Line(words) == [jog |-> FALSE, words |-> words]
Jog(words) == [jog |-> TRUE, words |-> words]

MCFeatures == AllFeatures \ {"deactivateParking"}
MCSystems == <<"G54", "G55">>

MCLines ==
    {Line(<<<<"G", 100>>, <<"X", 2>>, <<"F", 1>>>>),
     Line(<<<<"G", 0>>, <<"G", 5500>>, <<"X", 1>>, <<"Z", 1>>>>),
     Line(<<<<"G", 9100>>, <<"G", 2000>>, <<"G", 0>>, <<"X", 1>>, <<"M", 3>>, <<"S", 5>>>>),
     Line(<<<<"G", 200>>, <<"X", 2>>, <<"I", 1>>, <<"F", 1>>>>),
     Line(<<<<"G", 5500>>, <<"G", 9200>>, <<"X", 3>>, <<"Z", 1>>>>),
     Line(<<<<"G", 1000>>, <<"L", 20>>, <<"P", 0>>, <<"X", 1>>, <<"Z", 2>>>>),
     Line(<<<<"G", 1000>>, <<"L", 2>>, <<"P", 2>>, <<"X", 1>>>>),
     Line(<<<<"G", 4310>>, <<"Z", 1>>, <<"M", 8>>>>),
     Line(<<<<"G", 2800>>, <<"X", 1>>>>),
     Line(<<<<"G", 3010>>, <<"M", 7>>, <<"S", 7>>>>),
     Line(<<<<"G", 3820>>, <<"X", 3>>, <<"F", 1>>>>),
     Line(<<<<"G", 3830>>, <<"Z", 2>>, <<"F", 1>>, <<"M", 4>>, <<"S", 5>>>>),
     Line(<<<<"M", 56>>, <<"P", 0>>>>),
     Line(<<<<"M", 62>>, <<"P", 1>>, <<"M", 0>>>>),
     Line(<<<<"M", 68>>, <<"E", 4>>, <<"Q", 50>>, <<"S", 5>>, <<"M", 3>>>>),
     Line(<<<<"M", 67>>, <<"E", 1>>, <<"Q", 50>>, <<"G", 400>>, <<"P", 1>>>>),
     Line(<<<<"M", 2>>>>),
     Jog(<<<<"G", 9100>>, <<"X", 2>>, <<"F", 1>>>>),
     Jog(<<<<"F", 1>>>>)}
=============================================================================
