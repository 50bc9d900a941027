------------------------------ MODULE MCSDJobs ------------------------------
EXTENDS SDJobsProperties

\* A file with an empty line and a last line without an end, and one with a
\* line that is refused; a file that is uploaded may have a line that is too long.
Program == <<"a", "b", "NL", "NL", "c">>
Faulty == <<"a", "NL", "x", "NL", "b", "NL">>
Long == <<"b", "b", "b">>
Short == <<"a", "NL", "c">>

NoFiles == [n \in {} |-> <<>>]
MCInitialFiles == {"f" :> Program, "f" :> Faulty, NoFiles}
MCUploads == {Long, Short}
MCRefused == {<<"x">>}
MCUnsupported == {<<"c">>}
=============================================================================
