-------------------------------- MODULE MCFs --------------------------------
(* Instances of Fs for TLC. *)
EXTENDS Fs

CONSTANTS p1, p2

abs(elems) == [abs |-> TRUE, elems |-> elems]
rel(elems) == [abs |-> FALSE, elems |-> elems]

\* A directory in a directory, used from inside and from outside.
Nested == p1 :> {abs(<<"a">>), abs(<<"a", "b">>), rel(<<"b">>), rel(<<"..">>)}

\* A file of the image and a device, used by two processes.
Shared == p1 :> {abs(<<"f">>), abs(<<"dev", "null">>)}
       @@ p2 :> {rel(<<"f">>)}

MakeModes == {{"CREATE", "RDWR", "TRUNC"}, {"CREATE", "DIR"}}
UseModes == {{"DIR"}, {"CREATE", "RDWR", "TRUNC"}}

EmptyFile == <<[name |-> "f", data |-> <<>>]>>
OneFile == <<[name |-> "f", data |-> <<cell(2), cell(2)>>]>>
NoDevices == <<>>
Null == <<"null">>
Rewind == {[off |-> 0, whence |-> "SET"]}

\* To the start, and to an offset just below OFF_MOD, as lseek(fd, -1, SEEK_SET)
\* makes it: past the end of every file, and wrapping with any length added.
FarSeeks == {[off |-> 0, whence |-> "SET"], [off |-> -1, whence |-> "SET"]}
=============================================================================
