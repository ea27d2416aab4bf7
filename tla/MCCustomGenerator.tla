-------------------------- MODULE MCCustomGenerator --------------------------
EXTENDS CustomGeneratorInvariant
CONSTANTS i1, i2
MCIds == {i1, i2}
BlobEdited == {<<"blob", i1>>}
(* One id with a blob handler, one that comes and goes. *)
MCEdited == {<<"blob", i1>>, <<"time", i1>>, <<"io", i2>>, <<"listed", i2>>}
=============================================================================
