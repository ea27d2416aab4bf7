----------------------------- MODULE MCRegister -----------------------------
EXTENDS Register
CONSTANTS gen, lib, exe
MCBuilders == {gen, lib, exe}
(* A generated source in a library, linked by an executable. *)
MCUses == {<<lib, gen>>, <<exe, lib>>}
Others == {c \in MCBuilders \X MCBuilders : c[1] # c[2]}
AllCalls == Others \cup {<<lib, lib>>}
MCSelf == {<<lib, gen>>, <<lib, lib>>, <<exe, lib>>}
=============================================================================
