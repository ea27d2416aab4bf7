------------------------------- MODULE Command -------------------------------
(***************************************************************************)
(* env::Command: identifiers with default values, and patterns that name   *)
(* identifiers.  A pattern stands for the set of those it names; what it   *)
(* constructs is {} when one of them has no value.                         *)
(***************************************************************************)

(* Keys that are there already keep their values. *)
AddDefaultArguments(args, more) ==
  [k \in DOMAIN args \cup DOMAIN more |->
     IF k \in DOMAIN args THEN args[k] ELSE more[k]]

Construct(pattern, args) ==
  IF pattern \subseteq DOMAIN args THEN {[k \in pattern |-> args[k]]} ELSE {}
=============================================================================
