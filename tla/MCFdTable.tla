----------------------------- MODULE MCFdTable ------------------------------
(***************************************************************************)
(* FlFdTable with a descriptor that is read and written (two entries are   *)
(* possible, or one for both events) and others that are only read.        *)
(***************************************************************************)
EXTENDS FlFdTable

CONSTANTS in, out, Written

MCEvents   == {in, out}
MCEventsOf == [n \in Fds |-> IF n \in Written THEN MCEvents ELSE {in}]
=============================================================================
