------------------------------- MODULE MCCors -------------------------------
EXTENDS Cors

CONSTANTS o1, o2

(* No list, one origin, the other, both.                                   *)
MCAllowLists == {{}, {o1}, {o2}, {o1, o2}}
=============================================================================
