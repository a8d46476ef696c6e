---------------------------- MODULE MCReference ----------------------------
(***************************************************************************)
(* An instance of Reference for TLC: a profile that both providers list,   *)
(* one that only curl-impersonate does, one that is in the manifest and on *)
(* no list.  Dumps have or lack the marker, digits in front of it, and an  *)
(* empty, a halved, a wrong or a right payload.                            *)
(***************************************************************************)
EXTENDS Reference

MCProfiles == {"chrome-140", "chrome-139", "chrome-131"}

MCDumps ==
    [marker : BOOLEAN, prologue : {0, 1, 2}, digits : {0, 3, 4}, hello : {FALSE}]
        \cup [marker : BOOLEAN, prologue : {0, 1, 2}, digits : {4}, hello : {TRUE}]

=============================================================================
