------------------------------ MODULE MCAccess ------------------------------
(* Instances of Access for TLC. *)
EXTENDS Access, TLC

CONSTANT seed

MCRow(name) == [name |-> name, by |-> seed]
MCApi == {MCRow("mfa_key"), MCRow("mfa_secret")}

\* Nothing, a directory, a directory whose API has a second factor.
MCSeedRows == {{}, {MCRow(Context)}, {MCRow(Context)} \cup MCApi}

\* Requests differ only in what they begin with.
RequestSymmetry == Permutations(Requests)
=============================================================================
