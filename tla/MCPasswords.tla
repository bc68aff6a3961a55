---------------------------- MODULE MCPasswords -----------------------------
(* Instances of Passwords for TLC. *)
EXTENDS Passwords

CONSTANTS p1, p2, p3, u1

MCPolicy(n, most, least, strict) ==
  [history |-> n, maxAge |-> most, minAge |-> least, strict |-> strict]

MCDefault == MCPolicy(4, 0, 0, TRUE)
\* A short history that lets weak passwords in, and an age of at least a day.
MCSettings == {MCPolicy(1, 1, 1, FALSE)}
MCSeedPolicies == {MCPolicy(1, 1, 1, FALSE), NoPolicy}

MCModify(new, tls) == [kind |-> "modify", user |-> u1, secure |-> tls, new |-> new]
MCExtended(old, new, tls) ==
  [kind |-> "extended", user |-> u1, secure |-> tls, old |-> old, new |-> <<new>>]
MCReset(new) == [kind |-> "reset", user |-> u1, secure |-> TRUE, new |-> <<new>>]
MCAsks ==
  {MCModify(new, TRUE) : new \in {<<p1>>, <<p2>>, <<p1, p2>>, <<p3, p1>>}}
  \cup {MCExtended(p1, p2, TRUE), MCExtended(p2, p1, FALSE)}
  \cup {MCReset(p2)}

\* Requests differ only in what they begin with.
RequestSymmetry == Permutations(Requests)
=============================================================================
