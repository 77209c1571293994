------------------------------ MODULE MCAccess -----------------------------
(* Tokens files for TLC: a rotation, and the example of the README. *)
EXTENDS Access, TLC

CONSTANTS old, new, env, acme, other, hash, write

RW == [kind |-> "rw"]

RO == [kind |-> "ro"]

Until(t) == [kind |-> "expiry", at |-> t]

W(w) == [kind |-> "word", word |-> w]

KeyLine(t, fs) == [token |-> t, fields |-> fs, comment |-> <<>>]

AdminLine == KeyLine(Minted, <<RW>>)

\* Issue the new key and let the old one lapse, then drop it.
Rotation ==
  << <<AdminLine, KeyLine(old, <<W(acme), RW>>)>>,
     <<AdminLine, KeyLine(old, <<RW, Until(1), W(acme)>>), KeyLine(new, <<RO, W(acme)>>)>>,
     <<KeyLine(new, <<W(acme)>>), AdminLine, KeyLine(new, <<W(acme), RW>>)>> >>

\* acme-author   acme   rw   # scoped, may write
Example ==
  << <<AdminLine, [token |-> new, fields |-> <<W(acme), RW>>,
                 comment |-> <<W(hash), W(write)>>] >> >>

Ask(t, o, m) == [token |-> t, org |-> o, mutates |-> m]

Asks == {Ask(NoToken, acme, FALSE), Ask(env, acme, TRUE), Ask(old, other, FALSE),
         Ask(new, acme, TRUE)}

OneAsk == {Ask(new, acme, TRUE)}

\* Half a request a second; a request and a half with a burst of two; no limit.
Limits == {[rate |-> 1, burst |-> 0], [rate |-> 3, burst |-> 2], [rate |-> 0, burst |-> 5]}

AnyCall == Permutations(Call)

NoLimits == {[rate |-> 0, burst |-> 0]}

=============================================================================
