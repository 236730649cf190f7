----------------------------- MODULE KeyShares ------------------------------
(***************************************************************************)
(* Backup of the signing key by secret sharing (SplitSecret, CombineShares *)
(* and their arithmetic, internal/service/key_rotation_service.go): the    *)
(* secret is split into Total shares of which any Threshold are meant to   *)
(* give it back.                                                           *)
(***************************************************************************)
EXTENDS Naturals, Sequences, SequencesExt, Functions, Bitwise

CONSTANTS Secrets,       \* the secrets to split: sequences of bytes
          Coefficients,  \* the bytes the random source may return
          Total, Threshold,
          None

VARIABLES secret, shares, restored

vars == <<secret, shares, restored>>

\* The bits of a byte, the lowest first.
Bit(b, i) == (b \div 2^i) % 2

\* a times x in GF(2^8), modulo x^8 + x^4 + x^3 + x + 1.
Doubled(a) == IF a >= 128 THEN ((a * 2) % 256) ^^ 27 ELSE a * 2

gf256Mul(a, b) ==
  FoldLeft(LAMBDA acc, i : [sum |-> IF Bit(b, i) = 1 THEN acc.sum ^^ acc.term ELSE acc.sum,
                            term |-> Doubled(acc.term)],
           [sum |-> 0, term |-> a], <<0, 1, 2, 3, 4, 5, 6, 7>>).sum

\* A plausible bug: one factor too few.
Power253(a) ==
  FoldLeft(LAMBDA acc, i : [prod |-> IF Bit(253, i) = 1 THEN gf256Mul(acc.prod, acc.base) ELSE acc.prod,
                            base |-> gf256Mul(acc.base, acc.base)],
           [prod |-> 1, base |-> a], <<0, 1, 2, 3, 4, 5, 6, 7>>).prod

\* By Fermat a^254 is the inverse of a.
gf256Inverse(a) ==
  FoldLeft(LAMBDA acc, i : [prod |-> IF Bit(254, i) = 1 THEN gf256Mul(acc.prod, acc.base) ELSE acc.prod,
                            base |-> gf256Mul(acc.base, acc.base)],
           [prod |-> 1, base |-> a], <<0, 1, 2, 3, 4, 5, 6, 7>>).prod

gf256Div(a, b) == IF b = 0 THEN 0 ELSE gf256Mul(a, gf256Inverse(b))

\* Horner's rule, the constant term first.
evalPolynomial(c, x) == FoldRight(LAMBDA coefficient, acc : gf256Mul(acc, x) ^^ coefficient, c, 0)

\* Only the first byte of the secret is looked at.
SplitSecret(s, random) ==
  LET c == <<s[1]>> \o random
  IN  [i \in 1..Total |-> [index |-> i, data |-> evalPolynomial(c, i)]]

\* Lagrange interpolation at 0 over the first Threshold of the shares given.
CombineShares(given) ==
  LET M == 1..Threshold
      Product(f) == FoldFunction(gf256Mul, 1, f)
      Others(i) == M \ {i}
      Basis(i) == gf256Div(Product([j \in Others(i) |-> given[j].index]),
                           Product([j \in Others(i) |-> given[i].index ^^ given[j].index]))
  IN  <<FoldFunction(LAMBDA a, b : a ^^ b, 0, [i \in M |-> gf256Mul(given[i].data, Basis(i))])>>

Init ==
  /\ secret \in Secrets
  /\ shares = <<>>
  /\ restored = None

Split ==
  /\ shares = <<>>
  /\ \E random \in [1..(Threshold - 1) -> Coefficients] : shares' = SplitSecret(secret, random)
  /\ UNCHANGED <<secret, restored>>

\* Any Threshold of the shares, in any order.
Combine ==
  /\ shares # <<>> /\ restored = None
  /\ \E pick \in [1..Threshold -> 1..Total] :
       /\ IsInjective(pick)
       /\ restored' = CombineShares([i \in 1..Threshold |-> shares[pick[i]]])
  /\ UNCHANGED <<secret, shares>>

Next == Split \/ Combine

Spec == Init /\ [][Next]_vars
-----------------------------------------------------------------------------
\* Any Threshold shares, in any order, give back the first byte of the secret,
\* whatever the random coefficients were: the arithmetic of the field and the
\* interpolation are right.
FirstByteRestored == restored # None => restored[1] = secret[1]

\* "SplitSecret splits a secret into N shares, requiring M to reconstruct."
SecretRestored == restored # None => restored = secret
=============================================================================
