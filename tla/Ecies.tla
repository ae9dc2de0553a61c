------------------------------- MODULE Ecies -------------------------------
(***************************************************************************)
(* The envelopes of pkg/util/ecies: which bytes of a message are what.     *)
(* The daemon seals with them what it asks of the sign service, of the     *)
(* wallet and of the account service, and the account service opens the    *)
(* "verified" field of an operator's request.                              *)
(*                                                                         *)
(* A byte is a value that says what it is a byte of and at which place, so *)
(* that a cut in the wrong place shows; what curves, ciphers and hashes    *)
(* compute is left out, but for the lengths they work on.                  *)
(***************************************************************************)
EXTENDS Integers, Sequences

(* params.go: the curve's bits, the hash's size and the key's length. *)
P256 == [bits |-> 256, hash |-> 32, key |-> 16]
P384 == [bits |-> 384, hash |-> 48, key |-> 24]
P521 == [bits |-> 521, hash |-> 64, key |-> 32]

BlockSize == 16

Bytes(of, n) == [i \in 1..n |-> <<of, i>>]

(* What a call gives besides bytes. *)
Failed == <<"error">>
Panic  == <<"panic">>

MaxSharedKeyLength(curve) == (curve.bits + 7) \div 8

(* GenerateShared: the x of the shared point, which has x bytes when its   *)
(* leading zeros are dropped, padded to the length of two keys.            *)
GenerateShared(curve, x) ==
  IF 2 * curve.key > MaxSharedKeyLength(curve) THEN Failed
  ELSE IF x > 2 * curve.key THEN Panic
  ELSE Bytes("zero", 2 * curve.key - x) \o Bytes("x", x)

(* concatKDF: a hash of the counter and z in each round, until there are   *)
(* enough bytes.                                                           *)
ConcatKDF(curve, z, length) ==
  LET rounds == (length + curve.hash - 1) \div curve.hash IN
    SubSeq([i \in 1..curve.hash * rounds |-> <<z, i>>], 1, length)

(* deriveKeys: one key to encrypt with, and the hash of one for the tag. *)
DeriveKeys(curve, z) ==
  LET K == ConcatKDF(curve, z, 2 * curve.key) IN
    [ke |-> SubSeq(K, 1, curve.key),
     km |-> Bytes(SubSeq(K, curve.key + 1, 2 * curve.key), curve.hash)]

(* elliptic.Marshal: a byte for the form, and both coordinates. *)
Marshal(curve) == Bytes("R", 1 + 2 * MaxSharedKeyLength(curve))

(* messageTag and symEncrypt, told apart by their keys and arguments. *)
MessageTag(curve, km, em) == Bytes(<<km, em>>, curve.hash)
SymEncrypt(ke, m)         == Bytes("iv", BlockSize) \o [i \in 1..Len(m) |-> <<ke, m[i]>>]
SymDecrypt(ke, em)        ==
  LET text == SubSeq(em, BlockSize + 1, Len(em)) IN
    IF \A i \in 1..Len(text) : text[i][1] = ke
    THEN [i \in 1..Len(text) |-> text[i][2]]
    ELSE Bytes("noise", Len(text))

(* Encrypt.  (An empty message has no envelope, and no error either.) *)
Encrypt(curve, x, m) ==
  LET z == GenerateShared(curve, x) IN
    IF z \in {Failed, Panic} THEN z
    ELSE IF m = <<>> THEN <<>>
    ELSE LET keys == DeriveKeys(curve, z)
             em   == SymEncrypt(keys.ke, m)
         IN Marshal(curve) \o em \o MessageTag(curve, keys.km, em)

(* Mutant: a compressed point. *)
RLenCompressed(curve) == (curve.bits + 7) \div 8 + 1

(* The length at which Decrypt cuts off the point. *)
RLen(curve) == (curve.bits + 7) \div 4

(* Decrypt: the holder of the key gets the same x. *)
Decrypt(curve, x, c) ==
  LET mEnd == Len(c) - curve.hash
      em   == SubSeq(c, RLen(curve) + 1, mEnd)
      z    == GenerateShared(curve, x)
  IN IF \/ Len(c) < RLen(curve) + curve.hash + 1
        \/ SubSeq(c, 1, RLen(curve)) # Marshal(curve)
        \/ z = Failed
     THEN Failed
     ELSE IF z = Panic THEN Panic
     ELSE LET keys == DeriveKeys(curve, z) IN
       IF SubSeq(c, mEnd + 1, Len(c)) # MessageTag(curve, keys.km, em) THEN Failed
       ELSE SymDecrypt(keys.ke, em)

=============================================================================
