----------------------------- MODULE KycProofs -----------------------------
(***************************************************************************)
(* The list of users, page by page, for any number of users, any length    *)
(* asked for and any clock: every user is given once, in order, and the    *)
(* list is complete when it ends, though users sign up all the while.      *)
(*                                                                         *)
(* The argument: as long as the operator goes on, the pages it has read    *)
(* were full, for a page that is not full reaches the total that was       *)
(* counted just before it; so page p begins where page p - 1 ended.        *)
(***************************************************************************)
EXTENDS Kyc, SequenceTheorems, TLAPS

UpTo(n) == [i \in 1..n |-> i]

ListInv ==
  /\ rows \in Nat
  /\ limit \in Int
  /\ page \in Nat \ {0}
  /\ total \in Nat
  /\ ended \in BOOLEAN
  /\ request.at = "counted" => request.total \in Nat /\ request.total <= rows
  /\ ended => request = NoRequest /\ total <= Len(seen)
  /\ \E n \in Nat :
       /\ seen = UpTo(n)
       /\ ~ended => n = (page - 1) * GetLimit(limit)
       /\ n <= rows

(* The length of a page is a number of its own. *)
LEMMA LimitIsPositive ==
  ASSUME NEW l \in Int
  PROVE  GetLimit(l) \in Nat \ {0}
  BY DEF GetLimit

(* A page that begins where the list ends continues it. *)
LEMMA PageContinues ==
  ASSUME NEW n \in Nat, NEW k \in Nat
  PROVE  UpTo(n) \o [i \in 1..k |-> n + i] = UpTo(n + k)
<1> DEFINE s == UpTo(n)
           t == [i \in 1..k |-> n + i]
<1>1. s \in Seq(Nat) /\ Len(s) = n /\ t \in Seq(Nat) /\ Len(t) = k
  BY DEF UpTo
<1>2. s \o t \in Seq(Nat) /\ Len(s \o t) = n + k
  BY <1>1, ConcatProperties
<1>3. \A i \in 1..n + k : (s \o t)[i] = i
  BY <1>1 DEF UpTo
<1>4. UpTo(n + k) \in Seq(Nat) /\ Len(UpTo(n + k)) = n + k
  BY DEF UpTo
<1>5. \A i \in 1..n + k : UpTo(n + k)[i] = i
  BY DEF UpTo
<1> HIDE DEF s, t
<1> QED
  BY <1>2, <1>3, <1>4, <1>5, SeqEqual DEF s, t

LEMMA InitList == ASSUME Init PROVE ListInv
<1> USE KycAssumption DEF Init
<1>1. seen = UpTo(0)
  BY DEF UpTo
<1>2. request.at = "none" /\ limit \in Int /\ rows \in Nat
  BY DEF NoRequest
<1>3. 0 = (page - 1) * GetLimit(limit)
  BY LimitIsPositive, <1>2
<1>4. \E n \in Nat : seen = UpTo(n) /\ n = (page - 1) * GetLimit(limit) /\ n <= rows
  <2> WITNESS 0 \in Nat
  <2> QED
    BY <1>1, <1>2, <1>3
<1>5. page \in Nat \ {0} /\ total \in Nat /\ request.at # "counted"
  BY <1>2
<1>6. ended = FALSE /\ ended \in BOOLEAN
  BY Zenon
<1> QED
  BY <1>2, <1>4, <1>5, <1>6, Zenon DEF ListInv

(* The one step that adds to the list. *)
LEMMA ListStep == ASSUME ListInv, List PROVE ListInv'
<1> DEFINE g == GetLimit(limit)
           k == IF rows <= (page - 1) * g THEN 0
                ELSE IF rows - (page - 1) * g < g THEN rows - (page - 1) * g ELSE g
<1>1. ~ended
  BY DEF ListInv, List, NoRequest
<1>2. PICK n \in Nat : seen = UpTo(n) /\ n = (page - 1) * g /\ n <= rows
  BY <1>1 DEF ListInv
<1>3. g \in Nat \ {0} /\ page \in Nat \ {0} /\ rows \in Nat
  BY LimitIsPositive DEF ListInv
<1>4. GetFrom(page, limit) = n
  BY <1>2, <1>3 DEF GetFrom
<1>5. k \in Nat /\ k <= g /\ n + k <= rows /\ (k = g \/ n + k = rows)
  BY <1>2, <1>3
<1>6. PageOf(n, g) = [i \in 1..k |-> n + i]
  BY <1>2 DEF PageOf
<1>7. seen' = UpTo(n + k)
  BY <1>2, <1>4, <1>5, <1>6, PageContinues DEF List
<1>8. (n + g) = page * g
  BY <1>2, <1>3
<1>9. request.total \in Nat /\ request.total <= rows
  BY DEF ListInv, List
<1>10. ended' = (page * g >= request.total) /\ total' = request.total /\ page' = page + 1
       /\ rows' = rows /\ limit' = limit /\ request' = NoRequest
  BY DEF List, IsLastPage
<1>11. Len(seen') = n + k
  BY <1>5, <1>7 DEF UpTo
<1>12. ended' => total' <= Len(seen')
  BY <1>5, <1>8, <1>9, <1>10, <1>11
<1>13. ~ended' => n + k = page * g
  <2>1. ~ended' => ~(page * g >= request.total)
    BY <1>10
  <2>2. ~ended' => n + g < rows
    BY <2>1, <1>2, <1>3, <1>8, <1>9
  <2> QED
    BY <2>2, <1>2, <1>3, <1>5, <1>8
<1>14. (page' - 1) * GetLimit(limit') = page * g
  BY <1>3, <1>10
<1>15. request'.at # "counted"
  BY <1>10 DEF NoRequest
<1>16. /\ rows' \in Nat /\ limit' \in Int /\ page' \in Nat \ {0} /\ total' \in Nat
       /\ ended' \in BOOLEAN
  BY <1>3, <1>9, <1>10 DEF ListInv
<1>17. n + k \in Nat /\ n + k <= rows'
  BY <1>5, <1>10
<1> QED
  BY <1>7, <1>10, <1>12, <1>13, <1>14, <1>15, <1>16, <1>17 DEF ListInv

LEMMA NextList == ASSUME ListInv, [Next]_vars PROVE ListInv'
<1>1. CASE Tick
  BY <1>1 DEF ListInv, Tick
<1>2. CASE SignUp
  <2>1. rows' = rows + 1 /\ rows' \in Nat /\ rows <= rows'
    BY <1>2 DEF ListInv, SignUp
  <2>2. /\ UNCHANGED <<limit, page, request, seen, total, ended>>
    BY <1>2 DEF SignUp
  <2>3. \A n \in Nat : n <= rows => n <= rows'
    BY <2>1 DEF ListInv
  <2>4. request.at = "counted" => request.total \in Nat /\ request.total <= rows'
    BY <2>1, <2>3 DEF ListInv
  <2> QED
    BY <2>1, <2>2, <2>3, <2>4 DEF ListInv
<1>3. CASE Ask
  <2>1. request'.at # "counted"
    BY <1>3 DEF Ask
  <2>2. ~ended /\ UNCHANGED <<rows, limit, page, seen, total, ended>>
    BY <1>3 DEF Ask
  <2> QED
    BY <2>1, <2>2 DEF ListInv
<1>4. CASE Refuse
  BY <1>4 DEF ListInv, Refuse, NoRequest
<1>5. CASE Count
  <2>1. request' = [at |-> "counted", total |-> rows]
    BY <1>5 DEF Count
  <2>2. request # NoRequest
    BY <1>5 DEF Count, NoRequest
  <2>3. UNCHANGED <<rows, limit, page, seen, total, ended>>
    BY <1>5 DEF Count
  <2> QED
    BY <2>1, <2>2, <2>3 DEF ListInv
<1>6. CASE List
  BY <1>6, ListStep
<1>7. CASE Lose
  BY <1>7 DEF ListInv, Lose, NoRequest
<1>8. CASE UNCHANGED vars
  BY <1>8 DEF ListInv, vars
<1> QED
  BY <1>1, <1>2, <1>3, <1>4, <1>5, <1>6, <1>7, <1>8 DEF Next

LEMMA ListInvariance == Spec => []ListInv
<1>1. Init => ListInv
  BY InitList
<1>2. ListInv /\ [Next]_vars => ListInv'
  BY NextList
<1> QED
  BY <1>1, <1>2, PTL DEF Spec

(* The pages of KycUserList give every user once, in the order of their    *)
(* ids, whoever signs up between two pages or between the count and the    *)
(* query of one; and the operator who stops at the last page of the total  *)
(* it was told has been given that many (inner-kyc.ctrl.go:200-237).       *)
THEOREM UsersListedOnce == Spec => []ListIsWhole
<1>1. ListInv => ListIsWhole
  BY DEF ListInv, ListIsWhole, UpTo
<1> QED
  BY <1>1, ListInvariance, PTL

-----------------------------------------------------------------------------
(* Envelopes. *)

LEMMA BytesAreBytes ==
  ASSUME NEW of, NEW n \in Nat
  PROVE  /\ Bytes(of, n) \in Seq({of} \X Nat)
         /\ Len(Bytes(of, n)) = n
         /\ \A i \in 1..n : Bytes(of, n)[i] = <<of, i>>
BY DEF Bytes

(* Three parts, one after the other, and the cuts that give them back. *)
LEMMA Cuts ==
  ASSUME NEW S, NEW a \in Seq(S), NEW b \in Seq(S), NEW c \in Seq(S)
  PROVE  /\ a \o b \o c \in Seq(S)
         /\ Len(a \o b \o c) = Len(a) + Len(b) + Len(c)
         /\ SubSeq(a \o b \o c, 1, Len(a)) = a
         /\ SubSeq(a \o b \o c, Len(a) + 1, Len(a) + Len(b)) = b
         /\ SubSeq(a \o b \o c, Len(a) + Len(b) + 1, Len(a) + Len(b) + Len(c)) = c
<1> DEFINE s == a \o b \o c
           u == SubSeq(s, 1, Len(a))
           v == SubSeq(s, Len(a) + 1, Len(a) + Len(b))
           w == SubSeq(s, Len(a) + Len(b) + 1, Len(a) + Len(b) + Len(c))
<1>1. s \in Seq(S) /\ Len(s) = Len(a) + Len(b) + Len(c)
  OBVIOUS
<1>2. /\ \A i \in 1..Len(a) : s[i] = a[i]
      /\ \A i \in 1..Len(b) : s[Len(a) + i] = b[i]
      /\ \A i \in 1..Len(c) : s[Len(a) + Len(b) + i] = c[i]
  OBVIOUS
<1> HIDE DEF s
<1>3. u = a
  <2>1. u \in Seq(S) /\ Len(u) = Len(a) /\ \A i \in 1..Len(a) : u[i] = s[i]
    BY <1>1
  <2> HIDE DEF u
  <2> QED
    BY <1>2, <2>1, SeqEqual
<1>4. v = b
  <2>1. v \in Seq(S) /\ Len(v) = Len(b) /\ \A i \in 1..Len(b) : v[i] = s[Len(a) + i]
    BY <1>1
  <2> HIDE DEF v
  <2> QED
    BY <1>2, <2>1, SeqEqual
<1>5. w = c
  <2>1. /\ w \in Seq(S) /\ Len(w) = Len(c)
        /\ \A i \in 1..Len(c) : w[i] = s[Len(a) + Len(b) + i]
    BY <1>1
  <2> HIDE DEF w
  <2> QED
    BY <1>2, <2>1, SeqEqual
<1> QED
  BY <1>1, <1>3, <1>4, <1>5 DEF s, u, v, w

(* A sequence of some things is one of more things. *)
LEMMA SeqWidens ==
  ASSUME NEW S, NEW T, S \subseteq T, NEW s \in Seq(S)
  PROVE  s \in Seq(T)
<1>1. s \in [1..Len(s) -> T] /\ Len(s) \in Nat
  OBVIOUS
<1> QED
  BY <1>1

(* What was encrypted with a key is decrypted with it. *)
LEMMA SymDecryptInverts ==
  ASSUME NEW ke, NEW S, NEW m \in Seq(S)
  PROVE  /\ SymEncrypt(ke, m) \in Seq(({"iv"} \X Nat) \cup ({ke} \X S))
         /\ Len(SymEncrypt(ke, m)) = BlockSize + Len(m)
         /\ SymDecrypt(ke, SymEncrypt(ke, m)) = m
<1> DEFINE T == ({"iv"} \X Nat) \cup ({ke} \X S)
           iv == Bytes("iv", BlockSize)
           text == [i \in 1..Len(m) |-> <<ke, m[i]>>]
           em == SymEncrypt(ke, m)
<1>1. iv \in Seq(T) /\ Len(iv) = BlockSize /\ BlockSize \in Nat
  <2>1. BlockSize \in Nat
    BY DEF BlockSize
  <2> QED
    BY <2>1 DEF Bytes
<1>2. text \in Seq(T) /\ Len(text) = Len(m) /\ Len(m) \in Nat
  OBVIOUS
<1>3. em = iv \o text
  BY DEF SymEncrypt
<1> HIDE DEF T, iv, text, em
<1>4. em \in Seq(T) /\ Len(em) = BlockSize + Len(m)
  <2>1. iv \o text \in Seq(T) /\ Len(iv \o text) = Len(iv) + Len(text)
    BY <1>1, <1>2, ConcatProperties
  <2> QED
    BY <1>1, <1>2, <1>3, <2>1
<1>5. SubSeq(em, BlockSize + 1, Len(em)) = text
  <2> DEFINE u == SubSeq(em, BlockSize + 1, Len(em))
  <2>1. /\ u \in Seq(T) /\ Len(u) = Len(m)
        /\ \A i \in 1..Len(m) : u[i] = em[BlockSize + i]
    BY <1>1, <1>2, <1>4
  <2>2. \A i \in 1..Len(m) : em[BlockSize + i] = text[i]
    BY <1>1, <1>2, <1>3
  <2> HIDE DEF u
  <2>3. u = text
    BY <1>2, <2>1, <2>2, SeqEqual
  <2> QED
    BY <2>3 DEF u
<1>6. \A i \in 1..Len(text) : text[i][1] = ke /\ text[i][2] = m[i]
  BY <1>2 DEF text
<1>7. SymDecrypt(ke, em) = [i \in 1..Len(text) |-> text[i][2]]
  BY <1>5, <1>6 DEF SymDecrypt
<1>8. [i \in 1..Len(text) |-> text[i][2]] = m
  BY <1>2, <1>6
<1> QED
  BY <1>4, <1>7, <1>8 DEF T, em

(* For these curves a shared x is at most as long as two keys. *)
LEMMA SharedFits ==
  ASSUME NEW curve \in {P256, P384}, NEW x \in 0..MaxSharedKeyLength(curve)
  PROVE  GenerateShared(curve, x) \notin {Failed, Panic}
<1>1. curve.key \in {16, 24} /\ MaxSharedKeyLength(curve) = 2 * curve.key
  BY DEF P256, P384, MaxSharedKeyLength
<1>2. GenerateShared(curve, x) = Bytes("zero", 2 * curve.key - x) \o Bytes("x", x)
  BY <1>1 DEF GenerateShared
<1>3. Len(GenerateShared(curve, x)) = 2 * curve.key
  <2>1. /\ Bytes("zero", 2 * curve.key - x) \in Seq({"zero", "x"} \X Nat)
        /\ Len(Bytes("zero", 2 * curve.key - x)) = 2 * curve.key - x
        /\ Bytes("x", x) \in Seq({"zero", "x"} \X Nat)
        /\ Len(Bytes("x", x)) = x
    BY <1>1 DEF Bytes
  <2> QED
    BY <1>1, <1>2, <2>1
<1>4. Len(Failed) = 1 /\ Len(Panic) = 1
  BY DEF Failed, Panic
<1> DEFINE z == GenerateShared(curve, x)
<1>5. Len(z) \in {32, 48}
  BY <1>1, <1>3
<1> HIDE DEF z
<1>6. z # Failed /\ z # Panic
  BY <1>4, <1>5
<1> QED
  BY <1>6 DEF z

(* What is sealed comes out of the envelope as it went in (ecies.go:221-   *)
(* 312): the cuts fall where the point, the text and the tag end, and both *)
(* sides derive the same keys, whatever the shared x begins with.          *)
LEMMA EnvelopeOpens ==
  ASSUME NEW curve \in {P256, P384}, NEW x \in 0..MaxSharedKeyLength(curve),
         NEW S, NEW m \in Seq(S), m # <<>>
  PROVE  Decrypt(curve, x, Encrypt(curve, x, m)) = m
<1> DEFINE z    == GenerateShared(curve, x)
           keys == DeriveKeys(curve, z)
           em   == SymEncrypt(keys.ke, m)
           R    == Marshal(curve)
           d    == MessageTag(curve, keys.km, em)
           c    == R \o em \o d
           I    == {"iv"} \X Nat
           M    == {keys.ke} \X S
           D    == {<<keys.km, em>>} \X Nat
           T    == ({"R"} \X Nat) \cup (I \cup M) \cup D
<1>1. z \notin {Failed, Panic}
  BY SharedFits
<1>2. /\ RLen(curve) \in Nat /\ curve.hash \in Nat
      /\ RLen(curve) = 1 + 2 * MaxSharedKeyLength(curve)
  BY DEF P256, P384, RLen, MaxSharedKeyLength
<1>3. /\ em \in Seq(({"iv"} \X Nat) \cup ({keys.ke} \X S))
      /\ Len(em) = BlockSize + Len(m) /\ SymDecrypt(keys.ke, em) = m
  BY SymDecryptInverts
<1>4. Len(m) \in Nat \ {0} /\ Len(em) \in Nat \ {0}
  BY <1>3 DEF BlockSize
<1>5. R \in Seq({"R"} \X Nat) /\ Len(R) = RLen(curve)
  BY <1>2, BytesAreBytes DEF Marshal
<1>6. d \in Seq({<<keys.km, em>>} \X Nat) /\ Len(d) = curve.hash
  BY <1>2, BytesAreBytes DEF MessageTag
<1>7. Encrypt(curve, x, m) = c
  BY <1>1 DEF Encrypt
<1> HIDE DEF z, em, R, d, keys
<1>8. R \in Seq(T) /\ em \in Seq(T) /\ d \in Seq(T)
  BY <1>3, <1>5, <1>6, SeqWidens
<1> HIDE DEF T
<1>9. /\ Len(c) = RLen(curve) + Len(em) + curve.hash
      /\ SubSeq(c, 1, RLen(curve)) = R
      /\ SubSeq(c, RLen(curve) + 1, RLen(curve) + Len(em)) = em
      /\ SubSeq(c, RLen(curve) + Len(em) + 1, RLen(curve) + Len(em) + curve.hash) = d
  <2>1. /\ Len(c) = Len(R) + Len(em) + Len(d)
        /\ SubSeq(c, 1, Len(R)) = R
        /\ SubSeq(c, Len(R) + 1, Len(R) + Len(em)) = em
        /\ SubSeq(c, Len(R) + Len(em) + 1, Len(R) + Len(em) + Len(d)) = d
    BY <1>8, Cuts
  <2> HIDE DEF c
  <2> QED
    BY <1>5, <1>6, <2>1
<1> HIDE DEF c
<1>10. /\ Len(c) - curve.hash = RLen(curve) + Len(em)
       /\ ~(Len(c) < RLen(curve) + curve.hash + 1)
  BY <1>2, <1>4, <1>9
<1>11. Decrypt(curve, x, c) = SymDecrypt(keys.ke, em)
  BY <1>1, <1>9, <1>10 DEF Decrypt, z, R, d, keys
<1> QED
  BY <1>3, <1>7, <1>11

-----------------------------------------------------------------------------
(* The window of a request's time. *)

(* The whole seconds of a time: at most one second before it. *)
LEMMA WholeSeconds ==
  ASSUME NEW t \in Nat, NEW p \in Nat \ {0}
  PROVE  /\ t \div p \in Nat
         /\ (t \div p) * p <= t
         /\ t < (t \div p) * p + p
OBVIOUS

LEMMA SecondsGrow ==
  ASSUME NEW s \in Nat, NEW t \in Nat, s <= t, NEW p \in Nat \ {0}
  PROVE  s \div p <= t \div p
<1> DEFINE q == s \div p
           r == t \div p
<1>1. q \in Nat /\ r \in Nat /\ q * p <= s /\ t < r * p + p
  BY WholeSeconds
<1> HIDE DEF q, r
<1>2. ASSUME q > r PROVE FALSE
  <2>1. q - (r + 1) \in Nat
    BY <1>1, <1>2
  <2>2. (q - (r + 1)) * p \in Nat
    BY <2>1
  <2>3. (q - (r + 1)) * p = q * p - (r * p + p)
    BY <1>1
  <2>4. q * p \in Int /\ r * p \in Int
    BY <1>1
  <2> QED
    BY <1>1, <2>2, <2>3, <2>4
<1> QED
  BY <1>1, <1>2 DEF q, r

(* The text of a time is understood, as the second that it says. *)
LEMMA TimeIsParsed ==
  ASSUME NEW s \in Nat
  PROVE  Parsed(TimeText(s)) /\ TimeText(s)[1][1] = s
<1> DEFINE m == TimeText(s)
<1>1. Len(m) = 29 /\ \A i \in 1..29 : m[i] = <<s, i>>
  BY DEF TimeText, Bytes
<1>2. Len(Failed) = 1 /\ Len(Panic) = 1
  BY DEF Failed, Panic
<1> HIDE DEF m
<1>3. m # Failed /\ m # Panic
  <2>1. Len(m) = 29
    BY <1>1
  <2> QED
    BY <1>2, <2>1
<1>4. m[1][1] = s
  BY <1>1
<1>5. Parsed(m)
  BY <1>1, <1>3, <1>4 DEF Parsed
<1> QED
  BY <1>4, <1>5 DEF m

(* The service opens what the operator sealed. *)
LEMMA TimeIsOpened ==
  ASSUME Curve \in {P256, P384}, NEW x \in SharedLen,
         NEW s \in 0..MaxClock \div PerSecond
  PROVE  Opened[x][s] = TimeText(s)
<1>1. MaxClock \div PerSecond \in Nat
  BY KycAssumption, WholeSeconds
<1>2. s \in Nat /\ x \in 0..MaxSharedKeyLength(Curve)
  BY <1>1, KycAssumption
<1>3. TimeText(s) \in Seq({s} \X Nat) /\ TimeText(s) # <<>>
  <2>1. TimeText(s) \in Seq({s} \X Nat) /\ Len(TimeText(s)) = 29
    BY BytesAreBytes DEF TimeText
  <2> QED
    BY <2>1
<1>4. Decrypt(Curve, x, Encrypt(Curve, x, TimeText(s))) = TimeText(s)
  BY <1>2, <1>3, EnvelopeOpens
<1>5. Opened[x][s] = Decrypt(Curve, x, Encrypt(Curve, x, TimeText(s)))
  BY DEF Opened
<1> QED
  BY <1>4, <1>5

TimeInv ==
  /\ clock \in 0..MaxClock
  /\ skew \in Int
  /\ request.at = "sent" =>
       \E x \in SharedLen, made \in 0..clock :
         request = [at |-> "sent", made |-> made, verified |-> <<x, made \div PerSecond>>]
  /\ verdict.delay \in Int
  /\ OnlyTimelyAreServed

(* What the window says of a request, in terms of its delay. *)
LEMMA WindowOfRequest ==
  ASSUME Curve \in {P256, P384}, TimeInv, request.at = "sent"
  PROVE  LET late == clock - request.made + skew
             timely == Timely(Opened[request.verified[1]][request.verified[2]])
         IN  /\ clock - request.made \in Nat
             /\ ~timely => late < -Window \/ late > 2 * PerSecond
             /\ timely => late > -Window - PerSecond /\ late <= Window
<1>1. PICK x \in SharedLen, made \in 0..clock :
        request = [at |-> "sent", made |-> made, verified |-> <<x, made \div PerSecond>>]
  BY DEF TimeInv
<1> DEFINE s == made \div PerSecond
           m == Opened[request.verified[1]][request.verified[2]]
<1>2. clock \in 0..MaxClock /\ MaxClock \in Nat /\ PerSecond \in Nat \ {0} /\ skew \in Int
  BY KycAssumption DEF TimeInv
<1>3. made \in Nat /\ made <= clock /\ made <= MaxClock
  BY <1>2
<1>4. s \in Nat /\ s * PerSecond <= made /\ made < s * PerSecond + PerSecond
  BY <1>2, <1>3, WholeSeconds
<1>5. s <= MaxClock \div PerSecond /\ MaxClock \div PerSecond \in Nat
  BY <1>2, <1>3, SecondsGrow, WholeSeconds
<1>6. request.made = made /\ request.verified = <<x, s>>
  BY <1>1
<1> HIDE DEF s
<1>7. m = TimeText(s)
  BY <1>4, <1>5, <1>6, TimeIsOpened
<1> HIDE DEF m
<1>8. Parsed(m) /\ m[1][1] = s
  BY <1>4, <1>7, TimeIsParsed
<1> DEFINE k == s * PerSecond
<1>9. Timely(m) <=> clock + skew - k \in -(3 * PerSecond)..3 * PerSecond
  BY <1>8 DEF Timely, Window
<1>10. k \in Int /\ k <= made /\ made < k + PerSecond
  BY <1>2, <1>4
<1> HIDE DEF k
<1>11. Timely(m) => /\ clock - made + skew > -(3 * PerSecond) - PerSecond
                    /\ clock - made + skew <= 3 * PerSecond
  BY <1>2, <1>3, <1>9, <1>10
<1>12. ~Timely(m) => \/ clock - made + skew < -(3 * PerSecond)
                     \/ clock - made + skew > 2 * PerSecond
  BY <1>2, <1>3, <1>9, <1>10
<1> QED
  BY <1>2, <1>3, <1>6, <1>11, <1>12 DEF m, Window

LEMMA TimeInvInit == Init => TimeInv
<1> SUFFICES ASSUME Init PROVE TimeInv
  OBVIOUS
<1>1. /\ verdict = NoVerdict /\ request.at = "none" /\ skew \in Int
      /\ clock \in 0..PerSecond - 1
  BY KycAssumption DEF Init, NoRequest
<1>2. verdict.delay = -1 /\ verdict.ok
  BY <1>1 DEF NoVerdict
<1>3. clock \in 0..MaxClock
  BY <1>1, KycAssumption
<1>4. OnlyTimelyAreServed
  BY <1>1, <1>2 DEF OnlyTimelyAreServed
<1> QED
  BY <1>1, <1>2, <1>3, <1>4 DEF TimeInv

(* A step that asks nothing and answers nothing. *)
LEMMA TimeInvQuiet ==
  ASSUME TimeInv, UNCHANGED <<skew, verdict>>, clock' \in 0..MaxClock, clock <= clock',
         request' = request \/ request'.at # "sent"
  PROVE  TimeInv'
<1>1. /\ skew' = skew /\ verdict' = verdict /\ MaxClock \in Nat
  BY KycAssumption
<1>2. OnlyTimelyAreServed'
  BY <1>1 DEF TimeInv, OnlyTimelyAreServed
<1>3. ASSUME request'.at = "sent"
      PROVE  \E x \in SharedLen, made \in 0..clock' :
               request' = [at |-> "sent", made |-> made, verified |-> <<x, made \div PerSecond>>]
  <2>1. PICK x \in SharedLen, made \in 0..clock :
          request = [at |-> "sent", made |-> made, verified |-> <<x, made \div PerSecond>>]
    BY <1>3 DEF TimeInv
  <2>2. made \in 0..clock'
    BY <1>1 DEF TimeInv
  <2> QED
    BY <1>3, <2>1, <2>2
<1> QED
  BY <1>1, <1>2, <1>3 DEF TimeInv

LEMMA TimeInvNext ==
  ASSUME Curve \in {P256, P384}, TimeInv, [Next]_vars
  PROVE  TimeInv'
<1>0. clock \in 0..MaxClock /\ MaxClock \in Nat /\ clock \in Nat
  BY KycAssumption DEF TimeInv
<1>1. CASE Tick
  <2>1. clock' \in 0..MaxClock /\ clock <= clock' /\ UNCHANGED <<skew, verdict, request>>
    BY <1>0, <1>1 DEF Tick
  <2> QED
    BY <2>1, TimeInvQuiet
<1>2. CASE SignUp \/ List \/ Lose \/ UNCHANGED vars
  <2>1. UNCHANGED <<clock, skew, verdict>> /\ (request' = request \/ request'.at # "sent")
    BY <1>2 DEF SignUp, List, Lose, NoRequest, vars
  <2> QED
    BY <1>0, <2>1, TimeInvQuiet
<1>3. CASE Ask
  <2>1. /\ UNCHANGED <<clock, skew, verdict>>
        /\ \E x \in SharedLen :
             request' = [at |-> "sent", made |-> clock, verified |-> <<x, clock \div PerSecond>>]
    BY <1>3 DEF Ask
  <2>2. OnlyTimelyAreServed'
    BY <2>1 DEF TimeInv, OnlyTimelyAreServed
  <2>3. clock \in 0..clock'
    BY <1>0, <2>1
  <2> QED
    BY <1>0, <2>1, <2>2, <2>3 DEF TimeInv
<1>4. CASE Refuse \/ Count
  <2> DEFINE late == clock - request.made + skew
  <2>1. /\ request.at = "sent" /\ request'.at # "sent" /\ UNCHANGED <<clock, skew>>
        /\ \/ ~Timely(Opened[request.verified[1]][request.verified[2]])
              /\ verdict' = [delay |-> clock - request.made, ok |-> FALSE]
           \/ Timely(Opened[request.verified[1]][request.verified[2]])
              /\ verdict' = [delay |-> clock - request.made, ok |-> TRUE]
    BY <1>4 DEF Refuse, Count, NoRequest
  <2>2. /\ clock - request.made \in Nat
        /\ ~Timely(Opened[request.verified[1]][request.verified[2]]) => late < -Window \/ late > 2 * PerSecond
        /\ Timely(Opened[request.verified[1]][request.verified[2]]) => late > -Window - PerSecond /\ late <= Window
    BY <2>1, WindowOfRequest
  <2>3. verdict'.delay = clock - request.made /\ verdict'.delay + skew' = late
    BY <2>1
  <2>4. /\ ~verdict'.ok => late < -Window \/ late > 2 * PerSecond
        /\ verdict'.ok => late > -Window - PerSecond /\ late <= Window
    BY <2>1, <2>2
  <2> HIDE DEF late
  <2>5. OnlyTimelyAreServed'
    BY <2>3, <2>4 DEF OnlyTimelyAreServed
  <2>6. verdict'.delay \in Int /\ clock' \in 0..MaxClock /\ skew' \in Int
    BY <1>0, <2>1, <2>2, <2>3 DEF TimeInv
  <2> QED
    BY <2>1, <2>5, <2>6 DEF TimeInv
<1> QED
  BY <1>1, <1>2, <1>3, <1>4 DEF Next

(* An operator's request is let in if it is on time, and only then: for    *)
(* P256, the curve in use, and P384, whatever the clocks and the bytes of  *)
(* the shared secret are.  (For P521 it is false: see README.md.)          *)
THEOREM TimelyAreServed ==
  ASSUME Curve \in {P256, P384}
  PROVE  Spec => []OnlyTimelyAreServed
<1>1. Init => TimeInv
  BY TimeInvInit
<1>2. TimeInv /\ [Next]_vars => TimeInv'
  BY TimeInvNext
<1>3. TimeInv => OnlyTimelyAreServed
  BY DEF TimeInv
<1> QED
  BY <1>1, <1>2, <1>3, PTL DEF Spec

-----------------------------------------------------------------------------
(* Types. *)

KindInv ==
  /\ clock \in 0..MaxClock
  /\ skew \in Skews
  /\ rows \in 0..MaxRows
  /\ limit \in Limits
  /\ request.at \in {"none", "sent", "counted"}
  /\ total \in 0..MaxRows
  /\ verdict.ok \in BOOLEAN
  /\ ~ended => page \in 1..MaxRows + 1
  /\ page \in 1..MaxRows + 2

LEMMA PagesWithinRows ==
  ASSUME NEW k \in Nat, NEW r \in 0..k, NEW p \in Nat \ {0}, NEW g \in Nat \ {0},
         (p - 1) * g <= r
  PROVE  p - 1 <= k
<1>1. (p - 1) * (g - 1) \in Nat /\ (p - 1) * g = (p - 1) * (g - 1) + (p - 1)
  OBVIOUS
<1> DEFINE x == (p - 1) * (g - 1)
           y == (p - 1) * g
<1>2. x \in Nat /\ y = x + (p - 1) /\ y <= r
  BY <1>1
<1> HIDE DEF x, y
<1> QED
  BY <1>2

LEMMA OneLess ==
  ASSUME NEW k \in Nat, NEW i \in 1..k + 2, i - 1 <= k
  PROVE  i \in 1..k + 1
OBVIOUS

LEMMA KindInvNext == ASSUME ListInv, ListInv', KindInv, [Next]_vars PROVE KindInv'
<1>0. clock \in 0..MaxClock /\ MaxClock \in Nat /\ MaxRows \in Nat /\ rows \in 0..MaxRows
  BY KycAssumption DEF KindInv
<1>1. CASE Tick
  BY <1>0, <1>1 DEF KindInv, Tick
<1>2. CASE SignUp
  BY <1>0, <1>2 DEF KindInv, SignUp
<1>3. CASE Ask
  <2>1. request'.at = "sent"
    BY <1>3 DEF Ask
  <2> QED
    BY <1>3, <2>1 DEF KindInv, Ask
<1>4. CASE Refuse
  BY <1>4 DEF KindInv, Refuse, NoRequest
<1>5. CASE Count
  BY <1>5 DEF KindInv, Count
<1>6. CASE Lose
  BY <1>6 DEF KindInv, Lose, NoRequest
<1>7. CASE UNCHANGED vars
  BY <1>7 DEF KindInv, vars
<1>8. CASE List
  <2>1. /\ UNCHANGED <<clock, skew, rows, limit, verdict>>
        /\ request' = NoRequest /\ total' = request.total /\ page' = page + 1
    BY <1>8 DEF List
  <2>2. total' \in 0..MaxRows
    BY <1>0, <1>8, <2>1 DEF ListInv, List
  <2>3. page' \in 1..MaxRows + 2
    <3>1. ~ended
      BY <1>8 DEF ListInv, List, NoRequest
    <3> QED
      BY <1>0, <2>1, <3>1 DEF KindInv
  <2>4. ASSUME ~ended' PROVE page' \in 1..MaxRows + 1
    <3>1. (page' - 1) * GetLimit(limit') <= rows' /\ (page' - 1) * GetLimit(limit') \in Nat
      BY <2>4, Zenon DEF ListInv
    <3>0. limit' \in Int /\ page' \in Nat \ {0}
      BY Zenon DEF ListInv
    <3>2. GetLimit(limit') \in Nat \ {0}
      BY <3>0, LimitIsPositive, Zenon
    <3>3. rows' \in 0..MaxRows
      BY <1>0, <2>1, <1>8 DEF List
    <3>8. page' - 1 <= MaxRows
      BY <1>0, <3>0, <3>1, <3>2, <3>3, PagesWithinRows
    <3> QED
      BY <1>0, <2>3, <3>8, OneLess
  <2> QED
    BY <2>1, <2>2, <2>3, <2>4 DEF KindInv, NoRequest
<1> QED
  BY <1>1, <1>2, <1>3, <1>4, <1>5, <1>6, <1>7, <1>8 DEF Next

(* The state of a request and of the list is always well formed; the       *)
(* operator never asks for more than a page beyond the users there may be. *)
THEOREM KycTypesHold == Spec => []TypeOK
<1>1. Init => ListInv /\ KindInv
  <2>1. Init => KindInv
    BY KycAssumption DEF Init, KindInv, NoRequest, NoVerdict
  <2> QED
    BY <2>1, InitList
<1>2. (ListInv /\ KindInv) /\ [Next]_vars => (ListInv /\ KindInv)'
  BY NextList, KindInvNext
<1>3. ListInv /\ KindInv => TypeOK
  <2> SUFFICES ASSUME ListInv, KindInv PROVE TypeOK
    OBVIOUS
  <2>1. PICK n \in Nat : seen = UpTo(n) /\ n <= rows
    BY DEF ListInv
  <2>2. \A i \in 1..Len(seen) : seen[i] \in 1..rows
    BY <2>1 DEF UpTo, ListInv
  <2> QED
    BY <2>2 DEF ListInv, KindInv, TypeOK
<1> QED
  BY <1>1, <1>2, <1>3, PTL DEF Spec

=============================================================================
