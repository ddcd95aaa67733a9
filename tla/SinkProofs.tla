------------------------------ MODULE SinkProofs ------------------------------
(***************************************************************************)
(* What meta.Sink promises, for every kind of destination and every way to *)
(* cut bytes into calls: the encoding of a stream is the concatenation of  *)
(* the encodings of its parts as long as base64 is cut at whole groups     *)
(* (HexConcat, Base64Concat), and the encoder holds exactly the rest       *)
(* (StreamGoesOn).  SinkIInv of module Sink is the inductive invariant.    *)
(***************************************************************************)
EXTENDS Library, TLAPS, SequenceTheorems

-----------------------------------------------------------------------------
(* Sequences. *)

(* A sequence that starts with x and goes on with y is their concatenation. *)
LEMMA Join ==
  ASSUME NEW S, NEW x \in Seq(S), NEW y \in Seq(S), NEW z \in Seq(S),
         Len(z) = Len(x) + Len(y),
         \A k \in 1..Len(x) : z[k] = x[k],
         \A k \in 1..Len(y) : z[Len(x) + k] = y[k]
  PROVE  z = x \o y
  <1>1. x \o y \in Seq(S) /\ Len(x \o y) = Len(x) + Len(y)
    BY ConcatProperties
  <1>2. ASSUME NEW k \in 1..Len(z) PROVE z[k] = (x \o y)[k]
    <2>1. Len(x) \in Nat /\ Len(y) \in Nat
      OBVIOUS
    <2>2. (x \o y)[k] = IF k <= Len(x) THEN x[k] ELSE y[k - Len(x)]
      BY ConcatProperties
    <2>3. CASE k <= Len(x)
      BY <2>1, <2>2, <2>3
    <2>4. CASE ~(k <= Len(x))
      <3>1. k - Len(x) \in 1..Len(y) /\ k = Len(x) + (k - Len(x))
        BY <2>1, <2>4
      <3>2. z[Len(x) + (k - Len(x))] = y[k - Len(x)]
        BY <3>1
      <3> QED BY <2>2, <2>4, <3>1, <3>2
    <2> QED BY <2>3, <2>4
  <1> QED BY <1>1, <1>2, SeqEqual

(* Concatenation is associative. *)
LEMMA Associative ==
  ASSUME NEW s \in Seq(Nat), NEW t \in Seq(Nat), NEW u \in Seq(Nat)
  PROVE  (s \o t) \o u = s \o (t \o u)
  BY ConcatAssociative

(* What a concatenation holds. *)
LEMMA ConcatParts ==
  ASSUME NEW s \in Seq(Nat), NEW t \in Seq(Nat)
  PROVE  /\ s \o t \in Seq(Nat) /\ Len(s \o t) = Len(s) + Len(t) /\ Len(s) \in Nat /\ Len(t) \in Nat
         /\ \A k \in 1..Len(s) : (s \o t)[k] = s[k]
         /\ \A k \in 1..Len(t) : (s \o t)[Len(s) + k] = t[k]
  OBVIOUS

(* Two digits per byte. *)
LEMMA HexIsSeq ==
  ASSUME NEW s \in Seq(Nat)
  PROVE  /\ Out!Hex(s) \in Seq(Out!Char) /\ Len(Out!Hex(s)) = 2 * Len(s)
         /\ \A k \in 1..(2 * Len(s)) : Out!Hex(s)[k] = <<s[(k + 1) \div 2], 2 - (k % 2)>>
  <1>1. \A k \in 1..(2 * Len(s)) : <<s[(k + 1) \div 2], 2 - (k % 2)>> \in Out!Char
    <2> SUFFICES ASSUME NEW k \in 1..(2 * Len(s)) PROVE <<s[(k + 1) \div 2], 2 - (k % 2)>> \in Nat \X (1..2)
      BY DEF Out!Char
    <2>1. (k + 1) \div 2 \in 1..Len(s) /\ 2 - (k % 2) \in 1..2
      OBVIOUS
    <2> QED BY <2>1
  <1> QED BY <1>1 DEF Out!Hex

(* Digit 2j-1 and digit 2j belong to byte j, also behind n other bytes. *)
LEMMA Halves ==
  ASSUME NEW n \in Nat, NEW m \in Nat
  PROVE  /\ \A k \in 1..(2 * n) : (k + 1) \div 2 \in 1..n
         /\ \A k \in 1..(2 * m) : /\ (k + 1) \div 2 \in 1..m
                                  /\ (2 * n + k + 1) \div 2 = n + ((k + 1) \div 2) /\ (2 * n + k) % 2 = k % 2
  OBVIOUS

(* The digits of two chunks are the digits of the chunks together. *)
LEMMA HexConcat ==
  ASSUME NEW s \in Seq(Nat), NEW t \in Seq(Nat)
  PROVE  Out!Hex(s \o t) = Out!Hex(s) \o Out!Hex(t)
  <1> DEFINE u == s \o t
  <1>1. /\ u \in Seq(Nat) /\ Len(u) = Len(s) + Len(t) /\ Len(s) \in Nat /\ Len(t) \in Nat
        /\ \A k \in 1..Len(s) : u[k] = s[k]
        /\ \A k \in 1..Len(t) : u[Len(s) + k] = t[k]
    OBVIOUS
  <1> HIDE DEF u
  <1>2. ASSUME NEW k \in 1..(2 * Len(s)) PROVE Out!Hex(u)[k] = Out!Hex(s)[k]
    <2>1. (k + 1) \div 2 \in 1..Len(s) /\ k \in 1..(2 * Len(u))
      BY <1>1, Halves
    <2>2. u[(k + 1) \div 2] = s[(k + 1) \div 2]
      BY <1>1, <2>1
    <2> QED BY <1>1, <2>1, <2>2, HexIsSeq
  <1>3. ASSUME NEW k \in 1..(2 * Len(t)) PROVE Out!Hex(u)[2 * Len(s) + k] = Out!Hex(t)[k]
    <2> DEFINE j == (k + 1) \div 2
               l == 2 * Len(s) + k
    <2>1. j \in 1..Len(t) /\ (l + 1) \div 2 = Len(s) + j /\ l % 2 = k % 2
      BY <1>1, Halves
    <2>2. l \in 1..(2 * Len(u))
      BY <1>1
    <2>3. Out!Hex(u)[l] = <<u[(l + 1) \div 2], 2 - (l % 2)>>
      BY <1>1, <2>2, HexIsSeq
    <2>4. Out!Hex(t)[k] = <<t[j], 2 - (k % 2)>>
      BY HexIsSeq
    <2>5. u[(l + 1) \div 2] = t[j]
      BY <1>1, <2>1
    <2> QED BY <2>1, <2>3, <2>4, <2>5
  <1>4. Out!Hex(u) = Out!Hex(s) \o Out!Hex(t)
    <2>4. \A w \in Seq(Nat) : Out!Hex(w) \in Seq(Out!Char) /\ Len(Out!Hex(w)) = 2 * Len(w)
      <3> SUFFICES ASSUME NEW w \in Seq(Nat)
                   PROVE  Out!Hex(w) \in Seq(Out!Char) /\ Len(Out!Hex(w)) = 2 * Len(w)
        OBVIOUS
      <3> QED BY HexIsSeq
    <2>5. /\ Out!Hex(u) \in Seq(Out!Char) /\ Out!Hex(s) \in Seq(Out!Char) /\ Out!Hex(t) \in Seq(Out!Char)
          /\ Len(Out!Hex(s)) = 2 * Len(s) /\ Len(Out!Hex(t)) = 2 * Len(t) /\ Len(Out!Hex(u)) = 2 * Len(u)
      BY <1>1, <2>4
    <2>1. Len(Out!Hex(u)) = Len(Out!Hex(s)) + Len(Out!Hex(t))
      BY <1>1, <2>5
    <2>2. \A k \in 1..Len(Out!Hex(s)) : Out!Hex(u)[k] = Out!Hex(s)[k]
      BY <1>2, <2>5
    <2>3. \A k \in 1..Len(Out!Hex(t)) : Out!Hex(u)[Len(Out!Hex(s)) + k] = Out!Hex(t)[k]
      BY <1>3, <2>1, <2>5
    <2> QED BY <2>1, <2>2, <2>3, <2>5, Join
  <1> QED BY <1>4 DEF u

(* Division by three with a remainder. *)
LEMMA Thirds ==
  /\ \A n \in Nat : \E a \in Nat, r \in 0..2 : n = 3 * a + r
  /\ \A a \in Nat, r \in 0..2 : (3 * a + r) \div 3 = a
  <1>1. \A n \in Nat : n \div 3 \in Nat /\ n % 3 \in 0..2 /\ n = 3 * (n \div 3) + (n % 3)
    OBVIOUS
  <1>2. \A a \in Nat, r \in 0..2 : (3 * a + r) \div 3 = a
    OBVIOUS
  <1> QED BY <1>1, <1>2

(* A sequence cut behind its first w elements. *)
LEMMA Cut ==
  ASSUME NEW s \in Seq(Nat), NEW w \in 0..Len(s)
  PROVE  /\ SubSeq(s, 1, w) \in Seq(Nat) /\ Len(SubSeq(s, 1, w)) = w
         /\ \A k \in 1..w : SubSeq(s, 1, w)[k] = s[k]
         /\ SubSeq(s, w + 1, Len(s)) \in Seq(Nat) /\ Len(SubSeq(s, w + 1, Len(s))) = Len(s) - w
         /\ \A k \in 1..(Len(s) - w) : SubSeq(s, w + 1, Len(s))[k] = s[w + k]
         /\ SubSeq(s, 1, w) \o SubSeq(s, w + 1, Len(s)) = s
  <1> DEFINE x == SubSeq(s, 1, w)
             y == SubSeq(s, w + 1, Len(s))
  <1>1. x \in Seq(Nat) /\ Len(x) = w /\ \A k \in 1..w : x[k] = s[k]
    OBVIOUS
  <1>2. y \in Seq(Nat) /\ Len(y) = Len(s) - w /\ \A k \in 1..(Len(s) - w) : y[k] = s[w + k]
    OBVIOUS
  <1> HIDE DEF x, y
  <1>3. Len(s) = Len(x) + Len(y) /\ s = x \o y
    <2>1. Len(s) = Len(x) + Len(y)
      BY <1>1, <1>2
    <2>2. (\A k \in 1..Len(x) : s[k] = x[k]) /\ (\A k \in 1..Len(y) : s[Len(x) + k] = y[k])
      BY <1>1, <1>2
    <2> QED BY <1>1, <1>2, <2>1, <2>2, Join
  <1> QED BY <1>1, <1>2, <1>3 DEF x, y

(* A stream is its whole groups and what is left. *)
LEMMA WholeRest ==
  ASSUME NEW s \in Seq(Nat), NEW a \in Nat, NEW r \in 0..2, Len(s) = 3 * a + r
  PROVE  /\ Out!Whole(s) \in Seq(Nat) /\ Len(Out!Whole(s)) = 3 * a
         /\ \A k \in 1..(3 * a) : Out!Whole(s)[k] = s[k]
         /\ Out!Rest(s) \in Seq(Nat) /\ Len(Out!Rest(s)) = r
         /\ \A k \in 1..r : Out!Rest(s)[k] = s[3 * a + k]
         /\ Out!Whole(s) \o Out!Rest(s) = s
  <1>1. Len(s) \div 3 = a
    BY Thirds
  <1>2. Out!Whole(s) = SubSeq(s, 1, 3 * a) /\ Out!Rest(s) = SubSeq(s, 3 * a + 1, Len(s))
    BY <1>1 DEF Out!Whole, Out!Rest
  <1> DEFINE w == 3 * a
  <1>3. w \in Nat /\ Len(s) = w + r
    OBVIOUS
  <1> HIDE DEF w
  <1>4. w \in 0..Len(s) /\ Len(s) - w = r
    BY <1>3
  <1> QED BY <1>2, <1>3, <1>4, Cut DEF w

(* Whole groups in front of a stream stay whole groups. *)
LEMMA WholeConcat ==
  ASSUME NEW s \in Seq(Nat), NEW t \in Seq(Nat), NEW m \in Nat
  PROVE  Len(s) = 3 * m => Out!Whole(s \o t) = s \o Out!Whole(t) /\ Out!Rest(s \o t) = Out!Rest(t)
  <1>0. SUFFICES ASSUME Len(s) = 3 * m
                 PROVE  Out!Whole(s \o t) = s \o Out!Whole(t) /\ Out!Rest(s \o t) = Out!Rest(t)
    OBVIOUS
  <1> DEFINE u == s \o t
  <1>1. u \in Seq(Nat) /\ Len(u) = Len(s) + Len(t) /\ Len(s) \in Nat /\ Len(t) \in Nat
    BY ConcatParts
  <1>8. (\A k \in 1..Len(s) : u[k] = s[k]) /\ (\A k \in 1..Len(t) : u[Len(s) + k] = t[k])
    BY ConcatParts
  <1> HIDE DEF u
  <1>2. PICK b \in Nat, r \in 0..2 : Len(t) = 3 * b + r
    BY <1>1, Thirds
  <1> DEFINE n == m + b
  <1>7. n \in Nat /\ Len(u) = 3 * n + r /\ 3 * n = Len(s) + 3 * b
    BY <1>0, <1>1, <1>2
  <1> HIDE DEF n
  <1>3. /\ Out!Whole(t) \in Seq(Nat) /\ Len(Out!Whole(t)) = 3 * b
        /\ \A k \in 1..(3 * b) : Out!Whole(t)[k] = t[k]
        /\ Out!Rest(t) \in Seq(Nat) /\ Len(Out!Rest(t)) = r
        /\ \A k \in 1..r : Out!Rest(t)[k] = t[3 * b + k]
    BY <1>2, WholeRest
  <1>4. /\ Out!Whole(u) \in Seq(Nat) /\ Len(Out!Whole(u)) = 3 * n
        /\ \A k \in 1..(3 * n) : Out!Whole(u)[k] = u[k]
        /\ Out!Rest(u) \in Seq(Nat) /\ Len(Out!Rest(u)) = r
        /\ \A k \in 1..r : Out!Rest(u)[k] = u[3 * n + k]
    <2>1. u \in Seq(Nat) /\ n \in Nat /\ r \in 0..2 /\ Len(u) = 3 * n + r
      BY <1>1, <1>7
    <2> QED BY <2>1, WholeRest
  <1>5. Out!Whole(u) = s \o Out!Whole(t)
    <2>1. ASSUME NEW k \in 1..Len(s) PROVE Out!Whole(u)[k] = s[k]
      <3>1. k \in 1..(3 * n)
        BY <1>7
      <3> QED BY <1>4, <1>8, <3>1
    <2>2. ASSUME NEW k \in 1..Len(Out!Whole(t)) PROVE Out!Whole(u)[Len(s) + k] = Out!Whole(t)[k]
      <3>1. Len(s) + k \in 1..(3 * n) /\ k \in 1..(3 * b) /\ k \in 1..Len(t)
        <4>1. Len(Out!Whole(t)) = 3 * b
          BY <1>3
        <4> QED BY <1>0, <1>1, <1>2, <1>7, <4>1
      <3> QED BY <1>3, <1>4, <1>8, <3>1
    <2>3. Len(Out!Whole(u)) = Len(s) + Len(Out!Whole(t))
      BY <1>3, <1>4, <1>7
    <2> QED BY <1>3, <1>4, <2>1, <2>2, <2>3, Join
  <1>6. Out!Rest(u) = Out!Rest(t)
    <2>1. ASSUME NEW k \in 1..r PROVE Out!Rest(u)[k] = Out!Rest(t)[k]
      <3>1. 3 * b + k \in 1..Len(t) /\ 3 * n + k = Len(s) + (3 * b + k)
        BY <1>0, <1>1, <1>2, <1>7
      <3>2. u[3 * n + k] = t[3 * b + k]
        BY <1>8, <3>1
      <3> QED BY <1>3, <1>4, <3>2
    <2> QED BY <1>3, <1>4, <2>1, SeqEqual
  <1> QED BY <1>5, <1>6 DEF u

(* Four characters per group of three bytes. *)
LEMMA Fours ==
  ASSUME NEW n \in Nat, NEW m \in Nat
  PROVE  /\ \A k \in 1..(4 * n) : (k + 3) \div 4 \in 1..n /\ 1 + ((k - 1) % 4) \in 1..4
         /\ \A k \in 1..(4 * m) : (4 * n + k + 3) \div 4 = n + ((k + 3) \div 4) /\ (4 * n + k - 1) % 4 = (k - 1) % 4
  OBVIOUS

(* The number of groups of a stream, the last one perhaps shorter. *)
LEMMA GroupCount ==
  ASSUME NEW n \in Nat
  PROVE  /\ (n + 2) \div 3 \in Nat
         /\ \A g \in 1..((n + 2) \div 3) : 3 * g - 2 \in 1..n
         /\ \A m \in Nat : (3 * m + n + 2) \div 3 = m + ((n + 2) \div 3)
  OBVIOUS

(* A group of a stream of bytes is a sequence of bytes. *)
LEMMA GroupType ==
  ASSUME NEW s \in Seq(Nat), NEW g \in 1..((Len(s) + 2) \div 3)
  PROVE  Out!Group(s, g) \in Seq(Nat)
  <1>1. Len(s) \in Nat /\ g \in Int /\ 3 * g - 2 \in 1..Len(s)
    BY GroupCount
  <1>2. (IF 3 * g <= Len(s) THEN 3 * g ELSE Len(s)) \in 0..Len(s)
    BY <1>1
  <1>3. \A i \in (3 * g - 2)..(IF 3 * g <= Len(s) THEN 3 * g ELSE Len(s)) : s[i] \in Nat
    BY <1>1, <1>2
  <1> QED BY <1>1, <1>2, <1>3, SubSeqProperties DEF Out!Group

(* Four characters per group, each naming its group and its place in it. *)
LEMMA Base64IsSeq ==
  ASSUME NEW s \in Seq(Nat), NEW n \in Nat, n = (Len(s) + 2) \div 3
  PROVE  /\ Out!Base64(s) \in Seq(Out!Char) /\ Len(Out!Base64(s)) = 4 * n
         /\ \A k \in 1..(4 * n) : Out!Base64(s)[k] = <<Out!Group(s, (k + 3) \div 4), 1 + ((k - 1) % 4)>>
  <1>1. ASSUME NEW k \in 1..(4 * n) PROVE <<Out!Group(s, (k + 3) \div 4), 1 + ((k - 1) % 4)>> \in Out!Char
    <2>1. (k + 3) \div 4 \in 1..n /\ 1 + ((k - 1) % 4) \in 1..4
      BY Fours
    <2>2. Out!Group(s, (k + 3) \div 4) \in Seq(Nat)
      BY <2>1, GroupType
    <2> QED BY <2>1, <2>2 DEF Out!Char
  <1>2. Out!Base64(s) = [k \in 1..(4 * n) |-> <<Out!Group(s, (k + 3) \div 4), 1 + ((k - 1) % 4)>>]
    BY DEF Out!Base64
  <1>3. 4 * n \in Nat
    OBVIOUS
  <1> QED BY <1>1, <1>2, <1>3

(* Where group m + g of a stream starts and ends behind m whole groups. *)
LEMMA GroupEnd ==
  ASSUME NEW m \in Nat, NEW g \in Nat, NEW l \in Nat
  PROVE  /\ 3 * (m + g) - 2 = 3 * m + (3 * g - 2)
         /\ (IF 3 * (m + g) <= 3 * m + l THEN 3 * (m + g) ELSE 3 * m + l) = 3 * m + (IF 3 * g <= l THEN 3 * g ELSE l)
  OBVIOUS

(* A group ends behind its start, inside the stream. *)
LEMMA GroupBound ==
  ASSUME NEW l \in Nat, NEW g \in Nat, 3 * g - 2 \in 1..l
  PROVE  (IF 3 * g <= l THEN 3 * g ELSE l) \in (3 * g - 2)..l
  OBVIOUS

(* Groups keep their content when whole groups come before them. *)
LEMMA GroupConcat ==
  ASSUME NEW s \in Seq(Nat), NEW t \in Seq(Nat), NEW m \in Nat, Len(s) = 3 * m
  PROVE  /\ \A g \in 1..m : Out!Group(s \o t, g) = Out!Group(s, g)
         /\ \A g \in 1..((Len(t) + 2) \div 3) : Out!Group(s \o t, m + g) = Out!Group(t, g)
  <1> DEFINE u == s \o t
  <1>1. u \in Seq(Nat) /\ Len(u) = Len(s) + Len(t) /\ Len(s) \in Nat /\ Len(t) \in Nat
    BY ConcatParts
  <1>2. (\A k \in 1..Len(s) : u[k] = s[k]) /\ (\A k \in 1..Len(t) : u[Len(s) + k] = t[k])
    BY ConcatParts
  <1> HIDE DEF u
  <1>3. ASSUME NEW g \in 1..m PROVE Out!Group(u, g) = Out!Group(s, g)
    <2>1. 3 * g <= Len(s) /\ 3 * g <= Len(u) /\ 3 * g - 2 \in 1..Len(s) /\ 3 * g \in Nat
      BY <1>1
    <2>2. SubSeq(u, 3 * g - 2, 3 * g) = SubSeq(s, 3 * g - 2, 3 * g)
      <3> DEFINE lo == 3 * g - 2
                 hi == 3 * g
      <3>1. lo \in 1..Len(s) /\ hi \in lo..Len(s) /\ hi \in Nat /\ Len(s) <= Len(u)
        BY <1>1, <2>1
      <3> HIDE DEF lo, hi
      <3>2. \A i \in lo..hi : u[i] = s[i] /\ s[i] \in Nat
        BY <1>1, <1>2, <3>1
      <3> QED BY <3>1, <3>2, <1>1 DEF lo, hi
    <2> QED BY <2>1, <2>2 DEF Out!Group
  <1>4. ASSUME NEW g \in 1..((Len(t) + 2) \div 3) PROVE Out!Group(u, m + g) = Out!Group(t, g)
    <2> DEFINE lo == 3 * g - 2
               hi == IF 3 * g <= Len(t) THEN 3 * g ELSE Len(t)
               off == Len(s)
    <2>1. lo \in 1..Len(t) /\ g \in Nat
      BY <1>1, GroupCount
    <2>2. hi \in lo..Len(t) /\ off \in Nat
      <3>1. Len(t) \in Nat /\ off \in Nat
        BY <1>1
      <3>2. hi \in lo..Len(t)
        BY <2>1, <3>1, GroupBound
      <3> QED BY <3>1, <3>2
    <2>3. Out!Group(u, m + g) = SubSeq(u, off + lo, off + hi)
      <3>1. 3 * (m + g) - 2 = off + lo /\ (IF 3 * (m + g) <= Len(u) THEN 3 * (m + g) ELSE Len(u)) = off + hi
        <4>1. Len(u) = 3 * m + Len(t) /\ off = 3 * m /\ Len(t) \in Nat /\ g \in Nat
          BY <1>1, <2>1
        <4>2. /\ 3 * (m + g) - 2 = 3 * m + lo
              /\ (IF 3 * (m + g) <= 3 * m + Len(t) THEN 3 * (m + g) ELSE 3 * m + Len(t)) = 3 * m + hi
          BY <4>1, GroupEnd
        <4> HIDE DEF lo, hi, off
        <4> QED BY <4>1, <4>2, Zenon
      <3> QED BY <3>1 DEF Out!Group
    <2>4. Out!Group(t, g) = SubSeq(t, lo, hi)
      BY DEF Out!Group
    <2> HIDE DEF lo, hi, off
    <2>5. SubSeq(u, off + lo, off + hi) = SubSeq(t, lo, hi)
      <3>1. /\ off + lo \in (Len(s) + 1)..(Len(s) + Len(t)) /\ off + hi \in (Len(s) + 1)..(Len(s) + Len(t))
            /\ (off + lo) - Len(s) = lo /\ (off + hi) - Len(s) = hi
        BY <1>1, <2>1, <2>2 DEF off
      <3>2. SubSeq(u, off + lo, off + hi) = SubSeq(t, (off + lo) - Len(s), (off + hi) - Len(s))
        BY <3>1, SubSeqOfConcat2 DEF u
      <3> QED BY <3>1, <3>2
    <2> QED BY <2>3, <2>4, <2>5
  <1> QED BY <1>3, <1>4 DEF u

(* The encoding of a stream after whole groups starts afresh. *)
LEMMA Base64Concat ==
  ASSUME NEW s \in Seq(Nat), NEW t \in Seq(Nat), NEW m \in Nat, Len(s) = 3 * m
  PROVE  Out!Base64(s \o t) = Out!Base64(s) \o Out!Base64(t)
  <1> DEFINE u == s \o t
             n == (Len(t) + 2) \div 3
  <1>1. u \in Seq(Nat) /\ Len(u) = Len(s) + Len(t) /\ Len(s) \in Nat /\ Len(t) \in Nat
    BY ConcatParts
  <1>2. /\ \A g \in 1..m : Out!Group(u, g) = Out!Group(s, g)
        /\ \A g \in 1..n : Out!Group(u, m + g) = Out!Group(t, g)
    BY GroupConcat
  <1> HIDE DEF u
  <1>3. n \in Nat /\ m + n = (Len(u) + 2) \div 3 /\ m = (Len(s) + 2) \div 3
    <2>1. n \in Nat /\ (3 * m + Len(t) + 2) \div 3 = m + n
      BY <1>1, GroupCount
    <2>2. 3 * m + Len(t) + 2 = Len(u) + 2
      BY <1>1
    <2>3. (3 * m + 2) \div 3 = m
      BY Thirds
    <2> QED BY <2>1, <2>2, <2>3
  <1>4. /\ Out!Base64(t) \in Seq(Out!Char) /\ Len(Out!Base64(t)) = 4 * n
        /\ \A k \in 1..(4 * n) : Out!Base64(t)[k] = <<Out!Group(t, (k + 3) \div 4), 1 + ((k - 1) % 4)>>
    BY <1>3, Base64IsSeq
  <1> HIDE DEF n
  <1>5. /\ Out!Base64(s) \in Seq(Out!Char) /\ Len(Out!Base64(s)) = 4 * m
        /\ \A k \in 1..(4 * m) : Out!Base64(s)[k] = <<Out!Group(s, (k + 3) \div 4), 1 + ((k - 1) % 4)>>
    BY <1>3, Base64IsSeq
  <1>6. /\ Out!Base64(u) \in Seq(Out!Char) /\ Len(Out!Base64(u)) = 4 * (m + n)
        /\ \A k \in 1..(4 * (m + n)) : Out!Base64(u)[k] = <<Out!Group(u, (k + 3) \div 4), 1 + ((k - 1) % 4)>>
    <2>1. m + n \in Nat
      BY <1>3
    <2> QED BY <1>1, <1>3, <2>1, Base64IsSeq
  <1>7. ASSUME NEW k \in 1..(4 * m) PROVE Out!Base64(u)[k] = Out!Base64(s)[k]
    <2>1. (k + 3) \div 4 \in 1..m /\ k \in 1..(4 * (m + n))
      BY <1>3, Fours
    <2> QED BY <1>2, <1>5, <1>6, <2>1
  <1>8. ASSUME NEW k \in 1..(4 * n) PROVE Out!Base64(u)[4 * m + k] = Out!Base64(t)[k]
    <2> DEFINE l == 4 * m + k
               g == (k + 3) \div 4
    <2>1. g \in 1..n /\ (l + 3) \div 4 = m + g /\ (l - 1) % 4 = (k - 1) % 4
      BY <1>3, Fours
    <2>2. l \in 1..(4 * (m + n))
      BY <1>3
    <2>3. Out!Base64(u)[l] = <<Out!Group(u, (l + 3) \div 4), 1 + ((l - 1) % 4)>>
      BY <1>6, <2>2
    <2>4. Out!Base64(t)[k] = <<Out!Group(t, g), 1 + ((k - 1) % 4)>>
      BY <1>4
    <2>5. Out!Group(u, m + g) = Out!Group(t, g)
      BY <1>2, <2>1
    <2> QED BY <2>1, <2>3, <2>4, <2>5
  <1>9. Out!Base64(u) = Out!Base64(s) \o Out!Base64(t)
    <2>1. \A k \in 1..Len(Out!Base64(s)) : Out!Base64(u)[k] = Out!Base64(s)[k]
      BY <1>5, <1>7
    <2>2. \A k \in 1..Len(Out!Base64(t)) : Out!Base64(u)[Len(Out!Base64(s)) + k] = Out!Base64(t)[k]
      BY <1>4, <1>5, <1>8
    <2>3. Len(Out!Base64(u)) = Len(Out!Base64(s)) + Len(Out!Base64(t))
      BY <1>3, <1>4, <1>5, <1>6
    <2> QED BY <1>4, <1>5, <1>6, <2>1, <2>2, <2>3, Join
  <1> QED BY <1>9 DEF u

-----------------------------------------------------------------------------
(* A sequence of characters cut short. *)
LEMMA Prefix ==
  ASSUME NEW S, NEW x \in Seq(S), NEW upto \in 0..Len(x)
  PROVE  SubSeq(x, 1, upto) \in Seq(S) /\ (upto = Len(x) => SubSeq(x, 1, upto) = x)
  BY SubSeqFull

(* The encodings of nothing. *)
LEMMA EncodesNothing ==
  /\ Out!Hex(<<>>) = <<>> /\ Out!Base64(<<>>) = <<>> /\ Out!Whole(<<>>) = <<>> /\ Out!Rest(<<>>) = <<>>
  <1> DEFINE e == <<>>
  <1>1. e \in Seq(Nat) /\ Len(e) = 0
    OBVIOUS
  <1>2. \A S : \A x \in Seq(S) : Len(x) = 0 => x = <<>>
    BY EmptySeq
  <1> HIDE DEF e
  <1>3. Out!Hex(e) \in Seq(Out!Char) /\ Len(Out!Hex(e)) = 0
    <2>1. Out!Hex(e) \in Seq(Out!Char) /\ Len(Out!Hex(e)) = 2 * Len(e)
      BY <1>1, HexIsSeq
    <2> QED BY <1>1, <2>1
  <1>4. Out!Base64(e) \in Seq(Out!Char) /\ Len(Out!Base64(e)) = 0
    <2>1. 0 \in Nat /\ 0 = (Len(e) + 2) \div 3
      BY <1>1
    <2>2. Len(Out!Base64(e)) = 4 * 0 /\ Out!Base64(e) \in Seq(Out!Char)
      BY <1>1, <2>1, Base64IsSeq
    <2> QED BY <2>2
  <1>5. /\ Out!Whole(e) \in Seq(Nat) /\ Len(Out!Whole(e)) = 0
        /\ Out!Rest(e) \in Seq(Nat) /\ Len(Out!Rest(e)) = 0
    <2>1. PICK a \in Nat, r \in 0..2 : Len(e) = 3 * a + r
      BY <1>1, Thirds
    <2>2. /\ Out!Whole(e) \in Seq(Nat) /\ Len(Out!Whole(e)) = 3 * a
          /\ Out!Rest(e) \in Seq(Nat) /\ Len(Out!Rest(e)) = r
      BY <1>1, <2>1, WholeRest
    <2>3. a = 0 /\ r = 0
      BY <1>1, <2>1
    <2> QED BY <2>2, <2>3
  <1>6. Out!Hex(e) = <<>> /\ Out!Base64(e) = <<>> /\ Out!Whole(e) = <<>> /\ Out!Rest(e) = <<>>
    BY <1>2, <1>3, <1>4, <1>5
  <1> QED BY <1>6 DEF e

(* One more chunk: the groups that the encoder can finish now are those that
   the stream has gained, and what it keeps is what the stream leaves. *)
LEMMA StreamGoesOn ==
  ASSUME NEW a \in Seq(Nat), NEW p \in Seq(Nat)
  PROVE  /\ Out!Rest(a) \o p \in Seq(Nat) /\ Out!Whole(Out!Rest(a) \o p) \in Seq(Nat) /\ Out!Whole(a) \in Seq(Nat)
         /\ Out!Base64(Out!Whole(a)) \o Out!Base64(Out!Whole(Out!Rest(a) \o p)) = Out!Base64(Out!Whole(a \o p))
         /\ Out!Rest(Out!Rest(a) \o p) = Out!Rest(a \o p)
         /\ Out!Base64(Out!Whole(a)) \o Out!Base64(Out!Rest(a)) = Out!Base64(a)
         /\ Out!Rest(a \o p) \in Seq(Nat) /\ Len(Out!Rest(a \o p)) < 3
  <1>1. Len(a) \in Nat /\ a \o p \in Seq(Nat) /\ Len(a \o p) \in Nat
    OBVIOUS
  <1>2. PICK m \in Nat, r \in 0..2 : Len(a) = 3 * m + r
    BY <1>1, Thirds
  <1> DEFINE w == Out!Whole(a)
             b == Out!Rest(a)
  <1>3. w \in Seq(Nat) /\ Len(w) = 3 * m /\ b \in Seq(Nat) /\ w \o b = a
    BY <1>2, WholeRest
  <1> HIDE DEF w, b
  <1>11. w \in Seq(Nat) /\ b \in Seq(Nat) /\ w \o b = a
    BY <1>3
  <1>12. (w \o b) \o p = w \o (b \o p)
    BY <1>11, Associative
  <1> DEFINE q == b \o p
  <1>4. q \in Seq(Nat) /\ Len(q) \in Nat
    BY <1>11, ConcatProperties
  <1>5. a \o p = w \o q
    BY <1>11, <1>12
  <1> HIDE DEF q
  <1>6. Out!Whole(q) \in Seq(Nat)
    <2>1. PICK i \in Nat, j \in 0..2 : Len(q) = 3 * i + j
      BY <1>4, Thirds
    <2> QED BY <1>4, <2>1, WholeRest
  <1>7. Out!Rest(a \o p) \in Seq(Nat) /\ Len(Out!Rest(a \o p)) < 3
    <2>1. PICK i \in Nat, j \in 0..2 : Len(a \o p) = 3 * i + j
      BY <1>1, Thirds
    <2>2. Out!Rest(a \o p) \in Seq(Nat) /\ Len(Out!Rest(a \o p)) = j
      BY <1>1, <2>1, WholeRest
    <2> QED BY <2>2
  <1>8. Out!Whole(a \o p) = w \o Out!Whole(q) /\ Out!Rest(a \o p) = Out!Rest(q)
    <2>1. Out!Whole(w \o q) = w \o Out!Whole(q) /\ Out!Rest(w \o q) = Out!Rest(q)
      BY <1>3, <1>4, WholeConcat
    <2> QED BY <1>5, <2>1
  <1>9. Out!Base64(w \o Out!Whole(q)) = Out!Base64(w) \o Out!Base64(Out!Whole(q))
    BY <1>3, <1>6, Base64Concat
  <1>10. Out!Base64(w \o b) = Out!Base64(w) \o Out!Base64(b)
    BY <1>3, Base64Concat
  <1> QED BY <1>3, <1>4, <1>6, <1>7, <1>8, <1>9, <1>10 DEF w, b, q

(* An encoding is a sequence of characters. *)
LEMMA Base64Type ==
  ASSUME NEW s \in Seq(Nat)
  PROVE  Out!Base64(s) \in Seq(Out!Char) /\ Len(Out!Base64(s)) \in Nat
  <1>1. Len(s) \in Nat /\ (Len(s) + 2) \div 3 \in Nat
    BY GroupCount
  <1>2. Out!Base64(s) \in Seq(Out!Char)
    BY <1>1, Base64IsSeq
  <1> QED BY <1>2

(* A new sink satisfies the invariant. *)
LEMMA SinkInitially == Out!SinkInit => Out!SinkIInv
  <1> SUFFICES ASSUME Out!SinkInit PROVE Out!SinkIInv
    OBVIOUS
  <1> USE SinkAssumption DEF Out!SinkInit
  <1>1. Out!SinkShape
    <2>1. Out!SinkTypeOK
      <3>1. Len(pending) < 3
        OBVIOUS
      <3>2. sent \in 0..MaxBytes
        OBVIOUS
      <3>3. {wrote, sinkClosed, encErr, failed, closeErr} \subseteq BOOLEAN
        OBVIOUS
      <3> QED BY <3>1, <3>2, <3>3 DEF Out!SinkTypeOK, Out!Encodings
    <2>2. <<"old">> \in Seq(Out!Char) /\ <<>> \in Seq(Out!Char)
      BY DEF Out!Char
    <2> QED BY <2>1, <2>2 DEF Out!SinkShape, Out!OldContent
  <1>2. Out!Untouched /\ Out!FileIsOpen /\ Out!OnlyBase64Buffers /\ Out!EncoderKnows
    BY DEF Out!Untouched, Out!FileIsOpen, Out!OnlyBase64Buffers, Out!EncoderKnows
  <1>3. Out!NothingIsLost /\ Out!LossIsReported
    BY DEF Out!NothingIsLost, Out!LossIsReported
  <1> QED BY <1>1, <1>2, <1>3 DEF Out!SinkIInv

(* The encoding changes only while nothing was written. *)
LEMMA SinkSetEncoding == Out!SinkIInv /\ Out!SetEncoding => Out!SinkIInv'
  <1> SUFFICES ASSUME Out!SinkIInv, Out!SetEncoding PROVE Out!SinkIInv'
    OBVIOUS
  <1> USE DEF Out!SinkIInv, Out!SetEncoding
  <1>1. Out!SinkShape'
    BY DEF Out!SinkShape, Out!SinkTypeOK, Out!Encodings
  <1>2. Out!Untouched' /\ Out!FileIsOpen'
    BY DEF Out!Untouched, Out!FileIsOpen
  <1>3. Out!OnlyBase64Buffers' /\ Out!EncoderKnows'
    BY EncodesNothing DEF Out!Untouched, Out!OnlyBase64Buffers, Out!EncoderKnows
  <1>4. Out!NothingIsLost' /\ Out!LossIsReported'
    BY DEF Out!Untouched, Out!NothingIsLost, Out!LossIsReported
  <1> QED BY <1>1, <1>2, <1>3, <1>4

(* What a Write finds at the destination: one encoding of what was taken. *)
LEMMA WriteFinds ==
  ASSUME Out!SinkIInv, ~sinkClosed
  PROVE  /\ Out!Before \in Seq(Out!Char)
         /\ enc = "raw" => Out!Before = accepted
         /\ enc = "hex" /\ ~failed => Out!Before = Out!Hex(accepted)
         /\ enc = "base64" /\ ~encErr => Out!Before = Out!Base64(Out!Whole(accepted)) /\ pending = Out!Rest(accepted) /\ ~failed
  <1> USE DEF Out!SinkIInv
  <1>1. CASE ~wrote
    <2>1. Out!Before = <<>> /\ accepted = <<>> /\ pending = <<>> /\ ~failed
      BY <1>1 DEF Out!Untouched, Out!Before
    <2> QED BY <2>1, EncodesNothing
  <1>2. CASE wrote
    <2>1. Out!Before = dest
      BY <1>2 DEF Out!FileIsOpen, Out!Before
    <2>2. dest \in Seq(Out!Char)
      BY DEF Out!SinkShape
    <2>3. enc = "raw" => dest = accepted
      BY <1>2 DEF Out!LossIsReported
    <2>4. enc = "hex" /\ ~failed => dest = Out!Hex(accepted)
      BY <1>2 DEF Out!NothingIsLost, Out!EncoderKnows, Out!Encode
    <2>5. enc = "base64" /\ ~encErr => dest = Out!Base64(Out!Whole(accepted)) /\ pending = Out!Rest(accepted) /\ ~failed
      BY <1>2 DEF Out!NothingIsLost, Out!EncoderKnows, Out!Encode
    <2> QED BY <2>1, <2>2, <2>3, <2>4, <2>5
  <1> QED BY <1>1, <1>2

(* The bytes of one call. *)
LEMMA ChunkType ==
  ASSUME Out!SinkIInv, NEW n \in 0..MaxChunk
  PROVE  Out!Chunk(n) \in Seq(Nat)
  <1>1. sent \in Nat /\ n \in Nat
    BY SinkAssumption DEF Out!SinkIInv, Out!SinkShape, Out!SinkTypeOK
  <1> QED BY <1>1 DEF Out!Chunk

(* What is true of every Write, whatever its encoding. *)
LEMMA WriteFrame ==
  ASSUME Out!SinkIInv, NEW n \in 0..MaxChunk,
         ~sinkClosed, sent + n <= MaxBytes, Out!ensureOpen,
         wrote' = TRUE, sent' = sent + n,
         UNCHANGED <<kind, enc, sinkClosed, closeErr>>,
         encErr' \in BOOLEAN, failed' \in BOOLEAN, pending' \in Seq(Nat), Len(pending') < 3,
         accepted' \in Seq(Nat), dest' \in Seq(Out!Char)
  PROVE  Out!SinkShape' /\ Out!Untouched' /\ Out!FileIsOpen' /\ ~closeErr'
  <1> USE DEF Out!SinkIInv, Out!SinkShape, Out!SinkTypeOK
  <1>1. sent' \in 0..MaxBytes
    BY SinkAssumption
  <1>2. opened' \in {"no", "open", "closed"} /\ (kind = "file" => opened' # "no")
    BY DEF Out!ensureOpen
  <1>3. ~closeErr'
    BY DEF Out!EncoderKnows
  <1>4. {wrote', sinkClosed', encErr', failed', closeErr'} \subseteq BOOLEAN
    BY <1>3
  <1>5. Out!SinkTypeOK'
    BY <1>1, <1>2, <1>4
  <1> QED BY <1>2, <1>3, <1>5 DEF Out!Untouched, Out!FileIsOpen

(* Raw bytes: the count Write returns is what reached the destination. *)
LEMMA SinkWriteRaw ==
  ASSUME Out!SinkIInv, ~sinkClosed, NEW p \in Seq(Nat), Out!WriteRaw(p),
         UNCHANGED <<kind, enc, sinkClosed, closeErr>>, wrote' = TRUE
  PROVE  /\ encErr' \in BOOLEAN /\ failed' \in BOOLEAN /\ pending' \in Seq(Nat) /\ Len(pending') < 3
         /\ accepted' \in Seq(Nat) /\ dest' \in Seq(Out!Char)
         /\ ~closeErr' => /\ Out!OnlyBase64Buffers' /\ Out!EncoderKnows'
                          /\ Out!NothingIsLost' /\ Out!LossIsReported'
  <1>1. PICK upto \in 0..Len(p) : Out!Arrives(p, upto) /\ accepted' = accepted \o SubSeq(p, 1, upto)
    BY DEF Out!WriteRaw
  <1>2. enc = "raw" /\ enc' = "raw" /\ pending' = pending /\ encErr' = encErr
    BY DEF Out!WriteRaw
  <1>3. Out!Before = accepted /\ accepted \in Seq(Nat) /\ encErr \in BOOLEAN /\ pending \in Seq(Nat) /\ Len(pending) < 3
    BY <1>2, WriteFinds DEF Out!SinkIInv, Out!SinkShape, Out!SinkTypeOK
  <1>4. dest' = accepted' /\ accepted' \in Seq(Nat) /\ failed' \in BOOLEAN
    BY <1>1, <1>3, Prefix DEF Out!Arrives, Out!SinkIInv, Out!SinkShape, Out!SinkTypeOK
  <1>5. Nat \subseteq Out!Char
    BY DEF Out!Char
  <1>6. dest' \in Seq(Out!Char)
    BY <1>4, <1>5
  <1>7. ~encErr /\ pending = <<>>
    BY <1>2 DEF Out!SinkIInv, Out!OnlyBase64Buffers
  <1>8. Out!OnlyBase64Buffers' /\ (~closeErr' => Out!EncoderKnows')
    BY <1>2, <1>7 DEF Out!OnlyBase64Buffers, Out!EncoderKnows
  <1>9. Out!NothingIsLost' /\ Out!LossIsReported'
    BY <1>2, <1>4 DEF Out!NothingIsLost, Out!LossIsReported, Out!Encode
  <1> QED BY <1>2, <1>3, <1>4, <1>6, <1>8, <1>9

(* Hexadecimal digits: a short write counts nothing. *)
LEMMA SinkWriteHex ==
  ASSUME Out!SinkIInv, ~sinkClosed, NEW p \in Seq(Nat), Out!WriteHex(p),
         UNCHANGED <<kind, enc, sinkClosed, closeErr>>, wrote' = TRUE
  PROVE  /\ encErr' \in BOOLEAN /\ failed' \in BOOLEAN /\ pending' \in Seq(Nat) /\ Len(pending') < 3
         /\ accepted' \in Seq(Nat) /\ dest' \in Seq(Out!Char)
         /\ ~closeErr' => /\ Out!OnlyBase64Buffers' /\ Out!EncoderKnows'
                          /\ Out!NothingIsLost' /\ Out!LossIsReported'
  <1>1. PICK upto \in 0..(2 * Len(p)) :
             /\ Out!Arrives(Out!Hex(p), upto)
             /\ accepted' = IF upto = 2 * Len(p) THEN accepted \o p ELSE accepted
    BY DEF Out!WriteHex
  <1>2. enc = "hex" /\ enc' = "hex" /\ pending' = pending /\ encErr' = encErr
    BY DEF Out!WriteHex
  <1>3. accepted \in Seq(Nat) /\ encErr \in BOOLEAN /\ pending \in Seq(Nat) /\ Len(pending) < 3 /\ failed \in BOOLEAN
    BY DEF Out!SinkIInv, Out!SinkShape, Out!SinkTypeOK
  <1>4. Out!Before \in Seq(Out!Char) /\ (~failed => Out!Before = Out!Hex(accepted))
    BY <1>2, WriteFinds
  <1>5. Out!Hex(p) \in Seq(Out!Char) /\ Len(Out!Hex(p)) = 2 * Len(p)
    BY HexIsSeq
  <1>6. dest' = Out!Before \o SubSeq(Out!Hex(p), 1, upto) /\ failed' = (failed \/ upto < Len(Out!Hex(p)))
    BY <1>1 DEF Out!Arrives
  <1>7. SubSeq(Out!Hex(p), 1, upto) \in Seq(Out!Char) /\ (upto = 2 * Len(p) => SubSeq(Out!Hex(p), 1, upto) = Out!Hex(p))
    BY <1>5, Prefix
  <1>8. dest' \in Seq(Out!Char) /\ accepted' \in Seq(Nat) /\ failed' \in BOOLEAN
    BY <1>1, <1>3, <1>4, <1>6, <1>7
  <1>9. ~encErr /\ pending = <<>>
    BY <1>2 DEF Out!SinkIInv, Out!OnlyBase64Buffers
  <1>10. Out!OnlyBase64Buffers' /\ (~closeErr' => Out!EncoderKnows')
    BY <1>2, <1>9 DEF Out!OnlyBase64Buffers, Out!EncoderKnows
  <1>11. ~failed' => dest' = Out!Hex(accepted')
    <2> SUFFICES ASSUME ~failed' PROVE dest' = Out!Hex(accepted')
      OBVIOUS
    <2>3. ~failed /\ ~(upto < Len(Out!Hex(p)))
      BY <1>6, Zenon
    <2>1. ~failed /\ upto = 2 * Len(p)
      BY <1>5, <2>3
    <2>2. dest' = Out!Hex(accepted) \o Out!Hex(p) /\ accepted' = accepted \o p
      BY <1>1, <1>4, <1>6, <1>7, <2>1
    <2> QED BY <1>3, <2>2, HexConcat
  <1>12. Out!NothingIsLost' /\ Out!LossIsReported'
    BY <1>2, <1>11 DEF Out!NothingIsLost, Out!LossIsReported, Out!Encode
  <1> QED BY <1>2, <1>3, <1>8, <1>10, <1>12

(* Base64: whole groups go out, the rest waits in the encoder; after its first
   error the encoder writes nothing more. *)
LEMMA SinkWriteBase64 ==
  ASSUME Out!SinkIInv, ~sinkClosed, NEW p \in Seq(Nat), Out!WriteBase64(p),
         UNCHANGED <<kind, enc, sinkClosed, closeErr>>, wrote' = TRUE
  PROVE  /\ encErr' \in BOOLEAN /\ failed' \in BOOLEAN /\ pending' \in Seq(Nat) /\ Len(pending') < 3
         /\ accepted' \in Seq(Nat) /\ dest' \in Seq(Out!Char)
         /\ ~closeErr' => /\ Out!OnlyBase64Buffers' /\ Out!EncoderKnows'
                          /\ Out!NothingIsLost' /\ Out!LossIsReported'
  <1>1. enc = "base64" /\ enc' = "base64"
    BY DEF Out!WriteBase64
  <1>2. /\ accepted \in Seq(Nat) /\ encErr \in BOOLEAN /\ pending \in Seq(Nat) /\ Len(pending) < 3
        /\ failed \in BOOLEAN
    BY DEF Out!SinkIInv, Out!SinkShape, Out!SinkTypeOK
  <1>3. CASE encErr
    <2>1. dest' = Out!Before /\ pending' = pending /\ encErr' = encErr /\ accepted' = accepted /\ failed' = failed
      BY <1>3 DEF Out!WriteBase64
    <2>2. Out!Before \in Seq(Out!Char)
      BY WriteFinds
    <2>3. failed
      BY <1>1, <1>3 DEF Out!SinkIInv, Out!EncoderKnows
    <2>4. Out!OnlyBase64Buffers' /\ (~closeErr' => Out!EncoderKnows')
      BY <1>1, <1>3, <2>1, <2>3 DEF Out!OnlyBase64Buffers, Out!EncoderKnows
    <2>5. Out!NothingIsLost' /\ Out!LossIsReported'
      BY <1>1, <2>1, <2>3 DEF Out!NothingIsLost, Out!LossIsReported
    <2> QED BY <1>2, <2>1, <2>2, <2>4, <2>5
  <1>4. CASE ~encErr
    <2> DEFINE q == pending \o p
               out == Out!Base64(Out!Whole(q))
    <2>1. PICK upto \in 0..Len(out) :
             /\ Out!Arrives(out, upto)
             /\ encErr' = (upto < Len(out))
             /\ accepted' = IF upto = Len(out) THEN accepted \o p ELSE accepted
             /\ pending' = Out!Rest(q)
      BY <1>4 DEF Out!WriteBase64
    <2>2. Out!Before = Out!Base64(Out!Whole(accepted)) /\ pending = Out!Rest(accepted) /\ ~failed /\ Out!Before \in Seq(Out!Char)
      BY <1>1, <1>4, WriteFinds
    <2>3. /\ q \in Seq(Nat) /\ Out!Whole(q) \in Seq(Nat)
          /\ Out!Base64(Out!Whole(accepted)) \o out = Out!Base64(Out!Whole(accepted \o p))
          /\ Out!Rest(q) = Out!Rest(accepted \o p) /\ Out!Rest(q) \in Seq(Nat) /\ Len(Out!Rest(q)) < 3
      <3>1. q = Out!Rest(accepted) \o p
        BY <2>2
      <3> HIDE DEF q
      <3>2. /\ Out!Rest(accepted) \o p \in Seq(Nat) /\ Out!Whole(Out!Rest(accepted) \o p) \in Seq(Nat)
            /\ Out!Base64(Out!Whole(accepted)) \o Out!Base64(Out!Whole(Out!Rest(accepted) \o p))
                 = Out!Base64(Out!Whole(accepted \o p))
            /\ Out!Rest(Out!Rest(accepted) \o p) = Out!Rest(accepted \o p)
            /\ Out!Rest(accepted \o p) \in Seq(Nat) /\ Len(Out!Rest(accepted \o p)) < 3
        BY <1>2, StreamGoesOn
      <3> QED BY <3>1, <3>2, Zenon
    <2> HIDE DEF q
    <2>4. out \in Seq(Out!Char) /\ Len(out) \in Nat
      BY <2>3, Base64Type
    <2> HIDE DEF out
    <2>5. SubSeq(out, 1, upto) \in Seq(Out!Char) /\ (upto = Len(out) => SubSeq(out, 1, upto) = out)
      BY <2>4, Prefix
    <2>6. dest' = Out!Before \o SubSeq(out, 1, upto) /\ failed' = (upto < Len(out))
      BY <2>1, <2>2 DEF Out!Arrives
    <2>7. dest' \in Seq(Out!Char) /\ accepted' \in Seq(Nat) /\ failed' \in BOOLEAN /\ encErr' = failed'
      BY <1>2, <2>1, <2>2, <2>5, <2>6
    <2>8. ~failed' => dest' = Out!Base64(Out!Whole(accepted')) /\ pending' = Out!Rest(accepted')
      <3> SUFFICES ASSUME ~failed' PROVE dest' = Out!Base64(Out!Whole(accepted')) /\ pending' = Out!Rest(accepted')
        OBVIOUS
      <3>1. ~(upto < Len(out))
        BY <2>6, Zenon
      <3>2. upto = Len(out)
        BY <2>4, <3>1
      <3>3. dest' = Out!Base64(Out!Whole(accepted)) \o out /\ accepted' = accepted \o p /\ pending' = Out!Rest(q)
        BY <2>1, <2>2, <2>5, <2>6, <3>2
      <3> QED BY <2>3, <3>3
    <2>9. Out!OnlyBase64Buffers' /\ (~closeErr' => Out!EncoderKnows')
      BY <1>1, <2>7, <2>8 DEF Out!OnlyBase64Buffers, Out!EncoderKnows
    <2>10. Out!NothingIsLost' /\ Out!LossIsReported'
      BY <1>1, <2>8 DEF Out!NothingIsLost, Out!LossIsReported, Out!Encode
    <2> QED BY <2>1, <2>3, <2>7, <2>9, <2>10
  <1> QED BY <1>2, <1>3, <1>4

(* Write preserves the invariant in every encoding. *)
LEMMA SinkWrite == Out!SinkIInv /\ Out!Write => Out!SinkIInv'
  <1> SUFFICES ASSUME Out!SinkIInv, Out!Write PROVE Out!SinkIInv'
    OBVIOUS
  <1>1. PICK n \in 0..MaxChunk :
        /\ ~sinkClosed /\ sent + n <= MaxBytes
        /\ Out!ensureOpen
        /\ wrote' = TRUE /\ sent' = sent + n
        /\ Out!WriteRaw(Out!Chunk(n)) \/ Out!WriteHex(Out!Chunk(n)) \/ Out!WriteBase64(Out!Chunk(n))
        /\ UNCHANGED <<kind, enc, sinkClosed, closeErr>>
    BY DEF Out!Write
  <1> DEFINE p == Out!Chunk(n)
  <1>2. p \in Seq(Nat)
    BY ChunkType
  <1> HIDE DEF p
  <1>3. /\ encErr' \in BOOLEAN /\ failed' \in BOOLEAN /\ pending' \in Seq(Nat) /\ Len(pending') < 3
        /\ accepted' \in Seq(Nat) /\ dest' \in Seq(Out!Char)
        /\ ~closeErr' => /\ Out!OnlyBase64Buffers' /\ Out!EncoderKnows'
                         /\ Out!NothingIsLost' /\ Out!LossIsReported'
    <2>1. CASE Out!WriteRaw(p)
      BY <1>1, <1>2, <2>1, SinkWriteRaw
    <2>2. CASE Out!WriteHex(p)
      BY <1>1, <1>2, <2>2, SinkWriteHex
    <2>3. CASE Out!WriteBase64(p)
      BY <1>1, <1>2, <2>3, SinkWriteBase64
    <2> QED BY <1>1, <2>1, <2>2, <2>3 DEF p
  <1>4. Out!SinkShape' /\ Out!Untouched' /\ Out!FileIsOpen' /\ ~closeErr'
    BY <1>1, <1>3, WriteFrame
  <1> QED BY <1>3, <1>4 DEF Out!SinkIInv

(* Close ends the last group; an error, its own or an earlier one of the
   encoder, is returned. *)
LEMMA SinkClose == Out!SinkIInv /\ Out!Close => Out!SinkIInv'
  <1> SUFFICES ASSUME Out!SinkIInv, Out!Close PROVE Out!SinkIInv'
    OBVIOUS
  <1> DEFINE out == IF encErr THEN <<>> ELSE Out!Base64(pending)
  <1>1. PICK upto \in 0..Len(out), fileFails \in BOOLEAN :
          /\ dest' = dest \o SubSeq(out, 1, upto)
          /\ encErr' = (encErr \/ upto < Len(out))
          /\ closeErr' = (encErr' \/ fileFails)
    BY DEF Out!Close
  <1>2. /\ ~sinkClosed /\ sinkClosed' = TRUE /\ pending' = <<>>
        /\ opened' = IF opened = "open" THEN "closed" ELSE opened
        /\ UNCHANGED <<kind, enc, wrote, sent, accepted, failed>>
    BY DEF Out!Close
  <1>3. Out!SinkShape
    BY DEF Out!SinkIInv
  <1>4. out \in Seq(Out!Char) /\ Len(out) \in Nat
    <2>1. CASE encErr
      BY <2>1
    <2>2. CASE ~encErr
      BY <1>3, <2>2, Base64Type DEF Out!SinkShape
    <2> QED BY <2>1, <2>2
  <1>5. enc # "base64" => out = <<>>
    BY EncodesNothing DEF Out!SinkIInv, Out!OnlyBase64Buffers
  <1>6. wrote /\ enc = "base64" /\ ~failed => ~encErr /\ dest = Out!Base64(Out!Whole(accepted)) /\ out = Out!Base64(Out!Rest(accepted))
    BY <1>2 DEF Out!SinkIInv, Out!EncoderKnows, Out!NothingIsLost, Out!Encode
  <1>12. ~wrote => out = <<>>
    BY EncodesNothing DEF Out!SinkIInv, Out!Untouched
  <1> HIDE DEF out
  <1>7. SubSeq(out, 1, upto) \in Seq(Out!Char) /\ (upto = Len(out) => SubSeq(out, 1, upto) = out)
    BY <1>4, Prefix
  <1>8. dest' \in Seq(Out!Char) /\ encErr' \in BOOLEAN /\ closeErr' \in BOOLEAN
    BY <1>1, <1>3, <1>7 DEF Out!SinkShape, Out!SinkTypeOK
  <1>9. out = <<>> => upto = 0 /\ upto = Len(out) /\ SubSeq(out, 1, upto) = <<>> /\ dest' = dest /\ encErr' = encErr
    <2> SUFFICES ASSUME out = <<>> PROVE upto = 0 /\ upto = Len(out) /\ SubSeq(out, 1, upto) = <<>> /\ dest' = dest /\ encErr' = encErr
      OBVIOUS
    <2>1. Len(out) = 0
      OBVIOUS
    <2>2. upto = 0 /\ upto = Len(out)
      BY <2>1
    <2>3. SubSeq(out, 1, upto) = <<>>
      BY <1>7, <2>2
    <2>4. dest \o <<>> = dest
      BY <1>3 DEF Out!SinkShape
    <2> QED BY <1>1, <1>3, <2>1, <2>2, <2>3, <2>4 DEF Out!SinkShape, Out!SinkTypeOK
  <1>10. Out!SinkShape'
    <2>1. {wrote', sinkClosed', encErr', failed', closeErr'} \subseteq BOOLEAN
      BY <1>2, <1>3, <1>8 DEF Out!SinkShape, Out!SinkTypeOK
    <2>2. Len(pending') < 3 /\ pending' \in Seq(Nat)
      BY <1>2
    <2>3. Out!SinkTypeOK'
      BY <1>2, <1>3, <2>1, <2>2 DEF Out!SinkShape, Out!SinkTypeOK
    <2> QED BY <1>2, <1>3, <1>8, <2>2, <2>3 DEF Out!SinkShape
  <1>11. Out!Untouched' /\ Out!FileIsOpen'
    BY <1>2, <1>9, <1>12 DEF Out!SinkIInv, Out!Untouched, Out!FileIsOpen
  <1>13. Out!OnlyBase64Buffers' /\ Out!EncoderKnows'
    BY <1>1, <1>2, <1>5, <1>9 DEF Out!SinkIInv, Out!OnlyBase64Buffers, Out!EncoderKnows
  <1>14. Out!LossIsReported'
    BY <1>1, <1>2, <1>5, <1>9 DEF Out!SinkIInv, Out!LossIsReported, Out!EncoderKnows
  <1>15. Out!NothingIsLost'
    <2> SUFFICES ASSUME wrote, ~failed, ~closeErr' PROVE dest' = Out!Encode(enc, accepted)
      BY <1>2 DEF Out!NothingIsLost
    <2>1. CASE enc = "base64"
      <3>1. ~encErr' /\ ~(upto < Len(out))
        BY <1>1, Zenon
      <3>5. upto = Len(out)
        BY <1>4, <3>1
      <3>2. dest' = Out!Base64(Out!Whole(accepted)) \o Out!Base64(Out!Rest(accepted))
        BY <1>1, <1>6, <1>7, <2>1, <3>5
      <3>3. accepted \in Seq(Nat) /\ <<>> \in Seq(Nat)
        BY <1>3 DEF Out!SinkShape
      <3>4. dest' = Out!Base64(accepted)
        BY <3>2, <3>3, StreamGoesOn
      <3> QED BY <2>1, <3>4 DEF Out!Encode
    <2>2. CASE enc # "base64"
      <3>1. dest' = dest
        BY <1>5, <1>9, <2>2
      <3> QED BY <1>2, <2>2, <3>1 DEF Out!SinkIInv, Out!NothingIsLost, Out!EncoderKnows
    <2> QED BY <2>1, <2>2
  <1> QED BY <1>10, <1>11, <1>13, <1>14, <1>15 DEF Out!SinkIInv

(* The invariant is about the sink's variables only. *)
LEMMA SinkStays == Out!SinkIInv /\ UNCHANGED outVars => Out!SinkIInv'
  BY DEF outVars, Out!SinkIInv, Out!SinkShape, Out!SinkTypeOK, Out!Untouched, Out!FileIsOpen,
         Out!OnlyBase64Buffers, Out!EncoderKnows, Out!NothingIsLost, Out!LossIsReported, Out!Before

(* In the library only a step of the sink, or none, touches a sink in focus. *)
LEMMA SinkFocus ==
  ASSUME [LibNext]_libvars, focus' = "sink"
  PROVE  focus = "sink" /\ (Out!SinkNext \/ UNCHANGED outVars)
  BY DEF LibNext, libvars, OwnershipRuns, IssuanceRuns, ChainRuns, KeyStoreRuns, SinkRuns, DigestsRun

(* Whatever a caller does with a sink, the inductive invariant holds. *)
THEOREM SinkInvariant == LibSpec => [](focus = "sink" => Out!SinkIInv)
  <1>1. LibInit => (focus = "sink" => Out!SinkIInv)
    BY SinkInitially DEF LibInit
  <1>2. (focus = "sink" => Out!SinkIInv) /\ [LibNext]_libvars => (focus = "sink" => Out!SinkIInv)'
    <2> SUFFICES ASSUME focus = "sink" => Out!SinkIInv, [LibNext]_libvars, focus' = "sink" PROVE Out!SinkIInv'
      OBVIOUS
    <2>1. focus = "sink" /\ (Out!SinkNext \/ UNCHANGED outVars)
      BY SinkFocus
    <2>2. CASE Out!SetEncoding
      BY <2>1, <2>2, SinkSetEncoding
    <2>3. CASE Out!WriteCannotOpen
      <3>1. UNCHANGED outVars
        BY <2>3 DEF Out!WriteCannotOpen, Out!svars, outVars
      <3> QED BY <2>1, <3>1, SinkStays
    <2>4. CASE Out!Write
      BY <2>1, <2>4, SinkWrite
    <2>5. CASE Out!Close
      BY <2>1, <2>5, SinkClose
    <2>6. CASE UNCHANGED outVars
      BY <2>1, <2>6, SinkStays
    <2> QED BY <2>1, <2>2, <2>3, <2>4, <2>5, <2>6 DEF Out!SinkNext
  <1> QED BY <1>1, <1>2, PTL DEF LibSpec

(* A sink that reports no failure holds exactly one encoding of what it took,
   however the bytes were cut into calls; one that failed says so. *)
THEOREM SinksKeepTheirWord == LibSpec => []SinkKeepsItsWord
  <1>1. (focus = "sink" => Out!SinkIInv) => SinkKeepsItsWord
    BY DEF Out!SinkIInv, SinkKeepsItsWord
  <1> QED BY <1>1, SinkInvariant, PTL
====
