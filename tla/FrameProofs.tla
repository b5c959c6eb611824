---------------------------- MODULE FrameProofs ----------------------------
(***************************************************************************)
(* What encode writes decode reads, and a scan finds nothing but what was  *)
(* written, for records of any contents and any number of them, wherever   *)
(* the file was cut and whichever single word of it was damaged.           *)
(*                                                                         *)
(* Assumed of the checksum is that it tells sequences apart that differ in *)
(* one word, as crc32 does for a change within 32 neighbouring bits; the   *)
(* timestamp is a word of 64, of which damage spread wider is not covered. *)
(*                                                                         *)
(* IInv relates the words of the file to the records that were written     *)
(* (Layout) and the scan to those it has passed (Scanned).  The properties *)
(* are not inductive without Layout: that no damaged word gets through     *)
(* depends on where every field of every frame stands.                     *)
(***************************************************************************)
EXTENDS Frame, SequenceTheorems, FiniteSetTheorems, TLAPS

\* A checksum is a word.
CrcWord == \A s \in Seq(Nat) : Crc(s) \in Nat

\* The frame of r stands in f after pos words.
FrameAt(f, pos, r) ==
    /\ f \in Seq(Nat) /\ pos \in Nat
    /\ pos + PREFIX_SIZE + SizeOf(r) <= Len(f)
    /\ f[pos + 1] = r.offset /\ f[pos + 2] = SizeOf(r) /\ f[pos + 3] = Crc(BodyOf(r))
    /\ \A k \in 1 .. SizeOf(r) - 1 : f[pos + 3 + k] = BodyOf(r)[k]

\* A key or a value, and what its length is written as.
LEMMA FieldType ==
    ASSUME NEW x \in Keys
    PROVE  /\ Bytes(x) \in Seq(Nat) /\ Len(Bytes(x)) \in Nat
           /\ Length(x) \in Int /\ Length(x) >= NULL /\ Unsigned(Length(x)) \in Nat
           /\ Present(Length(x)) = Len(Bytes(x))
           /\ x = None <=> Length(x) = NULL
<1>1. /\ Bytes(x) \in Seq(Nat) /\ Len(Bytes(x)) \in Nat
      /\ Length(x) \in Int /\ Length(x) >= NULL
      /\ Present(Length(x)) = Len(Bytes(x))
      /\ x = None <=> Length(x) = NULL
  BY KeysAssumption DEF Bytes, Length, Present, NULL
<1>2. SignBit \in Nat /\ SignBit > 0
  BY SizesAssumption
<1>3. Unsigned(Length(x)) \in Nat
  BY <1>1, <1>2 DEF Unsigned, NULL
<1>4. QED
  BY <1>1, <1>3

LEMMA LengthRead ==
    ASSUME NEW x \in Keys, Len(Bytes(x)) <= MAX_SIZE
    PROVE  Signed(Unsigned(Length(x))) = Length(x)
<1>1. Length(x) \in Int /\ Length(x) >= -1 /\ Length(x) < SignBit
  BY KeysAssumption, SizesAssumption DEF Bytes, Length, NULL
<1>2. SignBit \in Nat /\ SignBit > 0
  BY SizesAssumption
<1>3. QED
  BY <1>1, <1>2 DEF Signed, Unsigned

\* Places after the first a words.
LEMMA Beyond ==
    ASSUME NEW a \in Nat, NEW n \in Nat, NEW k \in 1 .. n
    PROVE  a + k \in 1 .. a + n /\ ~ (a + k <= a) /\ a + k - a = k
OBVIOUS

\* The words that the checksum covers.
LEMMA BodyWords ==
    ASSUME NEW r \in Records
    PROVE  /\ BodyOf(r) \in Seq(Nat)
           /\ Len(BodyOf(r)) = 3 + Len(Bytes(r.key)) + Len(Bytes(r.value))
           /\ BodyOf(r)[1] = r.timestamp
           /\ BodyOf(r)[2] = Unsigned(Length(r.key))
           /\ BodyOf(r)[3] = Unsigned(Length(r.value))
           /\ \A k \in 1 .. Len(Bytes(r.key)) : BodyOf(r)[3 + k] = Bytes(r.key)[k]
           /\ \A k \in 1 .. Len(Bytes(r.value)) :
                BodyOf(r)[3 + Len(Bytes(r.key)) + k] = Bytes(r.value)[k]
<1> DEFINE K == Bytes(r.key)
           V == Bytes(r.value)
           H == <<r.timestamp, Unsigned(Length(r.key)), Unsigned(Length(r.value))>>
<1>1. r.key \in Keys /\ r.value \in Keys /\ r.timestamp \in Nat
  BY WordsAssumption DEF Records
<1>2. K \in Seq(Nat) /\ V \in Seq(Nat) /\ Unsigned(Length(r.key)) \in Nat /\ Unsigned(Length(r.value)) \in Nat
  BY <1>1, FieldType
<1>3. /\ H \in Seq(Nat) /\ Len(H) = 3 /\ H[1] = r.timestamp /\ H[2] = Unsigned(Length(r.key))
      /\ H[3] = Unsigned(Length(r.value))
  BY <1>1, <1>2
<1>4. BodyOf(r) = H \o K \o V
  BY DEF BodyOf
<1> HIDE DEF K, V, H
<1>5. QED
  BY <1>2, <1>3, <1>4 DEF K, V, H

\* The words of a frame, field by field.
LEMMA FrameWords ==
    ASSUME NEW r \in Records, CrcWord
    PROVE  /\ SizeOf(r) \in Nat /\ SizeOf(r) = 4 + Len(Bytes(r.key)) + Len(Bytes(r.value))
           /\ Encode(r) \in Seq(Nat) /\ Len(Encode(r)) = PREFIX_SIZE + SizeOf(r)
           /\ Encode(r)[1] = r.offset /\ Encode(r)[2] = SizeOf(r)
           /\ Encode(r)[3] = Crc(BodyOf(r))
           /\ \A k \in 1 .. SizeOf(r) - 1 : Encode(r)[3 + k] = BodyOf(r)[k]
<1> DEFINE P == <<r.offset, SizeOf(r), Crc(BodyOf(r))>>
           B == BodyOf(r)
<1>1. /\ B \in Seq(Nat) /\ Len(B) = 3 + Len(Bytes(r.key)) + Len(Bytes(r.value))
      /\ Len(Bytes(r.key)) \in Nat /\ Len(Bytes(r.value)) \in Nat
  BY BodyWords, FieldType DEF Records
<1>2. SizeOf(r) \in Nat /\ SizeOf(r) = 1 + Len(B)
  BY <1>1 DEF SizeOf
<1>3. P \in Seq(Nat) /\ Len(P) = 3 /\ P[1] = r.offset /\ P[2] = SizeOf(r) /\ P[3] = Crc(B)
  BY <1>1, <1>2 DEF Records, CrcWord
<1>4. Encode(r) = P \o B
  BY DEF Encode
<1> HIDE DEF P, B
<1>5. Encode(r) \in Seq(Nat) /\ Len(Encode(r)) = 3 + Len(B)
  <2>1. B \in Seq(Nat) /\ P \in Seq(Nat)
    BY <1>1, <1>3
  <2>2. P \o B \in Seq(Nat) /\ Len(P \o B) = Len(P) + Len(B)
    BY <2>1, ConcatProperties
  <2>3. QED
    BY <1>3, <1>4, <2>2
<1>6. \A i \in 1 .. 3 + Len(B) : Encode(r)[i] = IF i <= 3 THEN P[i] ELSE B[i - 3]
  <2>1. \A i \in 1 .. Len(P) + Len(B) : (P \o B)[i] = IF i <= Len(P) THEN P[i] ELSE B[i - Len(P)]
    <3>1. B \in Seq(Nat) /\ P \in Seq(Nat)
      BY <1>1, <1>3
    <3>2. QED
      BY <3>1, ConcatProperties
  <2>2. QED
    BY <1>3, <1>4, <2>1
<1>7. Encode(r)[1] = P[1] /\ Encode(r)[2] = P[2] /\ Encode(r)[3] = P[3]
  <2>1. 1 \in 1 .. 3 + Len(B) /\ 2 \in 1 .. 3 + Len(B) /\ 3 \in 1 .. 3 + Len(B)
    BY <1>1
  <2>2. QED
    BY <1>6, <2>1
<1>8. \A k \in 1 .. Len(B) : Encode(r)[3 + k] = B[k]
  <2> SUFFICES ASSUME NEW k \in 1 .. Len(B) PROVE Encode(r)[3 + k] = B[k]
    OBVIOUS
  <2>1. 3 + k \in 1 .. 3 + Len(B) /\ ~ (3 + k <= 3) /\ 3 + k - 3 = k
    BY <1>1
  <2>2. QED
    BY <1>6, <2>1
<1>9. SizeOf(r) = 4 + Len(Bytes(r.key)) + Len(Bytes(r.value))
  BY DEF SizeOf
<1>10. QED
  BY <1>1, <1>2, <1>3, <1>5, <1>7, <1>8, <1>9 DEF PREFIX_SIZE, B

\* A part of a file, and one that reads word for word like s.
LEMMA PartWords ==
    ASSUME NEW S, NEW f \in Seq(S), NEW p \in Nat, NEW q \in Nat, p <= q, q <= Len(f)
    PROVE  /\ SubSeq(f, p + 1, q) \in Seq(S) /\ Len(SubSeq(f, p + 1, q)) = q - p
           /\ \A k \in 1 .. q - p : SubSeq(f, p + 1, q)[k] = f[p + k]
<1>1. \A i \in p + 1 .. q : f[i] \in S
  BY ElementOfSeq
<1>2. /\ SubSeq(f, p + 1, q) \in Seq(S)
      /\ Len(SubSeq(f, p + 1, q)) = IF p + 1 <= q THEN q - (p + 1) + 1 ELSE 0
      /\ \A i \in 1 .. q - (p + 1) + 1 : SubSeq(f, p + 1, q)[i] = f[p + 1 + i - 1]
  BY <1>1, SubSeqProperties
<1>3. q - (p + 1) + 1 = q - p /\ \A k \in 1 .. q - p : p + 1 + k - 1 = p + k
  OBVIOUS
<1>4. QED
  BY <1>2, <1>3

LEMMA PartRead ==
    ASSUME NEW f \in Seq(Nat), NEW s \in Seq(Nat), NEW p \in Nat, NEW q \in Nat,
           q = p + Len(s), q <= Len(f), \A k \in 1 .. Len(s) : f[p + k] = s[k]
    PROVE  SubSeq(f, p + 1, q) = s
<1>1. Len(s) \in Nat /\ p <= q /\ q - p = Len(s)
  OBVIOUS
<1>2. /\ SubSeq(f, p + 1, q) \in Seq(Nat) /\ Len(SubSeq(f, p + 1, q)) = q - p
      /\ \A k \in 1 .. q - p : SubSeq(f, p + 1, q)[k] = f[p + k]
  BY <1>1, PartWords
<1>3. QED
  BY <1>1, <1>2, SeqEqual

\* What decode sees of a frame that stands in the file.
LEMMA FieldsRead ==
    ASSUME NEW r \in Records, CrcWord, SizeOf(r) <= MAX_SIZE,
           NEW f, NEW pos, FrameAt(f, pos, r)
    PROVE  /\ f[pos + 1] = r.offset /\ SizeAt(f, pos) = SizeOf(r)
           /\ FrameEnd(f, pos) = pos + PREFIX_SIZE + SizeOf(r)
           /\ f[pos + 3] = Crc(BodyOf(r))
           /\ f[pos + 4] = r.timestamp
           /\ KlenAt(f, pos) = Length(r.key) /\ VlenAt(f, pos) = Length(r.value)
           /\ SubSeq(f, pos + 4, FrameEnd(f, pos)) = BodyOf(r)
           /\ KeyEnd(f, pos) = pos + HEADER_SIZE + Len(Bytes(r.key))
           /\ SubSeq(f, pos + HEADER_SIZE + 1, KeyEnd(f, pos)) = Bytes(r.key)
           /\ SubSeq(f, KeyEnd(f, pos) + 1, FrameEnd(f, pos)) = Bytes(r.value)
<1> DEFINE K == Bytes(r.key)
           V == Bytes(r.value)
           B == BodyOf(r)
           n == SizeOf(r)
<1>1. /\ K \in Seq(Nat) /\ V \in Seq(Nat) /\ Len(K) \in Nat /\ Len(V) \in Nat
      /\ Present(Length(r.key)) = Len(K)
  BY FieldType DEF Records
<1>2. /\ B \in Seq(Nat) /\ Len(B) = 3 + Len(K) + Len(V)
      /\ B[1] = r.timestamp /\ B[2] = Unsigned(Length(r.key)) /\ B[3] = Unsigned(Length(r.value))
      /\ \A k \in 1 .. Len(K) : B[3 + k] = K[k]
      /\ \A k \in 1 .. Len(V) : B[3 + Len(K) + k] = V[k]
  BY BodyWords
<1>3. n = 4 + Len(K) + Len(V)
  BY DEF SizeOf
<1>4. /\ f \in Seq(Nat) /\ pos \in Nat /\ pos + 2 + n <= Len(f)
      /\ f[pos + 1] = r.offset /\ f[pos + 2] = n /\ f[pos + 3] = Crc(B)
  BY DEF FrameAt, PREFIX_SIZE
<1>5. \A k \in 1 .. n - 1 : f[pos + 3 + k] = B[k]
  BY DEF FrameAt
<1> HIDE DEF K, V, B, n
<1>6. /\ n \in Nat /\ n = 4 + Len(K) + Len(V) /\ Len(B) = n - 1 /\ Len(K) \in Nat /\ Len(V) \in Nat
      /\ pos \in Nat /\ Len(f) \in Nat /\ pos + 2 + n <= Len(f)
  <2>1. Len(B) = 3 + Len(K) + Len(V)
    BY <1>2
  <2>2. Len(K) \in Nat /\ Len(V) \in Nat
    BY <1>1
  <2>3. pos \in Nat /\ Len(f) \in Nat /\ pos + 2 + n <= Len(f)
    BY <1>4
  <2>4. QED
    BY <1>3, <2>1, <2>2, <2>3
<1>7. /\ f[pos + 4] = r.timestamp /\ f[pos + 5] = Unsigned(Length(r.key))
      /\ f[pos + 6] = Unsigned(Length(r.value))
  <2>1. 1 \in 1 .. n - 1 /\ 2 \in 1 .. n - 1 /\ 3 \in 1 .. n - 1
    BY <1>6
  <2>2. pos + 3 + 1 = pos + 4 /\ pos + 3 + 2 = pos + 5 /\ pos + 3 + 3 = pos + 6
    BY <1>6
  <2>3. QED
    BY <1>2, <1>5, <2>1, <2>2
<1>8. SizeAt(f, pos) = n
  BY <1>4 DEF SizeAt
<1>9. FrameEnd(f, pos) = pos + 2 + n
  BY <1>8 DEF FrameEnd, PREFIX_SIZE
<1>10. KlenAt(f, pos) = Length(r.key) /\ VlenAt(f, pos) = Length(r.value)
  <2>1. Len(K) <= MAX_SIZE /\ Len(V) <= MAX_SIZE
    BY <1>6, SizesAssumption DEF n
  <2>2. QED
    BY <1>7, <2>1, LengthRead DEF KlenAt, VlenAt, K, V, Records
<1>11. KeyEnd(f, pos) = pos + 6 + Len(K)
  BY <1>1, <1>10 DEF KeyEnd, HEADER_SIZE
<1>12. /\ pos + 3 \in Nat /\ pos + 6 \in Nat /\ pos + 6 + Len(K) \in Nat /\ pos + 2 + n \in Nat
       /\ pos + 2 + n = pos + 3 + Len(B) /\ pos + 6 + Len(K) <= Len(f)
       /\ pos + 2 + n = pos + 6 + Len(K) + Len(V)
  BY <1>6
<1>13. f \in Seq(Nat) /\ B \in Seq(Nat) /\ K \in Seq(Nat) /\ V \in Seq(Nat)
  BY <1>1, <1>2, <1>4
<1>14. SubSeq(f, pos + 3 + 1, pos + 2 + n) = B
  <2>1. \A k \in 1 .. Len(B) : f[pos + 3 + k] = B[k]
    BY <1>5, <1>6
  <2>2. pos + 2 + n = (pos + 3) + Len(B) /\ pos + 2 + n <= Len(f)
    BY <1>6, <1>12
  <2>3. QED
    BY <1>12, <1>13, <2>1, <2>2, PartRead
<1>15. \A k \in 1 .. Len(K) : f[pos + 6 + k] = K[k]
  <2> SUFFICES ASSUME NEW k \in 1 .. Len(K) PROVE f[pos + 6 + k] = K[k]
    OBVIOUS
  <2>1. 3 + k \in 1 .. n - 1 /\ pos + 3 + (3 + k) = pos + 6 + k
    BY <1>6
  <2>2. QED
    BY <1>2, <1>5, <2>1
<1>16. \A k \in 1 .. Len(V) : f[pos + 6 + Len(K) + k] = V[k]
  <2> SUFFICES ASSUME NEW k \in 1 .. Len(V) PROVE f[pos + 6 + Len(K) + k] = V[k]
    OBVIOUS
  <2>1. 3 + Len(K) + k \in 1 .. n - 1 /\ pos + 3 + (3 + Len(K) + k) = pos + 6 + Len(K) + k
    BY <1>6
  <2>2. QED
    BY <1>2, <1>5, <2>1
<1>17. /\ SubSeq(f, pos + 6 + 1, pos + 6 + Len(K)) = K
       /\ SubSeq(f, pos + 6 + Len(K) + 1, pos + 2 + n) = V
  <2>1. pos + 6 + Len(K) = (pos + 6) + Len(K) /\ Len(K) \in Nat /\ Len(V) \in Nat
        /\ pos + 6 + Len(K) + Len(V) <= Len(f)
    BY <1>6, <1>12, <1>13
  <2>2. SubSeq(f, (pos + 6) + 1, (pos + 6) + Len(K)) = K
    BY <1>12, <1>13, <1>15, PartRead
  <2>3. SubSeq(f, (pos + 6 + Len(K)) + 1, (pos + 6 + Len(K)) + Len(V)) = V
    BY <1>12, <1>13, <1>16, <2>1, PartRead
  <2>4. QED
    BY <1>12, <2>2, <2>3
<1>18. pos + 3 + 1 = pos + 4
  BY <1>6
<1>19. QED
  BY <1>4, <1>7, <1>8, <1>9, <1>10, <1>11, <1>14, <1>17, <1>18
     DEF K, V, B, n, PREFIX_SIZE, HEADER_SIZE

\* What encode wrote, decode reads: for every record within the limit, and any
\* checksum ("encode and decode total inverses: anything this method emits,
\* read_one accepts").
THEOREM ReadBack ==
    ASSUME NEW r \in Records, CrcWord, SizeOf(r) <= MAX_SIZE,
           NEW f, NEW pos, FrameAt(f, pos, r)
    PROVE  /\ Decodes(f, pos) /\ Decoded(f, pos) = r
           /\ FrameEnd(f, pos) = pos + PREFIX_SIZE + SizeOf(r)
<1>1. /\ f[pos + 1] = r.offset /\ SizeAt(f, pos) = SizeOf(r)
      /\ FrameEnd(f, pos) = pos + PREFIX_SIZE + SizeOf(r)
      /\ f[pos + 4] = r.timestamp
      /\ KlenAt(f, pos) = Length(r.key) /\ VlenAt(f, pos) = Length(r.value)
      /\ SubSeq(f, pos + 4, FrameEnd(f, pos)) = BodyOf(r)
      /\ SubSeq(f, pos + HEADER_SIZE + 1, KeyEnd(f, pos)) = Bytes(r.key)
      /\ SubSeq(f, KeyEnd(f, pos) + 1, FrameEnd(f, pos)) = Bytes(r.value)
  BY FieldsRead
<1>2. /\ r.key \in Keys /\ r.value \in Keys
      /\ r = [offset |-> r.offset, timestamp |-> r.timestamp, key |-> r.key, value |-> r.value]
  BY DEF Records
<1>3. \A x \in Keys : /\ Len(Bytes(x)) \in Nat /\ Length(x) >= NULL
                     /\ Present(Length(x)) = Len(Bytes(x))
  BY FieldType
<1>4. SizeOf(r) = 4 + Present(Length(r.key)) + Present(Length(r.value)) /\ SizeOf(r) \in 4 .. MAX_SIZE
  BY <1>2, <1>3, SizesAssumption DEF SizeOf
<1>5. f[pos + 3] = Crc(BodyOf(r)) /\ pos + PREFIX_SIZE + SizeOf(r) <= Len(f)
      /\ pos \in Nat /\ Len(f) \in Nat
  BY DEF FrameAt
<1>6. Sound(f, pos)
  BY <1>1, <1>2, <1>3, <1>4, <1>5 DEF Sound
<1>7. ~ Torn(f, pos)
  BY <1>1, <1>4, <1>5 DEF Torn, PREFIX_SIZE
<1>8. Decodes(f, pos)
  BY <1>1, <1>4, <1>6, <1>7 DEF Decodes
<1>9. \A x \in Keys : Field(Length(x), Bytes(x)) = x
  BY KeysAssumption DEF Field, Length, Bytes, NULL
<1>10. Decoded(f, pos) = r
  BY <1>1, <1>2, <1>9 DEF Decoded
<1>11. QED
  BY <1>1, <1>8, <1>10

-----------------------------------------------------------------------------
(* The inductive invariant.                                                *)

\* f is a file to which the records ws were written, up to stops: all of it or
\* a first part, and as it was written but for at most one word, in bad.
Layout(f, ws, stops, bad) ==
    /\ f \in Seq(Nat) /\ ws \in Seq(Records) /\ stops \in Seq(Nat)
    /\ Len(stops) = Len(ws) /\ Len(f) <= StartIn(stops, Len(ws) + 1)
    /\ \A i \in 1 .. Len(ws) :
        /\ ws[i].offset = i - 1 /\ SizeOf(ws[i]) <= MAX_SIZE
        /\ stops[i] = StartIn(stops, i) + PREFIX_SIZE + SizeOf(ws[i])
    /\ \A i, j \in 1 .. Len(ws) : i <= j => stops[i] <= stops[j]
    /\ \A i \in 1 .. Len(ws) : \A k \in 1 .. PREFIX_SIZE + SizeOf(ws[i]) :
        StartIn(stops, i) + k \in 1 .. Len(f) =>
            (StartIn(stops, i) + k \in bad <=> f[StartIn(stops, i) + k] # Encode(ws[i])[k])
    /\ bad \subseteq 1 .. Len(f) /\ \A d, e \in bad : d = e

\* The scan has gone through the first of them.
Scanned ==
    /\ found \in Seq(Records) /\ Len(found) <= Len(written)
    /\ \A i \in 1 .. Len(found) : found[i] = written[i]
    /\ at = StartIn(ends, Len(found) + 1) /\ at <= Len(file)
    /\ phase = "scanning" => damaged \cap 1 .. at = {}

IInv ==
    /\ Layout(file, written, ends, damaged)
    /\ phase \in {"open", "closed", "scanning", "refused"}
    /\ phase \in {"scanning", "open"} => Scanned
    /\ phase = "open" => Len(found) = Len(written) /\ at = Len(file)

-----------------------------------------------------------------------------
(* The scan of such a file.                                                *)

\* The checksum tells any two sequences of words apart that differ in one.
CrcDetects ==
    \A s, t \in Seq(Nat) : \A i \in 1 .. Len(s) :
        /\ Len(s) = Len(t) /\ Crc(s) = Crc(t)
        /\ \A j \in 1 .. Len(s) : j # i => s[j] = t[j]
        => s = t

\* The words of the frame of r stand in f after pos words as far as f goes, but
\* for what is bad.
Standing(f, bad, pos, r) ==
    /\ pos + 1 \notin bad => f[pos + 1] = r.offset
    /\ pos + 2 \notin bad /\ pos + 2 <= Len(f) => f[pos + 2] = SizeOf(r)
    /\ pos + 3 \notin bad /\ pos + 3 <= Len(f) => f[pos + 3] = Crc(BodyOf(r))
    /\ \A k \in 1 .. SizeOf(r) - 1 :
        pos + 3 + k \notin bad /\ pos + 3 + k <= Len(f) => f[pos + 3 + k] = BodyOf(r)[k]

\* The next frame: there is one if the file goes on, and it stands there.
LEMMA NextFrame ==
    ASSUME NEW f, NEW ws, NEW stops, NEW bad, Layout(f, ws, stops, bad), CrcWord,
           NEW m \in Nat, m <= Len(ws), NEW pos, pos = StartIn(stops, m + 1),
           pos < Len(f)
    PROVE  /\ m + 1 \in 1 .. Len(ws) /\ ws[m + 1] \in Records /\ ws[m + 1].offset = m
           /\ SizeOf(ws[m + 1]) \in 4 .. MAX_SIZE
           /\ stops[m + 1] = pos + 2 + SizeOf(ws[m + 1]) /\ StartIn(stops, m + 2) = stops[m + 1]
           /\ Standing(f, bad, pos, ws[m + 1])
<1> DEFINE r == ws[m + 1]
           n == SizeOf(r)
<1>1. /\ f \in Seq(Nat) /\ ws \in Seq(Records) /\ stops \in Seq(Nat)
      /\ Len(stops) = Len(ws) /\ Len(f) <= StartIn(stops, Len(ws) + 1)
  BY DEF Layout
<1>2. m + 1 \in 1 .. Len(ws)
  <2>1. m # Len(ws)
    BY <1>1, SMT DEF StartIn
  <2>2. QED
    BY <1>1, <2>1
<1>3. r \in Records /\ r.offset = m /\ n <= MAX_SIZE /\ stops[m + 1] = pos + 2 + n
  <2>1. r \in Records
    BY <1>1, <1>2, ElementOfSeq
  <2>2. r.offset = m + 1 - 1 /\ n <= MAX_SIZE /\ stops[m + 1] = StartIn(stops, m + 1) + PREFIX_SIZE + n
    BY <1>2 DEF Layout
  <2>3. QED
    BY <2>1, <2>2 DEF PREFIX_SIZE
<1>4. n \in Nat /\ n >= 4
  <2>1. Len(Bytes(r.key)) \in Nat /\ Len(Bytes(r.value)) \in Nat
    BY <1>3, FieldType DEF Records
  <2>2. QED
    BY <2>1 DEF SizeOf
<1>5. pos \in Nat
  <2>1. CASE m = 0
    BY <2>1 DEF StartIn
  <2>2. CASE m # 0
    <3>1. m \in 1 .. Len(stops) /\ pos = stops[m]
      BY <1>1, <1>2, <2>2 DEF StartIn
    <3>2. QED
      BY <1>1, <3>1, ElementOfSeq
  <2>3. QED
    BY <2>1, <2>2
<1>6. \A k \in 1 .. 2 + n : pos + k \in 1 .. Len(f) \ bad => f[pos + k] = Encode(r)[k]
  BY <1>2 DEF Layout, PREFIX_SIZE
<1>7. /\ Encode(r)[1] = m /\ Encode(r)[2] = n /\ Encode(r)[3] = Crc(BodyOf(r))
      /\ \A k \in 1 .. n - 1 : Encode(r)[3 + k] = BodyOf(r)[k]
  BY <1>3, FrameWords
<1>8. StartIn(stops, m + 2) = stops[m + 1]
  BY <1>2 DEF StartIn
<1> HIDE DEF r, n
<1>9. Len(f) \in Nat
  BY <1>1
<1>10. pos + 1 \notin bad => f[pos + 1] = m
  <2>1. 1 \in 1 .. 2 + n /\ pos + 1 \in 1 .. Len(f)
    BY <1>4, <1>5, <1>9
  <2>2. QED
    BY <1>6, <1>7, <2>1
<1>11. pos + 2 \notin bad /\ pos + 2 <= Len(f) => f[pos + 2] = n
  <2>1. 2 \in 1 .. 2 + n /\ (pos + 2 <= Len(f) => pos + 2 \in 1 .. Len(f))
    BY <1>4, <1>5, <1>9
  <2>2. QED
    BY <1>6, <1>7, <2>1
<1>12. pos + 3 \notin bad /\ pos + 3 <= Len(f) => f[pos + 3] = Crc(BodyOf(r))
  <2>1. 3 \in 1 .. 2 + n /\ (pos + 3 <= Len(f) => pos + 3 \in 1 .. Len(f))
    BY <1>4, <1>5, <1>9
  <2>2. QED
    BY <1>6, <1>7, <2>1
<1>13. ASSUME NEW k \in 1 .. n - 1, pos + 3 + k \notin bad, pos + 3 + k <= Len(f)
       PROVE  f[pos + 3 + k] = BodyOf(r)[k]
  <2>1. 3 + k \in 1 .. 2 + n /\ pos + (3 + k) = pos + 3 + k /\ pos + 3 + k \in 1 .. Len(f)
    BY <1>4, <1>5, <1>9, <1>13
  <2>2. f[pos + (3 + k)] = Encode(r)[3 + k]
    BY <1>6, <1>13, <2>1
  <2>3. QED
    BY <1>7, <2>1, <2>2
<1>14. n \in 4 .. MAX_SIZE
  BY <1>3, <1>4, SizesAssumption
<1>15. Standing(f, bad, pos, r)
  BY <1>3, <1>10, <1>11, <1>12, <1>13 DEF Standing, n
<1>16. QED
  BY <1>2, <1>3, <1>8, <1>14, <1>15 DEF r, n

\* A frame that decodes and carries the next offset is the one that was written
\* there: damage of a single word never gets through the length checks, the
\* checksum and the continuity of the offsets.
THEOREM DamageDetected ==
    ASSUME NEW f, NEW ws, NEW stops, NEW bad, Layout(f, ws, stops, bad), CrcWord, CrcDetects,
           NEW m \in Nat, m <= Len(ws), NEW pos, pos = StartIn(stops, m + 1),
           pos \in Nat, Decodes(f, pos), Decoded(f, pos).offset = m
    PROVE  /\ m + 1 \in 1 .. Len(ws) /\ Decoded(f, pos) = ws[m + 1]
           /\ FrameEnd(f, pos) = StartIn(stops, m + 2) /\ FrameEnd(f, pos) <= Len(f)
           /\ \A k \in 1 .. PREFIX_SIZE + SizeOf(ws[m + 1]) : f[pos + k] = Encode(ws[m + 1])[k]
<1> DEFINE r == ws[m + 1]
           n == SizeOf(r)
           B == BodyOf(r)
           C == SubSeq(f, pos + 4, FrameEnd(f, pos))
<1>1. f \in Seq(Nat) /\ Len(f) \in Nat
  BY DEF Layout
<1>2. /\ Len(f) >= pos + 2 /\ SizeAt(f, pos) \in Nat /\ SizeAt(f, pos) >= 4
      /\ FrameEnd(f, pos) = pos + 2 + SizeAt(f, pos) /\ FrameEnd(f, pos) <= Len(f)
  <2>1. /\ SizeAt(f, pos) \in 4 .. MAX_SIZE /\ Len(f) >= pos + 2
        /\ SizeAt(f, pos) <= MAX_SIZE => Len(f) >= pos + 2 + SizeAt(f, pos)
    BY <1>1 DEF Decodes, Torn, FrameEnd, PREFIX_SIZE
  <2>2. QED
    BY <1>1, <2>1, SizesAssumption DEF FrameEnd, PREFIX_SIZE
<1>3. pos < Len(f)
  BY <1>1, <1>2, SMTT(20)
<1>4. /\ m + 1 \in 1 .. Len(ws) /\ r \in Records /\ r.offset = m /\ n \in 4 .. MAX_SIZE
      /\ Standing(f, bad, pos, r)
  BY <1>3, NextFrame
<1>5. stops[m + 1] = pos + 2 + n /\ StartIn(stops, m + 2) = stops[m + 1]
  BY <1>3, NextFrame
<1>6. \A d, e \in bad : d = e
  BY DEF Layout
<1>7. f[pos + 1] = m
  BY DEF Decoded
<1>8. /\ B \in Seq(Nat) /\ Len(B) = n - 1
      /\ B[2] = Unsigned(Length(r.key)) /\ B[3] = Unsigned(Length(r.value))
      /\ r.key \in Keys /\ r.value \in Keys
      /\ Len(Bytes(r.key)) <= MAX_SIZE /\ Len(Bytes(r.value)) <= MAX_SIZE
  <2>1. r \in Records /\ n = 4 + Len(Bytes(r.key)) + Len(Bytes(r.value)) /\ n \in 4 .. MAX_SIZE
    BY <1>4 DEF SizeOf
  <2>2. r.key \in Keys /\ r.value \in Keys
    BY <2>1 DEF Records
  <2>3. Len(Bytes(r.key)) \in Nat /\ Len(Bytes(r.value)) \in Nat
    BY <2>2, FieldType
  <2>4. /\ B \in Seq(Nat) /\ Len(B) = 3 + Len(Bytes(r.key)) + Len(Bytes(r.value))
        /\ B[2] = Unsigned(Length(r.key)) /\ B[3] = Unsigned(Length(r.value))
    BY <2>1, BodyWords
  <2>5. Len(Bytes(r.key)) <= MAX_SIZE /\ Len(Bytes(r.value)) <= MAX_SIZE /\ Len(B) = n - 1
    <3>1. n = 4 + Len(Bytes(r.key)) + Len(Bytes(r.value)) /\ n <= MAX_SIZE /\ MAX_SIZE \in Nat
      BY <2>1, SizesAssumption
    <3>2. Len(B) = 3 + Len(Bytes(r.key)) + Len(Bytes(r.value))
      BY <2>4
    <3> HIDE DEF r, n, B
    <3>3. QED
      BY <2>3, <3>1, <3>2
  <2>6. QED
    BY <2>2, <2>4, <2>5
<1>9. /\ pos + 2 \notin bad => f[pos + 2] = n
      /\ pos + 3 \notin bad /\ pos + 3 <= Len(f) => f[pos + 3] = Crc(B)
      /\ \A k \in 1 .. n - 1 :
           pos + 3 + k \notin bad /\ pos + 3 + k <= Len(f) => f[pos + 3 + k] = B[k]
  BY <1>1, <1>2, <1>4 DEF Standing
<1>10. n \in Nat /\ n >= 4
  BY <1>4, SizesAssumption
<1> HIDE DEF r, n, B, C
<1>11. SizeAt(f, pos) = n
  <2>1. CASE pos + 2 \notin bad
    BY <1>9, <2>1 DEF SizeAt
  <2>2. CASE pos + 2 \in bad
    <3>1. pos + 5 \notin bad /\ pos + 6 \notin bad
      BY <1>6, <2>2
    <3>2. pos + 3 + 2 = pos + 5 /\ pos + 3 + 3 = pos + 6 /\ 2 \in 1 .. n - 1 /\ 3 \in 1 .. n - 1
          /\ pos + 5 <= Len(f) /\ pos + 6 <= Len(f)
      <4>1. /\ Len(f) \in Nat /\ SizeAt(f, pos) \in Nat /\ SizeAt(f, pos) >= 4
            /\ pos + 2 + SizeAt(f, pos) <= Len(f)
        BY <1>1, <1>2
      <4>2. QED
        BY <1>10, <4>1
    <3>3. f[pos + 5] = Unsigned(Length(r.key)) /\ f[pos + 6] = Unsigned(Length(r.value))
      BY <1>8, <1>9, <3>1, <3>2
    <3>5. KlenAt(f, pos) = Length(r.key) /\ VlenAt(f, pos) = Length(r.value)
      BY <1>8, <3>3, LengthRead DEF KlenAt, VlenAt
    <3>6. SizeAt(f, pos) = 4 + Present(KlenAt(f, pos)) + Present(VlenAt(f, pos))
      BY DEF Decodes, Sound
    <3>7. QED
      BY <1>8, <3>5, <3>6, FieldType DEF SizeOf, n
  <2>3. QED
    BY <2>1, <2>2
<1>12. pos + 2 + n <= Len(f) /\ FrameEnd(f, pos) = pos + 2 + n
  BY <1>2, <1>11
<1>13. Crc(C) = f[pos + 3]
  BY DEF Decodes, Sound, C
<1>14. /\ C \in Seq(Nat) /\ Len(C) = n - 1
       /\ \A k \in 1 .. n - 1 : C[k] = f[pos + 3 + k]
  <2> DEFINE p == pos + 3
             q == pos + 2 + n
  <2>1. p \in Nat /\ q \in Nat /\ p <= q /\ q - p = n - 1 /\ p + 1 = pos + 4
    BY <1>10
  <2>2. f \in Seq(Nat) /\ q <= Len(f)
    BY <1>1, <1>12
  <2> HIDE DEF p, q
  <2>3. /\ SubSeq(f, p + 1, q) \in Seq(Nat) /\ Len(SubSeq(f, p + 1, q)) = q - p
        /\ \A k \in 1 .. q - p : SubSeq(f, p + 1, q)[k] = f[p + k]
    BY <2>1, <2>2, PartWords, SMTT(30)
  <2>4. C = SubSeq(f, p + 1, q)
    BY <1>12, <2>1 DEF C, q
  <2>5. QED
    BY <2>1, <2>3, <2>4 DEF p
<1>15. \A k \in 1 .. n - 1 : pos + 3 + k <= Len(f) /\ pos + 3 <= Len(f)
  <2>1. pos \in Nat /\ Len(f) \in Nat /\ n \in Nat /\ pos + 2 + n <= Len(f)
    BY <1>1, <1>10, <1>12
  <2>2. QED
    BY <2>1
<1>16. C = B /\ f[pos + 3] = Crc(B)
  <2>1. CASE \E i \in 1 .. n - 1 : pos + 3 + i \in bad
    <3>1. PICK i \in 1 .. n - 1 : pos + 3 + i \in bad
      BY <2>1
    <3>2. pos + 3 \notin bad /\ pos + 3 <= Len(f)
      <4>1. pos + 3 # pos + 3 + i
        BY <3>1
      <4>2. QED
        BY <1>6, <1>15, <3>1, <4>1
    <3>3. f[pos + 3] = Crc(B)
      BY <1>9, <3>2
    <3>4. ASSUME NEW j \in 1 .. n - 1, j # i PROVE C[j] = B[j]
      <4>1. pos + 3 + j # pos + 3 + i
        BY <3>4
      <4>2. pos + 3 + j \notin bad
        BY <1>6, <3>1, <4>1
      <4>3. QED
        BY <1>9, <1>14, <1>15, <4>2
    <3>5. Len(C) = Len(B) /\ i \in 1 .. Len(C) /\ Crc(C) = Crc(B)
          /\ \A j \in 1 .. Len(C) : j # i => C[j] = B[j]
      BY <1>8, <1>13, <1>14, <3>1, <3>3, <3>4
    <3>6. QED
      BY <1>8, <1>14, <3>3, <3>5 DEF CrcDetects
  <2>2. CASE ~ \E i \in 1 .. n - 1 : pos + 3 + i \in bad
    <3>1. \A k \in 1 .. n - 1 : C[k] = B[k]
      BY <1>9, <1>14, <1>15, <2>2
    <3>2. Len(C) = Len(B)
      BY <1>8, <1>14
    <3>3. C = B
      BY <1>8, <1>14, <3>1, <3>2, SeqEqual
    <3>4. QED
      BY <1>13, <3>3
  <2>3. QED
    BY <2>1, <2>2
<1>17. \A k \in 1 .. n - 1 : f[pos + 3 + k] = B[k]
  BY <1>14, <1>16
<1>18. FrameAt(f, pos, r)
  BY <1>1, <1>2, <1>4, <1>7, <1>11, <1>12, <1>16, <1>17 DEF FrameAt, PREFIX_SIZE, SizeAt, n, B
<1>19. Decoded(f, pos) = r
  BY <1>4, <1>18, ReadBack DEF n
<1>20. \A k \in 1 .. 2 + n : f[pos + k] = Encode(r)[k]
  <2>1. Encode(r)[1] = m /\ Encode(r)[2] = n /\ Encode(r)[3] = Crc(B)
        /\ \A k \in 1 .. n - 1 : Encode(r)[3 + k] = B[k]
    BY <1>4, FrameWords DEF n, B
  <2>2. f[pos + 1] = m /\ f[pos + 2] = n /\ f[pos + 3] = Crc(B)
    BY <1>7, <1>11, <1>16 DEF SizeAt
  <2>3. ASSUME NEW k \in 1 .. 2 + n, k > 3 PROVE f[pos + k] = Encode(r)[k]
    <3>1. k - 3 \in 1 .. n - 1 /\ pos + 3 + (k - 3) = pos + k /\ 3 + (k - 3) = k
      BY <1>10, <2>3
    <3>2. QED
      BY <1>17, <2>1, <3>1
  <2>4. \A k \in 1 .. 2 + n : k = 1 \/ k = 2 \/ k = 3 \/ k > 3
    BY <1>10
  <2>5. QED
    BY <2>1, <2>2, <2>3, <2>4
<1>21. QED
  BY <1>2, <1>4, <1>5, <1>12, <1>19, <1>20 DEF r, n, PREFIX_SIZE

\* What the scan stops at: in a file without damage only the end of it, and
\* before a frame that is whole only a damaged size field.
LEMMA UndamagedRead ==
    ASSUME NEW f, NEW ws, NEW stops, Layout(f, ws, stops, {}), CrcWord,
           NEW m \in Nat, m <= Len(ws), NEW pos, pos = StartIn(stops, m + 1),
           pos \in Nat, ~ Torn(f, pos)
    PROVE  Decodes(f, pos) /\ Decoded(f, pos).offset = m
<1> DEFINE r == ws[m + 1]
           n == SizeOf(r)
           B == BodyOf(r)
           none == {}
<1>1. f \in Seq(Nat) /\ Len(f) \in Nat /\ Len(f) >= pos + 2
  BY DEF Layout, Torn, PREFIX_SIZE
<1>2. pos < Len(f) /\ Layout(f, ws, stops, none)
  BY <1>1
<1> HIDE DEF none
<1>3. /\ m + 1 \in 1 .. Len(ws) /\ r \in Records /\ r.offset = m
      /\ n \in 4 .. MAX_SIZE /\ Standing(f, none, pos, r)
  BY <1>2, NextFrame
<1>4. /\ n \in Nat /\ n >= 4 /\ f[pos + 1] = m /\ f[pos + 2] = n
      /\ pos + 3 <= Len(f) => f[pos + 3] = Crc(B)
      /\ \A k \in 1 .. n - 1 : pos + 3 + k <= Len(f) => f[pos + 3 + k] = B[k]
  BY <1>1, <1>3, SizesAssumption DEF Standing, none
<1>5. SizeAt(f, pos) = n
  BY <1>1, <1>4 DEF SizeAt
<1>6. pos + 2 + n <= Len(f)
  BY <1>1, <1>3, <1>5, SizesAssumption DEF Torn, FrameEnd, PREFIX_SIZE
<1> HIDE DEF n, B, r
<1>7. \A k \in 1 .. n - 1 : f[pos + 3 + k] = B[k]
  <2>1. \A k \in 1 .. n - 1 : pos + 3 + k <= Len(f)
    BY <1>1, <1>4, <1>6
  <2>2. QED
    BY <1>4, <2>1
<1>8. pos + 3 <= Len(f)
  BY <1>1, <1>4, <1>6
<1>9. FrameAt(f, pos, r)
  BY <1>1, <1>3, <1>4, <1>6, <1>7, <1>8 DEF FrameAt, PREFIX_SIZE, SizeAt, n, B
<1>10. QED
  BY <1>3, <1>9, ReadBack, SizesAssumption DEF n

LEMMA WholeTorn ==
    ASSUME NEW f, NEW ws, NEW stops, NEW bad, Layout(f, ws, stops, bad), CrcWord,
           NEW m \in Nat, m < Len(ws), NEW pos, pos = StartIn(stops, m + 1),
           pos \in Nat, stops[m + 1] <= Len(f), Torn(f, pos)
    PROVE  pos + PREFIX_SIZE \in bad
<1>1. f \in Seq(Nat) /\ ws \in Seq(Records) /\ Len(f) \in Nat /\ Len(ws) \in Nat
  BY DEF Layout
<1>2. stops[m + 1] = pos + 2 + SizeOf(ws[m + 1]) /\ SizeOf(ws[m + 1]) \in Nat
  <2>1. ws[m + 1] \in Records /\ m + 1 \in 1 .. Len(ws)
    BY <1>1, ElementOfSeq
  <2>2. SizeOf(ws[m + 1]) \in Nat
    BY <2>1, FrameWords
  <2>3. QED
    BY <2>1, <2>2 DEF Layout, PREFIX_SIZE
<1>3. pos < Len(f) /\ pos + 2 <= Len(f)
  BY <1>1, <1>2
<1>4. pos + 2 \notin bad => f[pos + 2] = SizeOf(ws[m + 1])
  BY <1>1, <1>3, NextFrame DEF Standing
<1>5. QED
  BY <1>1, <1>2, <1>3, <1>4 DEF Torn, FrameEnd, SizeAt, PREFIX_SIZE

-----------------------------------------------------------------------------
(* What the steps make of such a file.                                     *)

\* Cut anywhere,
LEMMA LayoutCut ==
    ASSUME NEW f, NEW ws, NEW stops, NEW bad, Layout(f, ws, stops, bad), NEW n \in 0 .. Len(f)
    PROVE  Layout(SubSeq(f, 1, n), ws, stops, bad \cap 1 .. n) /\ Len(SubSeq(f, 1, n)) = n
<1> DEFINE g == SubSeq(f, 1, n)
<1>1. f \in Seq(Nat) /\ Len(f) \in Nat /\ n \in Nat /\ n <= Len(f) /\ 0 \in Nat /\ 0 <= n
      /\ 0 + 1 = 1 /\ n - 0 = n
  BY DEF Layout
<1>2. /\ SubSeq(f, 0 + 1, n) \in Seq(Nat) /\ Len(SubSeq(f, 0 + 1, n)) = n - 0
      /\ \A k \in 1 .. n - 0 : SubSeq(f, 0 + 1, n)[k] = f[0 + k]
  BY <1>1, PartWords
<1>3. g \in Seq(Nat) /\ Len(g) = n /\ \A k \in 1 .. n : g[k] = f[k]
  BY <1>1, <1>2
<1> HIDE DEF g
<1>4. /\ ws \in Seq(Records) /\ stops \in Seq(Nat)
      /\ Len(stops) = Len(ws) /\ Len(f) <= StartIn(stops, Len(ws) + 1)
      /\ \A i \in 1 .. Len(ws) :
          /\ ws[i].offset = i - 1 /\ SizeOf(ws[i]) <= MAX_SIZE
          /\ stops[i] = StartIn(stops, i) + PREFIX_SIZE + SizeOf(ws[i])
      /\ \A i, j \in 1 .. Len(ws) : i <= j => stops[i] <= stops[j]
  BY DEF Layout
<1>5. StartIn(stops, Len(ws) + 1) \in Nat
  BY <1>4, ElementOfSeq DEF StartIn
<1>6. Len(g) <= StartIn(stops, Len(ws) + 1)
  BY <1>1, <1>3, <1>4, <1>5
<1>7. ASSUME NEW i \in 1 .. Len(ws), NEW k \in 1 .. PREFIX_SIZE + SizeOf(ws[i]),
             StartIn(stops, i) + k \in 1 .. Len(g)
      PROVE  StartIn(stops, i) + k \in bad \cap 1 .. n
                <=> g[StartIn(stops, i) + k] # Encode(ws[i])[k]
  <2>1. StartIn(stops, i) + k \in 1 .. Len(f)
    BY <1>1, <1>3, <1>7
  <2>2. StartIn(stops, i) + k \in bad <=> f[StartIn(stops, i) + k] # Encode(ws[i])[k]
    BY <2>1 DEF Layout
  <2>3. QED
    BY <1>3, <1>7, <2>2
<1>8. bad \cap 1 .. n \subseteq 1 .. Len(g) /\ \A d, e \in bad \cap 1 .. n : d = e
  BY <1>3 DEF Layout
<1>9. Layout(g, ws, stops, bad \cap 1 .. n)
  BY <1>3, <1>4, <1>6, <1>7, <1>8 DEF Layout
<1>10. QED
  BY <1>3, <1>9 DEF g

\* with the records dropped of which nothing is left,
LEMMA LayoutTrim ==
    ASSUME NEW f, NEW ws, NEW stops, NEW bad, Layout(f, ws, stops, bad),
           NEW m \in Nat, m <= Len(ws), Len(f) <= StartIn(stops, m + 1)
    PROVE  /\ Layout(f, SubSeq(ws, 1, m), SubSeq(stops, 1, m), bad)
           /\ Len(SubSeq(ws, 1, m)) = m
           /\ \A i \in 1 .. m : SubSeq(ws, 1, m)[i] = ws[i]
           /\ StartIn(SubSeq(stops, 1, m), m + 1) = StartIn(stops, m + 1)
<1> DEFINE v == SubSeq(ws, 1, m)
           t == SubSeq(stops, 1, m)
<1>1. /\ ws \in Seq(Records) /\ stops \in Seq(Nat) /\ Len(stops) = Len(ws) /\ Len(ws) \in Nat
      /\ 0 \in Nat /\ 0 <= m /\ 0 + 1 = 1 /\ m - 0 = m
  BY DEF Layout
<1>2. /\ SubSeq(ws, 0 + 1, m) \in Seq(Records) /\ Len(SubSeq(ws, 0 + 1, m)) = m - 0
      /\ \A k \in 1 .. m - 0 : SubSeq(ws, 0 + 1, m)[k] = ws[0 + k]
  BY <1>1, PartWords
<1>3. /\ SubSeq(stops, 0 + 1, m) \in Seq(Nat) /\ Len(SubSeq(stops, 0 + 1, m)) = m - 0
      /\ \A k \in 1 .. m - 0 : SubSeq(stops, 0 + 1, m)[k] = stops[0 + k]
  BY <1>1, PartWords
<1>4. /\ v \in Seq(Records) /\ Len(v) = m /\ \A k \in 1 .. m : v[k] = ws[k]
      /\ t \in Seq(Nat) /\ Len(t) = m /\ \A k \in 1 .. m : t[k] = stops[k]
  BY <1>1, <1>2, <1>3
<1> HIDE DEF v, t
<1>5. \A i \in 1 .. m + 1 : StartIn(t, i) = StartIn(stops, i)
  <2> SUFFICES ASSUME NEW i \in 1 .. m + 1 PROVE StartIn(t, i) = StartIn(stops, i)
    OBVIOUS
  <2>1. i # 1 => i - 1 \in 1 .. m
    OBVIOUS
  <2>2. QED
    BY <1>4, <2>1 DEF StartIn
<1>6. \A i \in 1 .. m : i \in 1 .. Len(ws) /\ i \in 1 .. m + 1
  BY <1>1
<1>7. /\ \A i \in 1 .. m :
          /\ v[i].offset = i - 1 /\ SizeOf(v[i]) <= MAX_SIZE
          /\ t[i] = StartIn(t, i) + PREFIX_SIZE + SizeOf(v[i])
      /\ \A i, j \in 1 .. m : i <= j => t[i] <= t[j]
  BY <1>4, <1>5, <1>6 DEF Layout
<1>8. ASSUME NEW i \in 1 .. m, NEW k \in 1 .. PREFIX_SIZE + SizeOf(v[i]),
             StartIn(t, i) + k \in 1 .. Len(f)
      PROVE  StartIn(t, i) + k \in bad <=> f[StartIn(t, i) + k] # Encode(v[i])[k]
  <2>1. v[i] = ws[i] /\ StartIn(t, i) = StartIn(stops, i) /\ i \in 1 .. Len(ws)
    BY <1>4, <1>5, <1>6, ZenonT(30)
  <2>2. \A j \in 1 .. PREFIX_SIZE + SizeOf(ws[i]) : StartIn(stops, i) + j \in 1 .. Len(f) =>
            (StartIn(stops, i) + j \in bad <=> f[StartIn(stops, i) + j] # Encode(ws[i])[j])
    BY <2>1 DEF Layout
  <2>3. QED
    BY <1>8, <2>1, <2>2, Zenon
<1>9. Len(f) <= StartIn(t, m + 1)
  BY <1>5
<1>10. Layout(f, v, t, bad)
  <2>1. f \in Seq(Nat) /\ bad \subseteq 1 .. Len(f) /\ \A d, e \in bad : d = e
    BY DEF Layout
  <2>2. QED
    BY <1>4, <1>7, <1>8, <1>9, <2>1 DEF Layout
<1>11. QED
  BY <1>4, <1>5, <1>10 DEF v, t

\* with one more frame at its end,
LEMMA LayoutAppend ==
    ASSUME NEW f, NEW ws, NEW stops, NEW bad, Layout(f, ws, stops, bad), CrcWord,
           NEW r \in Records, r.offset = Len(ws), SizeOf(r) <= MAX_SIZE,
           Len(f) = StartIn(stops, Len(ws) + 1)
    PROVE  LET g == f \o Encode(r) IN
           /\ Layout(g, Append(ws, r), Append(stops, Len(g)), bad)
           /\ StartIn(Append(stops, Len(g)), Len(ws) + 2) = Len(g)
<1> DEFINE g == f \o Encode(r)
           v == Append(ws, r)
           t == Append(stops, Len(g))
           m == Len(ws)
<1>1. /\ f \in Seq(Nat) /\ ws \in Seq(Records) /\ stops \in Seq(Nat) /\ Len(stops) = m
      /\ m \in Nat /\ Len(f) \in Nat
  BY DEF Layout
<1>2. SizeOf(r) \in Nat /\ Encode(r) \in Seq(Nat) /\ Len(Encode(r)) = PREFIX_SIZE + SizeOf(r)
  BY FrameWords
<1>3. /\ g \in Seq(Nat) /\ Len(g) = Len(f) + Len(Encode(r))
      /\ \A i \in 1 .. Len(f) + Len(Encode(r)) :
            g[i] = IF i <= Len(f) THEN f[i] ELSE Encode(r)[i - Len(f)]
  <2>1. f \in Seq(Nat) /\ Encode(r) \in Seq(Nat)
    BY <1>1, <1>2
  <2>2. QED
    BY <2>1, ConcatProperties
<1>4. Len(g) \in Nat /\ Len(g) = Len(f) + PREFIX_SIZE + SizeOf(r) /\ Len(f) <= Len(g)
  BY <1>1, <1>2, <1>3 DEF PREFIX_SIZE
<1> HIDE DEF g
<1>5. /\ v \in Seq(Records) /\ Len(v) = m + 1 /\ \A i \in 1 .. m : v[i] = ws[i]
      /\ v[m + 1] = r
      /\ t \in Seq(Nat) /\ Len(t) = m + 1 /\ \A i \in 1 .. m : t[i] = stops[i]
      /\ t[m + 1] = Len(g)
  BY <1>1, <1>4
<1> HIDE DEF v, t, m
<1>6. \A i \in 1 .. m + 1 : StartIn(t, i) = StartIn(stops, i)
  <2> SUFFICES ASSUME NEW i \in 1 .. m + 1 PROVE StartIn(t, i) = StartIn(stops, i)
    OBVIOUS
  <2>1. i # 1 => i - 1 \in 1 .. m
    BY <1>1
  <2>2. QED
    BY <1>5, <2>1 DEF StartIn
<1>7. StartIn(t, m + 1) = Len(f) /\ StartIn(t, m + 2) = Len(g)
  <2>1. m + 1 \in 1 .. m + 1 /\ m + 2 # 1 /\ m + 2 - 1 = m + 1
    BY <1>1
  <2>2. QED
    BY <1>5, <1>6, <2>1 DEF StartIn, m
<1>8. \A i \in 1 .. m : stops[i] \in Nat /\ stops[i] <= Len(f)
  <2> SUFFICES ASSUME NEW i \in 1 .. m PROVE stops[i] \in Nat /\ stops[i] <= Len(f)
    OBVIOUS
  <2>1. m # 0 /\ m \in 1 .. m /\ i <= m
    BY <1>1
  <2>2. Len(f) = stops[m]
    BY <1>1, <2>1 DEF StartIn, m
  <2>3. stops[i] <= stops[m]
    BY <2>1 DEF Layout, m
  <2>4. QED
    BY <1>1, <2>2, <2>3, ElementOfSeq
<1>9. \A i \in 1 .. m + 1 : i \in 1 .. m \/ i = m + 1
  BY <1>1
<1>10. ASSUME NEW i \in 1 .. m + 1
       PROVE  /\ v[i].offset = i - 1 /\ SizeOf(v[i]) <= MAX_SIZE
              /\ t[i] = StartIn(t, i) + PREFIX_SIZE + SizeOf(v[i])
  <2>1. CASE i \in 1 .. m
    BY <1>5, <1>6, <2>1 DEF Layout, m
  <2>2. CASE i = m + 1
    BY <1>1, <1>4, <1>5, <1>7, <2>2 DEF m
  <2>3. QED
    BY <1>9, <2>1, <2>2
<1>11. ASSUME NEW i \in 1 .. m + 1, NEW j \in 1 .. m + 1, i <= j
       PROVE  t[i] <= t[j]
  <2>1. CASE j \in 1 .. m
    <3>1. i \in 1 .. m
      BY <1>1, <1>11, <2>1
    <3>2. QED
      BY <1>5, <1>11, <2>1, <3>1 DEF Layout, m
  <2>2. CASE j = m + 1 /\ i \in 1 .. m
    <3>1. t[i] = stops[i] /\ stops[i] <= Len(f)
      BY <1>5, <1>8, <2>2
    <3>2. t[j] = Len(g) /\ Len(f) <= Len(g)
      BY <1>1, <1>4, <1>5, <2>2
    <3>3. QED
      BY <1>8, <2>2, <3>1, <3>2
  <2>3. CASE j = m + 1 /\ i = m + 1
    BY <1>4, <1>5, <2>3
  <2>4. QED
    BY <1>9, <2>1, <2>2, <2>3
<1>12. ASSUME NEW i \in 1 .. m + 1, NEW k \in 1 .. PREFIX_SIZE + SizeOf(v[i]),
              StartIn(t, i) + k \in 1 .. Len(g)
       PROVE  StartIn(t, i) + k \in bad <=> g[StartIn(t, i) + k] # Encode(v[i])[k]
  <2>1. CASE i \in 1 .. m
    <3>1. v[i] = ws[i] /\ StartIn(t, i) = StartIn(stops, i) /\ StartIn(t, i) + k <= t[i]
          /\ t[i] = stops[i]
      <4>1. v[i] = ws[i] /\ t[i] = stops[i] /\ StartIn(t, i) = StartIn(stops, i)
        BY <1>5, <1>6, <2>1
      <4>2. SizeOf(v[i]) \in Nat
        BY <1>5, FrameWords, ElementOfSeq
      <4>3. StartIn(t, i) \in Nat
        BY <1>5, <2>1, ElementOfSeq DEF StartIn
      <4>4. QED
        BY <1>10, <4>1, <4>2, <4>3 DEF PREFIX_SIZE
    <3>2. StartIn(t, i) + k <= Len(f)
      BY <1>1, <1>8, <1>12, <2>1, <3>1
    <3>3. StartIn(stops, i) + k \in 1 .. Len(f) /\ g[StartIn(t, i) + k] = f[StartIn(t, i) + k]
      BY <1>1, <1>2, <1>3, <1>12, <3>1, <3>2
    <3>4. QED
      BY <2>1, <3>1, <3>3 DEF Layout, m
  <2>2. CASE i = m + 1
    <3>1. v[i] = r /\ StartIn(t, i) = Len(f) /\ k \in 1 .. PREFIX_SIZE + SizeOf(r)
      BY <1>5, <1>7, <2>2
    <3>2. /\ Len(f) + k \in 1 .. Len(f) + Len(Encode(r)) /\ ~ (Len(f) + k <= Len(f))
          /\ Len(f) + k - Len(f) = k
      <4>1. k \in 1 .. Len(Encode(r)) /\ Len(Encode(r)) \in Nat
        BY <1>2, <3>1 DEF PREFIX_SIZE
      <4>2. QED
        BY <1>1, <4>1, Beyond
    <3>3. \A d \in bad : d <= Len(f)
      BY DEF Layout
    <3>4. Len(f) + k \notin bad
      BY <3>2, <3>3, SMTT(30)
    <3>5. QED
      BY <1>3, <3>1, <3>2, <3>4, SMTT(30)
  <2>3. QED
    BY <1>9, <2>1, <2>2
<1>13. bad \subseteq 1 .. Len(g) /\ \A d, e \in bad : d = e
  BY <1>1, <1>4 DEF Layout
<1>14. Len(g) <= StartIn(t, Len(v) + 1)
  <2>1. Len(v) + 1 = m + 2
    BY <1>1, <1>5
  <2>2. QED
    BY <1>4, <1>7, <2>1
<1>15. Layout(g, v, t, bad)
  BY <1>3, <1>5, <1>10, <1>11, <1>12, <1>13, <1>14 DEF Layout
<1>16. QED
  BY <1>7, <1>15 DEF g, v, t, m

\* or with a first word damaged.
LEMMA LayoutDamage ==
    ASSUME NEW f, NEW ws, NEW stops, Layout(f, ws, stops, {}),
           NEW i \in 1 .. Len(f), NEW w \in Nat, w # f[i]
    PROVE  Layout([f EXCEPT ![i] = w], ws, stops, {i}) /\ Len([f EXCEPT ![i] = w]) = Len(f)
<1> DEFINE g == [f EXCEPT ![i] = w]
<1>1. f \in Seq(Nat)
  BY DEF Layout
<1>2. /\ g \in Seq(Nat) /\ Len(g) = Len(f)
      /\ g[i] # f[i] /\ \A j \in 1 .. Len(f) : j # i => g[j] = f[j]
  BY <1>1
<1> HIDE DEF g
<1>3. QED
  BY <1>2 DEF Layout, g

-----------------------------------------------------------------------------
(* Every step keeps the invariant.                                         *)

\* What is assumed of the checksum and of the number of damaged words.
Assumed == CrcWord /\ CrcDetects /\ MaxDamage <= 1

LEMMA FrameInit == Init => IInv
<1> SUFFICES ASSUME Init PROVE IInv
  OBVIOUS
<1>1. Layout(<<>>, <<>>, <<>>, {})
  BY DEF Layout, StartIn
<1>2. QED
  BY <1>1 DEF Init, IInv

LEMMA KeepAppend == ASSUME Assumed, IInv, AppendRecord PROVE IInv'
<1>1. PICK time \in Timestamps, key \in Keys, value \in Keys :
        LET r == [offset |-> Len(found), timestamp |-> time, key |-> key, value |-> value] IN
        /\ SizeOf(r) <= MAX_SIZE
        /\ file' = file \o Encode(r) /\ at' = Len(file')
        /\ found' = Append(found, r) /\ written' = Append(written, r)
        /\ ends' = Append(ends, at')
  BY DEF AppendRecord
<1> DEFINE r == [offset |-> Len(found), timestamp |-> time, key |-> key, value |-> value]
           n == Len(found)
<1>2. /\ Layout(file, written, ends, damaged) /\ n = Len(written)
      /\ found \in Seq(Records) /\ \A i \in 1 .. n : found[i] = written[i]
      /\ Len(file) = StartIn(ends, n + 1) /\ n \in Nat
  BY DEF IInv, AppendRecord, Scanned
<1>3. r \in Records /\ r.offset = n /\ SizeOf(r) <= MAX_SIZE
  BY <1>1, <1>2 DEF Records
<1>4. /\ file' = file \o Encode(r) /\ at' = Len(file')
      /\ found' = Append(found, r) /\ written' = Append(written, r)
      /\ ends' = Append(ends, Len(file')) /\ phase' = "open" /\ damaged' = damaged
  BY <1>1 DEF AppendRecord
<1> HIDE DEF r
<1>5. /\ Layout(file', written', ends', damaged')
      /\ StartIn(ends', n + 2) = Len(file')
  BY <1>2, <1>3, <1>4, LayoutAppend DEF Assumed
<1>6. written \in Seq(Records)
  BY <1>2 DEF Layout
<1>7. /\ found' \in Seq(Records) /\ Len(found') = n + 1 /\ Len(written') = n + 1
      /\ \A i \in 1 .. n + 1 : found'[i] = written'[i]
  BY <1>2, <1>3, <1>4, <1>6
<1>8. n + 1 + 1 = n + 2 /\ Len(file') \in Nat
  BY <1>2, <1>5 DEF Layout
<1>9. QED
  BY <1>4, <1>5, <1>7, <1>8 DEF IInv, Scanned

LEMMA KeepCrash == ASSUME IInv, Crash PROVE IInv'
<1>1. PICK n \in 0 .. Len(file) : file' = SubSeq(file, 1, n) /\ damaged' = damaged \cap 1 .. n
  BY DEF Crash
<1>2. Layout(file', written, ends, damaged')
  BY <1>1, LayoutCut DEF IInv
<1>3. QED
  BY <1>2 DEF IInv, Crash

LEMMA KeepDamage == ASSUME Assumed, IInv, Damage PROVE IInv'
<1>1. damaged = {}
  <2>1. damaged \subseteq 1 .. Len(file) /\ Len(file) \in Nat
    BY DEF IInv, Layout
  <2>2. IsFiniteSet(damaged)
    <3>1. IsFiniteSet(1 .. Len(file))
      BY <2>1, FS_Interval
    <3>2. QED
      BY <2>1, <3>1, FS_Subset
  <2>3. Cardinality(damaged) \in Nat /\ Cardinality(damaged) < 1
    BY <2>2, FS_CardinalityType, FrameBounds DEF Damage, Assumed
  <2>4. QED
    BY <2>2, <2>3, FS_EmptySet
<1>2. PICK i \in DOMAIN file, w \in Garbage :
        w # file[i] /\ file' = [file EXCEPT ![i] = w] /\ damaged' = {i}
  BY <1>1 DEF Damage
<1>3. i \in 1 .. Len(file) /\ w \in Nat
  BY <1>2, WordsAssumption DEF IInv, Layout
<1>4. Layout(file', written, ends, damaged') /\ Len(file') = Len(file)
  BY <1>1, <1>2, <1>3, LayoutDamage DEF IInv
<1>5. QED
  BY <1>4 DEF IInv, Damage, Scanned

LEMMA KeepOpen == ASSUME IInv, Open PROVE IInv'
<1>1. Len(file) \in Nat /\ Len(written) \in Nat
  BY DEF IInv, Layout
<1>2. Scanned'
  BY <1>1 DEF Open, Scanned, StartIn
<1>3. QED
  BY <1>2 DEF Open, IInv

\* What a scan knows of where it is.
LEMMA ScanPlace ==
    ASSUME IInv, phase = "scanning"
    PROVE  /\ Layout(file, written, ends, damaged) /\ Len(found) \in Nat /\ Len(found) <= Len(written)
           /\ at = StartIn(ends, Len(found) + 1) /\ at \in Nat /\ at <= Len(file)
<1>1. /\ Layout(file, written, ends, damaged) /\ Scanned
      /\ ends \in Seq(Nat) /\ Len(ends) = Len(written) /\ Len(found) \in Nat
  BY DEF IInv, Layout, Scanned
<1>2. at \in Nat
  <2>1. Len(found) # 0 => Len(found) \in 1 .. Len(ends)
    BY <1>1 DEF Scanned
  <2>2. QED
    BY <1>1, <2>1, ElementOfSeq DEF Scanned, StartIn
<1>3. QED
  BY <1>1, <1>2 DEF Scanned

LEMMA KeepScan == ASSUME Assumed, IInv, Scan PROVE IInv'
<1> DEFINE m == Len(found)
           r == written[m + 1]
<1>1. /\ Layout(file, written, ends, damaged) /\ m \in Nat /\ m <= Len(written)
      /\ at = StartIn(ends, m + 1) /\ at \in Nat /\ at <= Len(file)
  BY ScanPlace DEF Scan
<1>2. /\ m + 1 \in 1 .. Len(written) /\ Decoded(file, at) = r
      /\ FrameEnd(file, at) = StartIn(ends, m + 2) /\ FrameEnd(file, at) <= Len(file)
      /\ \A k \in 1 .. PREFIX_SIZE + SizeOf(r) : file[at + k] = Encode(r)[k]
  BY <1>1, DamageDetected DEF Scan, Assumed
<1>3. r \in Records /\ SizeOf(r) \in Nat /\ ends[m + 1] = at + PREFIX_SIZE + SizeOf(r)
  <2>1. r \in Records
    BY <1>1, <1>2, ElementOfSeq DEF Layout
  <2>2. QED
    BY <1>1, <1>2, <2>1, FrameWords DEF Layout, Assumed
<1>4. StartIn(ends, m + 2) = ends[m + 1]
  BY <1>1 DEF StartIn
<1>5. found \in Seq(Records) /\ \A i \in 1 .. m : found[i] = written[i]
  BY DEF IInv, Scan, Scanned
<1>6. /\ found' = Append(found, r) /\ at' = FrameEnd(file, at) /\ phase' = "scanning"
      /\ UNCHANGED <<file, written, ends, damaged>>
  BY <1>2 DEF Scan
<1> HIDE DEF r, m
<1>7. /\ found' \in Seq(Records) /\ Len(found') = m + 1
      /\ \A i \in 1 .. m + 1 : found'[i] = written[i]
  BY <1>1, <1>3, <1>5, <1>6 DEF r, m
<1>8. damaged \cap 1 .. at' = {}
  <2> SUFFICES ASSUME NEW d \in damaged, d \in 1 .. at' PROVE FALSE
    OBVIOUS
  <2>1. d \notin 1 .. at
    BY DEF IInv, Scan, Scanned
  <2>2. at' = at + (PREFIX_SIZE + SizeOf(r)) /\ Len(file) \in Nat
    <3>1. at' = at + PREFIX_SIZE + SizeOf(r)
      BY <1>2, <1>3, <1>4, <1>6
    <3>2. at + PREFIX_SIZE + SizeOf(r) = at + (PREFIX_SIZE + SizeOf(r))
      BY <1>1, <1>3 DEF PREFIX_SIZE
    <3>3. Len(file) \in Nat
      BY <1>1 DEF Layout
    <3>4. QED
      BY <3>1, <3>2, <3>3
  <2>3. /\ d - at \in 1 .. PREFIX_SIZE + SizeOf(r) /\ at + (d - at) = d
        /\ d \in 1 .. Len(file)
    <3>1. d \in 1 .. at' /\ at \in Nat /\ at' <= Len(file) /\ SizeOf(r) \in Nat
      BY <1>1, <1>2, <1>3, <1>6
    <3>2. QED
      BY <2>1, <2>2, <3>1 DEF PREFIX_SIZE
  <2>4. d \in damaged <=> file[at + (d - at)] # Encode(r)[d - at]
    BY <1>1, <1>2, <2>3 DEF Layout, r
  <2>5. QED
    BY <1>2, <2>3, <2>4
<1>9. m + 1 + 1 = m + 2 /\ m + 1 <= Len(written)
  BY <1>1, <1>2
<1>10. Scanned'
  BY <1>2, <1>6, <1>7, <1>8, <1>9 DEF Scanned
<1>11. QED
  BY <1>1, <1>6, <1>10 DEF IInv

LEMMA KeepFinish == ASSUME IInv, Finish PROVE IInv' /\ damaged' = {}
<1> DEFINE m == Len(found)
<1>1. /\ Layout(file, written, ends, damaged) /\ m \in Nat /\ m <= Len(written)
      /\ at = StartIn(ends, m + 1) /\ at \in 0 .. Len(file)
  BY ScanPlace DEF Finish
<1>2. /\ file' = SubSeq(file, 1, at) /\ damaged' = damaged \cap 1 .. at /\ phase' = "open"
      /\ written' = SubSeq(written, 1, m) /\ ends' = SubSeq(ends, 1, m)
      /\ UNCHANGED <<at, found>>
  BY DEF Finish
<1>3. Layout(file', written, ends, damaged') /\ Len(file') = at
  BY <1>1, <1>2, LayoutCut
<1>4. /\ Layout(file', written', ends', damaged') /\ Len(written') = m
      /\ \A i \in 1 .. m : written'[i] = written[i]
      /\ StartIn(ends', m + 1) = at
  <2>1. Len(file') <= StartIn(ends, m + 1)
    BY <1>1, <1>3
  <2>2. /\ Layout(file', SubSeq(written, 1, m), SubSeq(ends, 1, m), damaged')
        /\ Len(SubSeq(written, 1, m)) = m
        /\ \A i \in 1 .. m : SubSeq(written, 1, m)[i] = written[i]
        /\ StartIn(SubSeq(ends, 1, m), m + 1) = StartIn(ends, m + 1)
    BY <1>1, <1>3, <2>1, LayoutTrim
  <2>3. QED
    BY <1>1, <1>2, <2>2
<1>5. found \in Seq(Records) /\ \A i \in 1 .. m : found[i] = written[i]
  BY DEF IInv, Finish, Scanned
<1>6. damaged' = {}
  BY <1>2 DEF IInv, Finish, Scanned
<1>7. Scanned'
  BY <1>1, <1>2, <1>3, <1>4, <1>5 DEF Scanned
<1>8. QED
  BY <1>2, <1>3, <1>4, <1>6, <1>7 DEF IInv

LEMMA KeepRefuse == ASSUME IInv, Refuse PROVE IInv'
BY DEF IInv, Refuse

LEMMA FrameNext == Assumed /\ IInv /\ [Next]_vars => IInv'
<1> SUFFICES ASSUME Assumed, IInv, [Next]_vars PROVE IInv'
  OBVIOUS
<1>1. CASE UNCHANGED vars
  BY <1>1 DEF vars, IInv, Scanned
<1>2. QED
  BY <1>1, KeepAppend, KeepCrash, KeepDamage, KeepOpen, KeepScan, KeepFinish, KeepRefuse DEF Next

\* IInv holds as records are appended, the file is cut or damaged, and scanned
\* (Segment.append, Segment._recover).
THEOREM FrameInvariant == Assumed => (Spec => []IInv)
<1> SUFFICES ASSUME Assumed PROVE Spec => []IInv
  OBVIOUS
<1>1. IInv /\ [Next]_vars => IInv'
  BY FrameNext
<1>2. QED
  BY <1>1, FrameInit, PTL DEF Spec

-----------------------------------------------------------------------------
(* The properties, for any number of records of any contents within the    *)
(* limit, with at most one damaged word in the file at a time.             *)

\* No scan finds a record that was not appended, or changes one (_recover).
THEOREM FoundIsWritten == Assumed => (Spec => []Genuine)
<1>1. IInv => Genuine
  BY DEF IInv, Scanned, Layout, Genuine
<1>2. QED
  BY <1>1, FrameInvariant, PTL

\* No segment is opened over a damaged word (_recover, decode).
THEOREM DamageNotKept == Assumed => (Spec => NoDamageKept)
<1> SUFFICES ASSUME Assumed PROVE Spec => NoDamageKept
  OBVIOUS
<1>1. ASSUME IInv, [Next]_vars, Opens PROVE damaged' = {}
  <2>1. Finish
    BY <1>1 DEF Opens, Next, AppendRecord, Crash, Damage, Open, Scan, Refuse, vars
  <2>2. QED
    BY <1>1, <2>1, KeepFinish
<1>2. QED
  BY <1>1, FrameInvariant, PTL DEF Spec, NoDamageKept

\* No undamaged file is refused, and no record dropped that is whole, unless
\* by a damaged size field (read_one).
THEOREM UndamagedOpens == Assumed => (Spec => OnlyDamageHurts)
<1> SUFFICES ASSUME Assumed PROVE Spec => OnlyDamageHurts
  OBVIOUS
<1>1. ASSUME IInv, [Next]_vars, phase = "scanning", phase' = "refused" PROVE damaged # {}
  <2>1. Refuse
    BY <1>1 DEF Next, AppendRecord, Crash, Damage, Open, Scan, Finish, vars
  <2>2. /\ Layout(file, written, ends, damaged) /\ Len(found) \in Nat /\ Len(found) <= Len(written)
        /\ at = StartIn(ends, Len(found) + 1) /\ at \in Nat
    BY <1>1, ScanPlace
  <2>3. SUFFICES ASSUME damaged = {} PROVE FALSE
    OBVIOUS
  <2>4. Layout(file, written, ends, {}) /\ ~ Torn(file, at)
    BY <2>1, <2>2, <2>3 DEF Refuse
  <2>5. Decodes(file, at) /\ Decoded(file, at).offset = Len(found)
    BY <2>2, <2>4, UndamagedRead DEF Assumed
  <2>6. QED
    BY <2>1, <2>5 DEF Refuse
<1>2. ASSUME IInv, [Next]_vars, Opens, NEW i \in DOMAIN written,
             ends[i] <= Len(file), i > Len(found)
      PROVE  \E j \in 1 .. i : SizeDamaged(j)
  <2> DEFINE m == Len(found)
  <2>1. Torn(file, at)
    BY <1>2 DEF Opens, Next, AppendRecord, Crash, Damage, Open, Scan, Finish, Refuse, vars
  <2>2. /\ Layout(file, written, ends, damaged) /\ m \in Nat /\ m <= Len(written)
        /\ at = StartIn(ends, m + 1) /\ at \in Nat
    BY <1>2, ScanPlace DEF Opens
  <2>3. /\ i \in 1 .. Len(written) /\ m + 1 \in 1 .. Len(written) /\ m + 1 \in 1 .. i
        /\ m < Len(written)
    BY <1>2, <2>2 DEF Layout
  <2>4. ends[m + 1] <= ends[i] /\ ends[m + 1] \in Nat /\ ends[i] \in Nat /\ Len(file) \in Nat
    <3>1. /\ ends \in Seq(Nat) /\ Len(ends) = Len(written) /\ Len(file) \in Nat
          /\ \A j, k \in 1 .. Len(written) : j <= k => ends[j] <= ends[k]
      BY <2>2 DEF Layout
    <3>2. QED
      BY <2>3, <3>1, ElementOfSeq
  <2>5. ends[m + 1] <= Len(file)
    BY <1>2, <2>4
  <2>6. SizeDamaged(m + 1)
    BY <2>1, <2>2, <2>3, <2>5, WholeTorn DEF SizeDamaged, Assumed
  <2>7. QED
    BY <2>3, <2>6
<1>3. ASSUME IInv, [Next]_vars
      PROVE  /\ phase = "scanning" /\ phase' = "refused" => damaged # {}
             /\ Opens => \A i \in DOMAIN written :
                   ends[i] <= Len(file) /\ i > Len(found) => \E j \in 1 .. i : SizeDamaged(j)
  BY <1>1, <1>2, <1>3
<1>4. QED
  BY <1>3, FrameInvariant, PTL DEF Spec, OnlyDamageHurts
=============================================================================
