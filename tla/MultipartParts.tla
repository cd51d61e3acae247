---------------------------- MODULE MultipartParts ----------------------------
(***************************************************************************)
(* How createDraft splits an upload into parts: the sizes it accepts, how  *)
(* many presigned URLs it hands out, and what is left for each of them.    *)
(* Sizes stay far below 2^53, where the code's division of doubles and     *)
(* Math.ceil are exact.                                                    *)
(***************************************************************************)
EXTENDS Integers, TLAPS

MAX_UPLOAD_BYTES == 10 * 1024 * 1024 * 1024
DefaultPartSize == 100 * 1024 * 1024

\* The part numbers S3 knows.
MaxParts == 10000

\* The smallest part size with which the largest upload stays within them.
MinPartSize == 1073742

\* size_bytes of CreateVideoDto: IsInt, IsPositive, Max.
SizeBytes == {n \in Int : n > 0 /\ n <= MAX_UPLOAD_BYTES}

AtLeast(n, m) == IF n < m THEN m ELSE n
Ceiling(n, d) == (n + d - 1) \div d

PartCount(size, part) == AtLeast(Ceiling(size, part), 1)
PartNumbers(size, part) == 1 .. PartCount(size, part)

\* What a client that fills one part after the other puts to the n-th URL.
PartBytes(size, part, n) ==
    LET left == size - (n - 1) * part IN IF left < part THEN left ELSE part

-----------------------------------------------------------------------------

\* Division rounds down.
LEMMA Division ==
    ASSUME NEW n \in Nat, NEW d \in Nat \ {0}
    PROVE  n \div d \in Nat /\ (n \div d) * d <= n /\ n < (n \div d) * d + d
  OBVIOUS

\* The rounding up of the code's Math.ceil.
LEMMA RoundsUp ==
    ASSUME NEW n \in Nat \ {0}, NEW d \in Nat \ {0}
    PROVE  /\ Ceiling(n, d) \in Nat \ {0}
           /\ n <= Ceiling(n, d) * d
           /\ (Ceiling(n, d) - 1) * d < n
  <1> DEFINE q == (n + d - 1) \div d
  <1>1. q \in Nat /\ q * d <= n + d - 1 /\ n + d - 1 < q * d + d
    BY Division
  <1> HIDE DEF q
  <1>2. n <= q * d BY <1>1
  <1>3. q # 0 BY <1>2
  <1>4. (q - 1) * d < n BY <1>1
  <1> QED BY <1>1, <1>2, <1>3, <1>4 DEF Ceiling, q

\* The presigned URLs take the whole file, and with one fewer they would not:
\* partCount is the least number of parts that are large enough.
THEOREM PartsCoverTheFile ==
    ASSUME NEW size \in SizeBytes, NEW part \in Nat \ {0}
    PROVE  /\ PartCount(size, part) \in Nat \ {0}
           /\ size <= PartCount(size, part) * part
           /\ \A n \in Nat : size <= n * part => PartCount(size, part) <= n
  <1> DEFINE c == Ceiling(size, part)
  <1>1. size \in Nat \ {0} BY SMT DEF SizeBytes, MAX_UPLOAD_BYTES
  <1>2. c \in Nat \ {0} /\ size <= c * part /\ (c - 1) * part < size
    BY <1>1, RoundsUp
  <1>3. PartCount(size, part) = c
    BY <1>2 DEF PartCount, AtLeast
  <1> HIDE DEF c
  <1>4. ASSUME NEW n \in Nat, size <= n * part
        PROVE  c <= n
    <2>1. SUFFICES ASSUME n <= c - 1 PROVE FALSE
      BY <1>2
    <2>2. n * part <= (c - 1) * part
      <3> DEFINE d == c - 1 - n
      <3>1. d \in Nat BY <1>2, <2>1
      <3>2. c - 1 = n + d BY <1>2, <2>1
      <3> HIDE DEF d
      <3>3. d * part \in Nat BY <3>1
      <3>4. (n + d) * part = n * part + d * part BY <3>1
      <3>5. n * part <= (n + d) * part BY <3>3, <3>4
      <3> QED BY <3>2, <3>5
    <2> QED BY <1>1, <1>2, <1>4, <2>2
  <1> QED BY <1>2, <1>3, <1>4

\* A client that fills its parts has bytes for every URL, no part larger than
\* the part size, and every part but the last of exactly that size (which S3
\* asks for): no URL is left over, whatever the size.
THEOREM EveryPartHasBytes ==
    ASSUME NEW size \in SizeBytes, NEW part \in Nat \ {0},
           NEW n \in PartNumbers(size, part)
    PROVE  /\ PartBytes(size, part, n) \in 1 .. part
           /\ n < PartCount(size, part) => PartBytes(size, part, n) = part
  <1> DEFINE c == Ceiling(size, part)
             before == (n - 1) * part
  <1>1. size \in Nat \ {0} BY SMT DEF SizeBytes, MAX_UPLOAD_BYTES
  <1>2. c \in Nat \ {0} /\ (c - 1) * part < size
    BY <1>1, RoundsUp
  <1>3. PartCount(size, part) = c
    BY <1>2 DEF PartCount, AtLeast
  <1>4. n \in Nat \ {0} /\ n <= c
    BY <1>2, <1>3 DEF PartNumbers
  <1> HIDE DEF c
  <1>5. \A i, j \in Nat : i <= j => i * part <= j * part
    <2> SUFFICES ASSUME NEW i \in Nat, NEW j \in Nat, i <= j
                 PROVE  i * part <= j * part
      OBVIOUS
    <2> DEFINE d == j - i
    <2>1. d \in Nat /\ j = i + d OBVIOUS
    <2> HIDE DEF d
    <2>2. d * part \in Nat /\ (i + d) * part = i * part + d * part BY <2>1
    <2>3. i * part <= (i + d) * part BY <2>2
    <2> QED BY <2>1, <2>3
  <1>6. before \in Nat /\ before <= (c - 1) * part
    BY <1>2, <1>4, <1>5
  <1>7. before < size BY <1>1, <1>2, <1>6
  <1>8. n < c => before + part < size
    <2> SUFFICES ASSUME n < c PROVE before + part < size
      OBVIOUS
    <2>1. n * part <= (c - 1) * part BY <1>2, <1>4, <1>5
    <2>2. n * part = before + part BY <1>4
    <2> QED BY <1>1, <1>2, <1>6, <2>1, <2>2
  <1> HIDE DEF before
  <1>9. PartBytes(size, part, n) = IF size - before < part THEN size - before ELSE part
    BY DEF PartBytes, before
  <1> QED BY <1>1, <1>3, <1>6, <1>7, <1>8, <1>9

\* The comment in storage.config.ts ("~100 parts, within S3's 10000-part
\* limit") holds at the default part size for every size the API accepts, with
\* room to spare: 103 parts at most, which the largest upload needs.
THEOREM DefaultFitsTheLimit ==
    /\ \A size \in SizeBytes : PartCount(size, DefaultPartSize) \in 1 .. 103
    /\ PartCount(MAX_UPLOAD_BYTES, DefaultPartSize) = 103
    /\ 103 < MaxParts
  BY SMT DEF SizeBytes, PartCount, Ceiling, AtLeast, MAX_UPLOAD_BYTES, DefaultPartSize, MaxParts

\* STORAGE_PART_SIZE_BYTES may be any number.  The parts stay within the limit
\* for every size the API accepts from MinPartSize bytes on, and not below.
THEOREM SmallestPartSize ==
    /\ \A part \in Nat : part >= MinPartSize =>
          \A size \in SizeBytes : PartCount(size, part) <= MaxParts
    /\ PartCount(MAX_UPLOAD_BYTES, MinPartSize - 1) > MaxParts
  <1>1. ASSUME NEW part \in Nat, part >= MinPartSize, NEW size \in SizeBytes
        PROVE  PartCount(size, part) <= MaxParts
    <2>1. MaxParts * MinPartSize <= MaxParts * part
      BY <1>1, SMT DEF MaxParts, MinPartSize
    <2>2. size <= MaxParts * part
      BY <2>1, <1>1, SMT DEF SizeBytes, MAX_UPLOAD_BYTES, MaxParts, MinPartSize
    <2> QED
      <3>1. part \in Nat \ {0} BY <1>1, SMT DEF MinPartSize
      <3>2. MaxParts \in Nat BY SMT DEF MaxParts
      <3> QED BY <1>1, <2>2, <3>1, <3>2, PartsCoverTheFile
  <1>2. PartCount(MAX_UPLOAD_BYTES, MinPartSize - 1) > MaxParts
    BY SMT DEF MinPartSize, PartCount, Ceiling, AtLeast, MAX_UPLOAD_BYTES, MaxParts
  <1> QED BY <1>1, <1>2
=============================================================================
