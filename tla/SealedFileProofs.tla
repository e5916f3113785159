--------------------------- MODULE SealedFileProofs ---------------------------
(***************************************************************************)
(* Theorems about SealedFile, for chunks, tags and contents of any length: *)
(* a sealed file reads back as the content it was made of, in every range; *)
(* cut anywhere it does not open; and the jobs that make sealed files keep *)
(* the name's content, whatever step they fail or crash at.                *)
(*                                                                         *)
(* The chunks of a file are found by division. The first lemmas are about  *)
(* that arithmetic, the next about the bytes, the last about the jobs.     *)
(***************************************************************************)
EXTENDS SealedFile, SequenceTheorems, TLAPS

-----------------------------------------------------------------------------
(* Places *)

LEMMA TimesStep ==
  ASSUME NEW j \in Nat, NEW w \in Nat PROVE (j + 1) * w = j * w + w /\ j * w \in Nat
OBVIOUS

LEMMA TimesMonotonic ==
  ASSUME NEW j \in Nat, NEW n \in Nat, NEW w \in Nat, j < n PROVE j * w + w <= n * w
<1>1. PICK d \in Nat : n = j + 1 + d
  <2>1. n - j - 1 \in Nat /\ n = j + 1 + (n - j - 1)
    OBVIOUS
  <2> QED
    BY <2>1
<1>2. n * w = j * w + w + d * w
  BY <1>1
<1>3. d * w \in Nat
  OBVIOUS
<1> QED
  BY <1>2, <1>3

LEMMA Divided ==
  ASSUME NEW x \in Nat, NEW w \in Nat \ {0}
  PROVE  x \div w \in Nat /\ x % w \in 0..(w - 1) /\ x = (x \div w) * w + (x % w)
OBVIOUS

\* There is one way to divide.
LEMMA DividedOnce ==
  ASSUME NEW x \in Nat, NEW w \in Nat \ {0}, NEW n \in Nat, NEW r \in 0..(w - 1), x = n * w + r
  PROVE  x \div w = n /\ x % w = r
<1>1. PICK q \in Nat : q = x \div w /\ x % w \in 0..(w - 1) /\ x = q * w + (x % w)
  BY Divided
<1>2. q < n => q * w + w <= n * w
  BY TimesMonotonic
<1>3. n < q => n * w + w <= q * w
  BY TimesMonotonic
<1>4. n * w \in Nat /\ q * w \in Nat
  BY TimesStep
<1>5. q = n
  BY <1>1, <1>2, <1>3, <1>4
<1> QED
  BY <1>1, <1>5

-----------------------------------------------------------------------------
(* Sequences *)

IsSeq(s) == \E S : s \in Seq(S)

LEMMA SeqIsFunction ==
  ASSUME NEW s, IsSeq(s) PROVE Len(s) \in Nat /\ s = [i \in 1..Len(s) |-> s[i]]
BY DEF IsSeq

LEMMA FunctionIsSeq ==
  ASSUME NEW n \in Nat, NEW s, DOMAIN s = 1..n, s = [i \in 1..n |-> s[i]]
  PROVE  IsSeq(s) /\ Len(s) = n
<1> DEFINE S == {s[i] : i \in 1..n}
<1>1. s \in [1..n -> S]
  OBVIOUS
<1> HIDE DEF S
<1>2. s \in Seq(S) /\ Len(s) = n
  BY <1>1
<1> QED
  BY <1>2 DEF IsSeq

\* A part of a sequence.
LEMMA PartFacts ==
  ASSUME NEW s, NEW m \in Nat, NEW n \in Nat, m <= n
  PROVE  LET piece == SubSeq(s, m + 1, n) IN
         IsSeq(piece) /\ Len(piece) = n - m /\ \A i \in 1..(n - m) : piece[i] = s[m + i]
<1> DEFINE S == {s[i] : i \in (m + 1)..n}
<1>1. \A i \in (m + 1)..n : s[i] \in S
  OBVIOUS
<1> HIDE DEF S
<1>2. /\ SubSeq(s, m + 1, n) \in Seq(S)
      /\ Len(SubSeq(s, m + 1, n)) = IF m + 1 <= n THEN n - (m + 1) + 1 ELSE 0
      /\ \A i \in 1..(n - (m + 1) + 1) : SubSeq(s, m + 1, n)[i] = s[m + 1 + i - 1]
  BY <1>1, SubSeqProperties
<1>3. n - (m + 1) + 1 = n - m /\ \A i \in 1..(n - m) : m + 1 + i - 1 = m + i
  OBVIOUS
<1> QED
  BY <1>2, <1>3 DEF IsSeq

\* Sequences of one length are told apart by their elements.
LEMMA SameSeq ==
  ASSUME NEW s, NEW t, IsSeq(s), IsSeq(t), Len(s) = Len(t), \A i \in 1..Len(s) : s[i] = t[i]
  PROVE  s = t
BY SeqIsFunction

\* One sequence behind another.
LEMMA BehindFacts ==
  ASSUME NEW s, NEW t, IsSeq(s), IsSeq(t)
  PROVE  /\ IsSeq(s \o t) /\ Len(s \o t) = Len(s) + Len(t)
         /\ \A i \in 1..Len(s) : (s \o t)[i] = s[i]
         /\ \A i \in 1..Len(t) : (s \o t)[Len(s) + i] = t[i]
<1>1. PICK S : s \in Seq(S)
  BY DEF IsSeq
<1>2. PICK T : t \in Seq(T)
  BY DEF IsSeq
<1>3. s \in Seq(S \cup T) /\ t \in Seq(S \cup T)
  BY <1>1, <1>2, SeqMonotonic
<1>4. /\ s \o t \in Seq(S \cup T) /\ Len(s \o t) = Len(s) + Len(t)
      /\ \A i \in 1..(Len(s) + Len(t)) :
           (s \o t)[i] = IF i <= Len(s) THEN s[i] ELSE t[i - Len(s)]
  BY <1>3, ConcatProperties
<1>5. Len(s) \in Nat /\ Len(t) \in Nat
  BY <1>3
<1>6. \A i \in 1..Len(t) : Len(s) + i \in 1..(Len(s) + Len(t)) /\ ~(Len(s) + i <= Len(s))
                          /\ Len(s) + i - Len(s) = i
  BY <1>5
<1> QED
  BY <1>4, <1>5, <1>6 DEF IsSeq

-----------------------------------------------------------------------------
(* A sealed body *)

Width == ChunkSize + TagLen

Cell(key, j, last, plain, at) ==
  [key |-> key, nonce |-> <<j, last>>, plain |-> plain, at |-> at]

\* Chunk j of a body, which is plain and may be the last one.
Holds(body, key, j, last, plain) ==
  \A r \in 1..(Len(plain) + TagLen) : body[j * Width + r] = Cell(key, j, last, plain, r)

\* The plaintext of chunk j, when n chunks come before the last one.
Piece(source, j, n) ==
  IF j < n THEN SubSeq(source, j * ChunkSize + 1, (j + 1) * ChunkSize)
  ELSE SubSeq(source, n * ChunkSize + 1, Len(source))

\* A body that is source sealed under key, the last of n + 1 chunks being its only short
\* one, and empty only when there is nothing to seal.
EncodedAs(body, key, source, n) ==
  /\ IsSeq(body) /\ IsSeq(source)
  /\ Len(source) - n * ChunkSize \in 0..ChunkSize
  /\ Len(source) = n * ChunkSize => n = 0
  /\ Len(body) = n * Width + (Len(source) - n * ChunkSize) + TagLen
  /\ \A j \in 0..n : Holds(body, key, j, j = n, Piece(source, j, n))

Encodes(body, key, source) == \E n \in Nat : EncodedAs(body, key, source, n)

LEMMA SealedChunkFacts ==
  ASSUME NEW key, NEW j, NEW last, NEW plain, IsSeq(plain)
  PROVE  /\ IsSeq(SealedChunk(key, j, last, plain))
         /\ Len(SealedChunk(key, j, last, plain)) = Len(plain) + TagLen
         /\ \A at \in 1..(Len(plain) + TagLen) :
              SealedChunk(key, j, last, plain)[at] = Cell(key, j, last, plain, at)
<1>1. Len(plain) + TagLen \in Nat
  BY SeqIsFunction, SealedFileAssumption
<1>2. PICK chunk : /\ chunk = SealedChunk(key, j, last, plain)
                   /\ chunk = [at \in 1..(Len(plain) + TagLen) |-> Cell(key, j, last, plain, at)]
  BY DEF SealedChunk, Cell, ChunkNonce
<1>3. DOMAIN chunk = 1..(Len(plain) + TagLen)
  BY <1>2
<1>4. chunk = [at \in 1..(Len(plain) + TagLen) |-> chunk[at]]
  BY <1>2
<1>5. IsSeq(chunk) /\ Len(chunk) = Len(plain) + TagLen
  BY <1>1, <1>3, <1>4, FunctionIsSeq
<1> QED
  BY <1>2, <1>5

\* The pieces are parts of the source of a known length.
LEMMA PieceFacts ==
  ASSUME NEW source, IsSeq(source), NEW n \in Nat, NEW j \in 0..n,
         Len(source) - n * ChunkSize \in 0..ChunkSize
  PROVE  LET piece == Piece(source, j, n)
             len == IF j < n THEN ChunkSize ELSE Len(source) - n * ChunkSize
         IN /\ IsSeq(piece) /\ Len(piece) = len
            /\ \A i \in 1..len : piece[i] = source[j * ChunkSize + i]
<1>1. ChunkSize \in Nat \ {0} /\ Len(source) \in Nat /\ j \in Nat
  BY SealedFileAssumption, SeqIsFunction
<1>2. j * ChunkSize \in Nat /\ (j + 1) * ChunkSize = j * ChunkSize + ChunkSize
  BY <1>1, TimesStep
<1>3. n * ChunkSize \in Nat /\ n * ChunkSize <= Len(source)
  BY <1>1, TimesStep
<1>4. CASE j < n
  <2>1. /\ (j + 1) * ChunkSize \in Nat /\ j * ChunkSize <= (j + 1) * ChunkSize
        /\ (j + 1) * ChunkSize - j * ChunkSize = ChunkSize
    BY <1>1, <1>2
  <2>2. Piece(source, j, n) = SubSeq(source, j * ChunkSize + 1, (j + 1) * ChunkSize)
    BY <1>4 DEF Piece
  <2>3. /\ IsSeq(Piece(source, j, n)) /\ Len(Piece(source, j, n)) = ChunkSize
        /\ \A i \in 1..ChunkSize : Piece(source, j, n)[i] = source[j * ChunkSize + i]
    <3>1. PICK a \in Nat, b \in Nat : /\ a = j * ChunkSize /\ b = (j + 1) * ChunkSize
                                     /\ a <= b /\ b - a = ChunkSize
      BY <1>2, <2>1
    <3>2. Piece(source, j, n) = SubSeq(source, a + 1, b)
      BY <2>2, <3>1
    <3>3. a <= b
      BY <3>1
    <3>4. /\ IsSeq(SubSeq(source, a + 1, b)) /\ Len(SubSeq(source, a + 1, b)) = b - a
          /\ \A i \in 1..(b - a) : SubSeq(source, a + 1, b)[i] = source[a + i]
      BY ONLY <3>3, PartFacts
    <3> QED
      BY <3>1, <3>2, <3>4
  <2> QED
    BY <1>4, <2>3
<1>5. CASE ~(j < n)
  <2>1. j = n
    BY <1>5
  <2>2. Piece(source, j, n) = SubSeq(source, n * ChunkSize + 1, Len(source))
    BY <1>5 DEF Piece
  <2>3. LET m == Len(source) - n * ChunkSize IN
        /\ IsSeq(Piece(source, j, n)) /\ Len(Piece(source, j, n)) = m
        /\ \A i \in 1..m : Piece(source, j, n)[i] = source[n * ChunkSize + i]
    <3>1. PICK a \in Nat, b \in Nat : a = n * ChunkSize /\ b = Len(source) /\ a <= b
      BY <1>1, <1>3
    <3>2. Piece(source, j, n) = SubSeq(source, a + 1, b)
      BY <2>2, <3>1
    <3>3. a <= b
      BY <3>1
    <3>4. /\ IsSeq(SubSeq(source, a + 1, b)) /\ Len(SubSeq(source, a + 1, b)) = b - a
          /\ \A i \in 1..(b - a) : SubSeq(source, a + 1, b)[i] = source[a + i]
      BY ONLY <3>3, PartFacts
    <3> QED
      BY <3>1, <3>2, <3>4
  <2> QED
    BY <1>5, <2>1, <2>3
<1> QED
  BY <1>4, <1>5

\* What the size of a body tells: how many chunks it has and how much plaintext.
LEMMA EncodedSizes ==
  ASSUME NEW body, NEW key, NEW source, NEW n \in Nat, EncodedAs(body, key, source, n)
  PROVE  ChunkCount(body) = n + 1 /\ PlaintextLen(body) = Len(source) /\ ~Malformed(body)
<1> DEFINE m == Len(source) - n * ChunkSize
<1>1. /\ ChunkSize \in Nat \ {0} /\ TagLen \in Nat \ {0} /\ Width \in Nat \ {0}
      /\ Width = ChunkSize + TagLen /\ Len(source) \in Nat /\ m \in 0..ChunkSize
      /\ Len(body) = n * Width + m + TagLen /\ Len(body) \in Nat
  BY SealedFileAssumption, SeqIsFunction DEF EncodedAs, Width
<1>2. n * Width \in Nat /\ (n + 1) * Width = n * Width + Width /\ n * ChunkSize \in Nat
  BY <1>1, TimesStep
<1>3. n * Width = n * ChunkSize + n * TagLen /\ (n + 1) * TagLen = n * TagLen + TagLen
      /\ n * TagLen \in Nat
  BY <1>1
<1>4. Len(source) = n * ChunkSize + m
  BY <1>1, <1>2
<1> HIDE DEF m
<1>5. ChunkCount(body) = n + 1 /\ Len(body) % Width \notin 1..(TagLen - 1)
  <2>1. CASE m = ChunkSize
    <3>1. Len(body) = (n + 1) * Width + 0
      BY <1>1, <1>2, <2>1
    <3>2. Len(body) \in Nat /\ Width \in Nat \ {0} /\ n + 1 \in Nat /\ 0 \in 0..(Width - 1)
      BY <1>1
    <3>3. Len(body) \div Width = n + 1 /\ Len(body) % Width = 0
      BY ONLY <3>1, <3>2, DividedOnce
    <3> QED
      BY <1>1, <3>3 DEF ChunkCount, Width
  <2>2. CASE m # ChunkSize
    <3>1. m + TagLen \in 0..(Width - 1) /\ Len(body) = n * Width + (m + TagLen)
      BY <1>1, <1>2, <2>2
    <3>2. Len(body) \in Nat /\ Width \in Nat \ {0} /\ n \in Nat
      BY <1>1
    <3>3. Len(body) \div Width = n /\ Len(body) % Width = m + TagLen
      BY ONLY <3>1, <3>2, DividedOnce
    <3> QED
      BY <1>1, <3>3 DEF ChunkCount, Width
  <2> QED
    BY <2>1, <2>2
<1>6. PlaintextLen(body) = Len(source)
  BY <1>1, <1>2, <1>3, <1>4, <1>5 DEF PlaintextLen
<1>7. Len(body) >= TagLen
  BY <1>1, <1>2
<1> QED
  BY <1>1, <1>5, <1>6, <1>7 DEF Malformed, Width

-----------------------------------------------------------------------------
(* Reading a body *)

\* A chunk is read at its place as what was sealed there.
LEMMA LoadsPiece ==
  ASSUME NEW body, NEW key, NEW source, NEW n \in Nat, EncodedAs(body, key, source, n),
         NEW j \in 0..n
  PROVE  LoadChunk(body, key, j) = <<Piece(source, j, n)>>
<1>1. ChunkCount(body) = n + 1 /\ PlaintextLen(body) = Len(source)
  BY EncodedSizes
<1>2. /\ ChunkSize \in Nat \ {0} /\ TagLen \in Nat \ {0} /\ Width = ChunkSize + TagLen
      /\ Width \in Nat /\ Len(source) \in Nat
  BY SealedFileAssumption, SeqIsFunction DEF EncodedAs, Width
<1>3. PICK piece : piece = Piece(source, j, n)
  OBVIOUS
<1>4. /\ IsSeq(piece)
      /\ Len(piece) = IF j < n THEN ChunkSize ELSE Len(source) - n * ChunkSize
      /\ Len(piece) \in Nat
  BY <1>2, <1>3, PieceFacts DEF EncodedAs
<1>5. PICK len \in Nat : len = Len(piece) + TagLen /\ len >= 1
  <2>1. Len(piece) + TagLen \in Nat /\ Len(piece) + TagLen >= 1
    BY <1>2, <1>4
  <2> QED
    BY <2>1
<1>6. PICK from \in Nat : from = j * Width
  BY <1>2, TimesStep
<1>7. \A r \in 1..len : body[from + r] = Cell(key, j, j = n, piece, r)
  BY <1>3, <1>5, <1>6 DEF EncodedAs, Holds
<1>8. PICK sealed : sealed = SubSeq(body, from + 1, from + len)
  OBVIOUS
<1>9. IsSeq(sealed) /\ Len(sealed) = len /\ \A r \in 1..len : sealed[r] = body[from + r]
  <2>1. PICK to \in Nat : to = from + len
    OBVIOUS
  <2>2. from <= to /\ to - from = len
    BY <2>1
  <2>3. from <= to
    BY <2>2
  <2>4. /\ IsSeq(SubSeq(body, from + 1, to)) /\ Len(SubSeq(body, from + 1, to)) = to - from
        /\ \A r \in 1..(to - from) : SubSeq(body, from + 1, to)[r] = body[from + r]
    BY ONLY <2>3, PartFacts
  <2> QED
    BY <1>8, <2>1, <2>2, <2>4
<1>10. sealed = SealedChunk(key, j, j = n, piece)
  <2>1. PICK chunk : chunk = SealedChunk(key, j, j = n, piece)
    OBVIOUS
  <2>2. /\ IsSeq(chunk) /\ Len(chunk) = len
        /\ \A r \in 1..len : chunk[r] = Cell(key, j, j = n, piece, r)
    BY <1>4, <1>5, <2>1, SealedChunkFacts
  <2>3. \A r \in 1..len : sealed[r] = chunk[r]
    BY <1>7, <1>9, <2>2
  <2> QED
    BY <1>9, <2>1, <2>2, <2>3, SameSeq
<1>11. sealed[1].plain = piece
  <2>1. 1 \in 1..len
    BY <1>5
  <2>2. sealed[1] = Cell(key, j, j = n, piece, 1)
    BY <1>7, <1>9, <2>1
  <2>3. Cell(key, j, j = n, piece, 1).plain = piece
    BY DEF Cell
  <2> QED
    BY <2>2, <2>3
<1>12. (j + 1 = ChunkCount(body)) = (j = n)
  BY <1>1
<1>13. j * (ChunkSize + TagLen) = from
  BY <1>2, <1>6
<1>14. (IF j + 1 = ChunkCount(body) THEN PlaintextLen(body) - j * ChunkSize + TagLen
        ELSE ChunkSize + TagLen) = len
  <2>1. CASE j = n
    BY <1>1, <1>4, <1>5, <1>12, <2>1
  <2>2. CASE j # n
    BY <1>1, <1>4, <1>5, <1>12, <2>2
  <2> QED
    BY <2>1, <2>2
<1> QED
  BY <1>3, <1>8, <1>10, <1>11, <1>12, <1>13, <1>14, Zenon DEF LoadChunk

\* A sealed file opens under its key.
LEMMA EncodedOpens ==
  ASSUME NEW body, NEW key, NEW source, Encodes(body, key, source)
  PROVE  OpensUnder(body, key) /\ PlaintextLen(body) = Len(source)
<1>1. PICK n \in Nat : EncodedAs(body, key, source, n)
  BY DEF Encodes
<1>2. ChunkCount(body) - 1 = n /\ PlaintextLen(body) = Len(source) /\ ~Malformed(body)
  BY <1>1, EncodedSizes
<1>3. LoadChunk(body, key, n) = <<Piece(source, n, n)>>
  BY <1>1, LoadsPiece
<1> QED
  BY <1>2, <1>3 DEF OpensUnder

\* Cut anywhere it opens under no key: the last chunk is another than it was, or shorter.
LEMMA CutDoesNotOpen ==
  ASSUME NEW body, NEW key, NEW source, NEW n \in Nat, EncodedAs(body, key, source, n),
         NEW x \in 0..(Len(body) - 1), NEW other
  PROVE  ~OpensUnder(SubSeq(body, 1, x), other)
<1>1. /\ ChunkSize \in Nat \ {0} /\ TagLen \in Nat \ {0} /\ Width = ChunkSize + TagLen
      /\ Width \in Nat \ {0} /\ Len(source) \in Nat /\ Len(body) \in Nat /\ x \in Nat
      /\ Len(source) - n * ChunkSize \in 0..ChunkSize
      /\ Len(body) = n * Width + (Len(source) - n * ChunkSize) + TagLen
  BY SealedFileAssumption, SeqIsFunction DEF EncodedAs, Width
<1>2. PICK cut : cut = SubSeq(body, 1, x)
  OBVIOUS
<1>3. IsSeq(cut) /\ Len(cut) = x /\ \A i \in 1..x : cut[i] = body[i]
  <2>1. PICK zero \in Nat, to \in Nat : zero = 0 /\ to = x
    BY <1>1
  <2>2. zero <= to
    BY <2>1
  <2>3. /\ IsSeq(SubSeq(body, zero + 1, to)) /\ Len(SubSeq(body, zero + 1, to)) = to - zero
        /\ \A i \in 1..(to - zero) : SubSeq(body, zero + 1, to)[i] = body[zero + i]
    BY ONLY <2>2, PartFacts
  <2>4. to - zero = x /\ zero + 1 = 1 /\ \A i \in 1..x : zero + i = i
    BY <1>1, <2>1
  <2> QED
    BY <1>2, <2>1, <2>3, <2>4
<1>4. SUFFICES ASSUME ~Malformed(cut), LoadChunk(cut, other, ChunkCount(cut) - 1) # <<>>
               PROVE  FALSE
  BY <1>2 DEF OpensUnder
<1>5. x >= TagLen
  BY <1>1, <1>3, <1>4 DEF Malformed
<1>6. PICK j \in Nat : /\ ChunkCount(cut) = j + 1
                       /\ j * Width \in Nat /\ x - j * Width \in 1..Width
  <2>1. PICK q \in Nat, rest \in 0..(Width - 1) :
          x \div Width = q /\ x % Width = rest /\ x = q * Width + rest
    <3>1. x \in Nat /\ Width \in Nat \ {0}
      BY <1>1
    <3>2. /\ x \div Width \in Nat /\ x % Width \in 0..(Width - 1)
          /\ x = (x \div Width) * Width + (x % Width)
      BY <3>1, Divided
    <3> QED
      BY <3>2, Zenon
  <2>2. PICK p \in Nat : p = q * Width /\ x = p + rest
    BY <1>1, <2>1, TimesStep
  <2>3. CASE rest = 0
    <3>1. x = p /\ q # 0
      BY <1>1, <1>5, <2>2, <2>3
    <3>2. PICK j \in Nat : q = j + 1
      <4>1. q - 1 \in Nat /\ q = (q - 1) + 1
        BY <3>1
      <4> QED
        BY <4>1
    <3>3. PICK o \in Nat : o = j * Width /\ p = o + Width
      BY <1>1, <2>2, <3>2, TimesStep
    <3>4. ChunkCount(cut) = q
      BY <1>1, <1>3, <2>1, <2>3 DEF ChunkCount
    <3>5. x - o \in 1..Width
      BY <1>1, <3>1, <3>3
    <3> QED
      BY <3>2, <3>3, <3>4, <3>5
  <2>4. CASE rest # 0
    <3>1. ChunkCount(cut) = q + 1
      BY <1>1, <1>3, <2>1, <2>4 DEF ChunkCount
    <3>2. x - p \in 1..Width
      BY <1>1, <2>1, <2>2, <2>4
    <3> QED
      BY <2>2, <3>1, <3>2
  <2> QED
    BY <2>3, <2>4
<1>7. PICK from \in Nat : from = j * Width /\ from = j * (ChunkSize + TagLen)
  BY <1>1, <1>6
<1>8. PlaintextLen(cut) - j * ChunkSize + TagLen = x - from
  <2>1. PlaintextLen(cut) = x - (j + 1) * TagLen
    BY <1>3, <1>6 DEF PlaintextLen
  <2>2. (j + 1) * TagLen = j * TagLen + TagLen /\ j * TagLen \in Nat /\ j * ChunkSize \in Nat
    BY <1>1, TimesStep
  <2>3. j * Width = j * ChunkSize + j * TagLen
    BY <1>1
  <2> QED
    BY <1>1, <1>7, <2>1, <2>2, <2>3
<1>9. PICK sealed : sealed = SubSeq(cut, from + 1, x)
  OBVIOUS
<1>10. /\ IsSeq(sealed) /\ Len(sealed) = x - from
       /\ \A i \in 1..(x - from) : sealed[i] = cut[from + i]
  <2>1. PICK to \in Nat : to = x
    BY <1>1
  <2>2. from <= to
    BY <1>1, <1>6, <1>7, <2>1
  <2>3. /\ IsSeq(SubSeq(cut, from + 1, to)) /\ Len(SubSeq(cut, from + 1, to)) = to - from
        /\ \A i \in 1..(to - from) : SubSeq(cut, from + 1, to)[i] = cut[from + i]
    BY ONLY <2>2, PartFacts
  <2> QED
    BY <1>9, <2>1, <2>3
<1>11. sealed = SealedChunk(other, j, TRUE, sealed[1].plain)
  <2>1. j + 1 - 1 = j /\ from + (x - from) = x
    BY <1>1
  <2>2. LoadChunk(cut, other, j) # <<>>
    BY <1>4, <1>6, <2>1
  <2> QED
    BY <1>6, <1>7, <1>8, <1>9, <2>1, <2>2, Zenon DEF LoadChunk
<1>12. j <= n
  <2>1. n < j => n * Width + Width <= j * Width
    BY <1>1, TimesMonotonic
  <2>2. n * Width \in Nat
    BY <1>1, TimesStep
  <2> QED
    BY <1>1, <1>6, <2>1, <2>2
<1>13. PICK piece : piece = Piece(source, j, n)
  OBVIOUS
<1>14. IsSeq(piece) /\ Len(piece) \in Nat /\ (j = n => Len(piece) = Len(source) - n * ChunkSize)
  BY <1>1, <1>12, <1>13, PieceFacts DEF EncodedAs
<1>15. sealed[1] = Cell(key, j, j = n, piece, 1)
  <2>1. body[from + 1] = Cell(key, j, j = n, piece, 1)
    BY <1>1, <1>7, <1>12, <1>13, <1>14 DEF EncodedAs, Holds
  <2>2. 1 \in 1..(x - from) /\ from + 1 \in 1..x
    BY <1>6, <1>7
  <2> QED
    BY <1>3, <1>10, <2>1, <2>2
<1>16. sealed = SealedChunk(other, j, TRUE, piece)
  <2>1. Cell(key, j, j = n, piece, 1).plain = piece
    BY DEF Cell
  <2> QED
    BY <1>11, <1>15, <2>1
<1>17. Len(sealed) = Len(piece) + TagLen /\ sealed[1] = Cell(other, j, TRUE, piece, 1)
  <2>1. 1 \in 1..(Len(piece) + TagLen)
    BY <1>1, <1>14
  <2>2. PICK chunk : chunk = SealedChunk(other, j, TRUE, piece)
    OBVIOUS
  <2>3. IsSeq(piece)
    BY <1>14
  <2>4. /\ Len(SealedChunk(other, j, TRUE, piece)) = Len(piece) + TagLen
        /\ \A at \in 1..(Len(piece) + TagLen) :
             SealedChunk(other, j, TRUE, piece)[at] = Cell(other, j, TRUE, piece, at)
    BY ONLY <2>3, SealedChunkFacts
  <2>5. chunk[1] = Cell(other, j, TRUE, piece, 1)
    BY <2>1, <2>2, <2>4, Zenon
  <2> QED
    BY <1>16, <2>2, <2>4, <2>5
<1>18. j = n
  <2>1. Cell(key, j, j = n, piece, 1).nonce = <<j, j = n>>
    BY DEF Cell
  <2>2. Cell(other, j, TRUE, piece, 1).nonce = <<j, TRUE>>
    BY DEF Cell
  <2>3. <<j, j = n>> = <<j, TRUE>>
    BY <1>15, <1>17, <2>1, <2>2
  <2>4. <<j, j = n>>[2] = (j = n) /\ <<j, TRUE>>[2] = TRUE
    OBVIOUS
  <2> QED
    BY <2>3, <2>4
<1>19. n * Width = from /\ Len(piece) = Len(source) - n * ChunkSize
  BY <1>7, <1>14, <1>18
<1> QED
  BY <1>1, <1>7, <1>10, <1>14, <1>17, <1>19

\* Every place of the plaintext is found in the chunk that division tells.
LEMMA CellAt ==
  ASSUME NEW body, NEW key, NEW source, NEW n \in Nat, EncodedAs(body, key, source, n),
         NEW p \in 0..(Len(source) - 1)
  PROVE  /\ LoadChunk(body, key, p \div ChunkSize) # <<>>
         /\ LoadChunk(body, key, p \div ChunkSize)[1][(p % ChunkSize) + 1] = source[p + 1]
<1>1. /\ ChunkSize \in Nat \ {0} /\ Len(source) \in Nat /\ p \in Nat
      /\ Len(source) - n * ChunkSize \in 0..ChunkSize /\ IsSeq(source)
  BY SealedFileAssumption, SeqIsFunction DEF EncodedAs
<1>2. PICK i \in Nat, r \in 0..(ChunkSize - 1) :
        p \div ChunkSize = i /\ p % ChunkSize = r /\ p = i * ChunkSize + r
  <2>1. p \in Nat /\ ChunkSize \in Nat \ {0}
    BY <1>1
  <2>2. /\ p \div ChunkSize \in Nat /\ p % ChunkSize \in 0..(ChunkSize - 1)
        /\ p = (p \div ChunkSize) * ChunkSize + (p % ChunkSize)
    BY <2>1, Divided
  <2> QED
    BY <2>2, Zenon
<1>3. PICK at \in Nat, before \in Nat :
        at = i * ChunkSize /\ before = n * ChunkSize /\ p = at + r
  BY <1>1, <1>2, TimesStep
<1>4. i <= n
  <2>1. n < i => before + ChunkSize <= at
    BY <1>1, <1>3, TimesMonotonic
  <2> QED
    BY <1>1, <1>2, <1>3, <2>1
<1>5. PICK piece : piece = Piece(source, i, n)
  OBVIOUS
<1>6. LoadChunk(body, key, i) = <<piece>>
  BY <1>4, <1>5, LoadsPiece
<1>7. piece[r + 1] = source[p + 1]
  <2>1. PICK len : len = IF i < n THEN ChunkSize ELSE Len(source) - n * ChunkSize
    OBVIOUS
  <2>2. \A q \in 1..len : piece[q] = source[i * ChunkSize + q]
    BY <1>1, <1>4, <1>5, <2>1, PieceFacts
  <2>3. len \in Nat /\ r + 1 <= len
    <3>1. CASE i < n
      BY <1>1, <1>2, <2>1, <3>1
    <3>2. CASE i = n
      BY <1>1, <1>2, <1>3, <2>1, <3>2
    <3> QED
      BY <1>4, <3>1, <3>2
  <2>4. r + 1 \in 1..len /\ i * ChunkSize + (r + 1) = p + 1
    BY <1>2, <1>3, <2>3
  <2> QED
    BY <2>2, <2>4
<1> QED
  BY <1>2, <1>6, <1>7

\* A range of a sealed file is the range of what was sealed.
LEMMA ReadsRange ==
  ASSUME NEW body, NEW key, NEW source, Encodes(body, key, source),
         NEW start \in 0..Len(source), NEW len \in Nat
  PROVE  ReadRange(body, key, start, len) =
           <<SubSeq(source, start + 1, IF start + len < Len(source) THEN start + len ELSE Len(source))>>
<1>1. PICK n \in Nat : EncodedAs(body, key, source, n)
  BY DEF Encodes
<1>2. PlaintextLen(body) = Len(source) /\ Len(source) \in Nat /\ start \in Nat
  <2>1. PlaintextLen(body) = Len(source)
    BY <1>1, EncodedSizes
  <2>2. IsSeq(source)
    BY <1>1 DEF EncodedAs
  <2>3. Len(source) \in Nat
    BY <2>2, SeqIsFunction
  <2> QED
    BY <2>1, <2>3
<1>3. PICK end \in Nat : /\ end = IF start + len < Len(source) THEN start + len ELSE Len(source)
                        /\ start <= end /\ end <= Len(source)
  BY <1>2
<1>4. PICK range : range = SubSeq(source, start + 1, end)
  OBVIOUS
<1>5. /\ IsSeq(range) /\ Len(range) = end - start
      /\ \A k \in 1..(end - start) : range[k] = source[start + k]
  <2>1. start <= end /\ start \in Nat
    BY <1>2, <1>3
  <2>2. /\ IsSeq(SubSeq(source, start + 1, end)) /\ Len(SubSeq(source, start + 1, end)) = end - start
        /\ \A k \in 1..(end - start) : SubSeq(source, start + 1, end)[k] = source[start + k]
    BY ONLY <2>1, PartFacts
  <2> QED
    BY <1>4, <2>2
<1>6. range = [k \in 1..(end - start) |-> range[k]]
  BY <1>5, SeqIsFunction
<1> DEFINE cell(p) == LoadChunk(body, key, p \div ChunkSize)
<1>7. ReadRange(body, key, start, len) =
        IF start >= end THEN <<<<>>>>
        ELSE IF \E p \in start..(end - 1) : cell(p) = <<>> THEN <<>>
        ELSE <<[k \in 1..(end - start) |-> cell(start + k - 1)[1][((start + k - 1) % ChunkSize) + 1]]>>
  BY <1>2, <1>3, Zenon DEF ReadRange
<1>8. CASE start >= end
  <2>1. Len(range) = 0
    BY <1>2, <1>3, <1>5, <1>8
  <2>2. range = <<>>
    BY <1>5, <2>1 DEF IsSeq
  <2> QED
    BY <1>3, <1>4, <1>7, <1>8, <2>2
<1>9. CASE ~(start >= end)
  <2>1. \A p \in start..(end - 1) : /\ cell(p) # <<>>
                                    /\ cell(p)[1][(p % ChunkSize) + 1] = source[p + 1]
    <3>1. \A p \in start..(end - 1) : p \in 0..(Len(source) - 1)
      BY <1>2, <1>3
    <3> QED
      BY <1>1, <3>1, CellAt
  <2> HIDE DEF cell
  <2>2. \A k \in 1..(end - start) : /\ start + k - 1 \in start..(end - 1)
                                    /\ start + k - 1 + 1 = start + k
    BY <1>2, <1>3
  <2>3. \A k \in 1..(end - start) :
          cell(start + k - 1)[1][((start + k - 1) % ChunkSize) + 1] = range[k]
    BY <1>5, <2>1, <2>2
  <2>4. [k \in 1..(end - start) |-> cell(start + k - 1)[1][((start + k - 1) % ChunkSize) + 1]] = range
    BY <1>6, <2>3
  <2>5. ~\E p \in start..(end - 1) : cell(p) = <<>>
    BY <2>1
  <2>6. ReadRange(body, key, start, len) = <<range>>
    BY <1>7, <1>9, <2>4, <2>5
  <2> QED
    BY <1>3, <1>4, <2>6
<1> QED
  BY <1>8, <1>9

-----------------------------------------------------------------------------
(* Writing a body *)

LEMMA TailFacts ==
  ASSUME NEW s, IsSeq(s), s # <<>>
  PROVE  /\ Len(s) \in Nat \ {0} /\ Head(s) = s[1]
         /\ IsSeq(Tail(s)) /\ Len(Tail(s)) = Len(s) - 1
         /\ \A i \in 1..(Len(s) - 1) : Tail(s)[i] = s[i + 1]
<1>1. PICK S : s \in Seq(S)
  BY DEF IsSeq
<1>2. Len(s) \in Nat \ {0}
  BY <1>1, EmptySeq
<1>3. /\ Tail(s) \in Seq(S) /\ Len(Tail(s)) = Len(s) - 1
      /\ \A i \in 1..Len(Tail(s)) : Tail(s)[i] = s[i + 1]
  BY <1>1, HeadTailProperties
<1>4. Head(s) = s[1]
  BY <1>1
<1> QED
  BY <1>2, <1>3, <1>4 DEF IsSeq

LEMMA AppendFacts ==
  ASSUME NEW s, IsSeq(s), NEW x
  PROVE  /\ IsSeq(Append(s, x)) /\ Len(Append(s, x)) = Len(s) + 1
         /\ \A i \in 1..Len(s) : Append(s, x)[i] = s[i]
         /\ Append(s, x)[Len(s) + 1] = x
<1>1. PICK S : s \in Seq(S)
  BY DEF IsSeq
<1>2. s \in Seq(S \cup {x}) /\ x \in S \cup {x}
  BY <1>1, SeqMonotonic
<1> QED
  BY <1>2, AppendProperties DEF IsSeq

\* The plaintext of chunk j when it is a full one.
Full(source, j) == SubSeq(source, j * ChunkSize + 1, (j + 1) * ChunkSize)

LEMMA FullFacts ==
  ASSUME NEW source, NEW j \in Nat
  PROVE  IsSeq(Full(source, j)) /\ Len(Full(source, j)) = ChunkSize
<1>1. PICK from \in Nat, to \in Nat :
        from = j * ChunkSize /\ to = (j + 1) * ChunkSize /\ to = from + ChunkSize
  BY SealedFileAssumption, TimesStep
<1>2. from <= to /\ to - from = ChunkSize
  BY <1>1, SealedFileAssumption
<1>3. from <= to
  BY <1>2
<1>4. IsSeq(SubSeq(source, from + 1, to)) /\ Len(SubSeq(source, from + 1, to)) = to - from
  BY ONLY <1>3, PartFacts
<1> QED
  BY <1>1, <1>2, <1>4 DEF Full

\* The full chunks that have been sealed.
Chunks(body, key, source, n) ==
  /\ IsSeq(body) /\ Len(body) = n * Width
  /\ \A j \in 0..(n - 1) : Holds(body, key, j, FALSE, Full(source, j))

\* One more chunk leaves those before it as they are.
LEMMA OneMoreChunk ==
  ASSUME NEW body, NEW key, NEW source, NEW n \in Nat, Chunks(body, key, source, n),
         NEW last, NEW plain, IsSeq(plain)
  PROVE  LET more == body \o SealedChunk(key, n, last, plain) IN
         /\ IsSeq(more) /\ Len(more) = n * Width + Len(plain) + TagLen
         /\ \A j \in 0..(n - 1) : Holds(more, key, j, FALSE, Full(source, j))
         /\ Holds(more, key, n, last, plain)
<1>1. /\ ChunkSize \in Nat \ {0} /\ TagLen \in Nat \ {0} /\ Width = ChunkSize + TagLen
      /\ Width \in Nat /\ Len(plain) \in Nat
  BY SealedFileAssumption, SeqIsFunction DEF Width
<1>2. PICK chunk : chunk = SealedChunk(key, n, last, plain)
  OBVIOUS
<1>3. /\ IsSeq(chunk) /\ Len(chunk) = Len(plain) + TagLen
      /\ \A r \in 1..(Len(plain) + TagLen) : chunk[r] = Cell(key, n, last, plain, r)
  BY <1>2, SealedChunkFacts
<1>4. PICK more : more = body \o chunk
  OBVIOUS
<1>5. /\ IsSeq(more) /\ Len(more) = Len(body) + Len(chunk)
      /\ \A i \in 1..Len(body) : more[i] = body[i]
      /\ \A i \in 1..Len(chunk) : more[Len(body) + i] = chunk[i]
  <2>1. IsSeq(body)
    BY DEF Chunks
  <2>2. IsSeq(chunk)
    BY <1>3
  <2>3. /\ IsSeq(body \o chunk) /\ Len(body \o chunk) = Len(body) + Len(chunk)
        /\ \A i \in 1..Len(body) : (body \o chunk)[i] = body[i]
        /\ \A i \in 1..Len(chunk) : (body \o chunk)[Len(body) + i] = chunk[i]
    BY ONLY <2>1, <2>2, BehindFacts
  <2> QED
    BY <1>4, <2>3
<1>6. PICK from \in Nat : from = n * Width /\ Len(body) = from
  BY <1>1, TimesStep DEF Chunks
<1>7. Len(more) = n * Width + Len(plain) + TagLen
  BY <1>1, <1>3, <1>5, <1>6
<1>8. ASSUME NEW j \in 0..(n - 1) PROVE Holds(more, key, j, FALSE, Full(source, j))
  <2>1. PICK at \in Nat : at = j * Width /\ at + Width <= from
    <3>1. j \in Nat /\ j < n
      OBVIOUS
    <3> QED
      BY <1>1, <1>6, <3>1, TimesStep, TimesMonotonic
  <2>2. Len(Full(source, j)) + TagLen = Width
    BY <1>1, FullFacts
  <2>3. \A r \in 1..Width : body[at + r] = Cell(key, j, FALSE, Full(source, j), r)
    BY <2>1, <2>2 DEF Chunks, Holds
  <2>4. \A r \in 1..Width : at + r \in 1..from
    BY <1>1, <2>1
  <2>5. \A r \in 1..Width : more[at + r] = body[at + r]
    BY <1>5, <1>6, <2>4
  <2> QED
    BY <2>1, <2>2, <2>3, <2>5 DEF Holds
<1>9. Holds(more, key, n, last, plain)
  BY <1>3, <1>5, <1>6 DEF Holds
<1> QED
  BY <1>2, <1>4, <1>5, <1>7, <1>8, <1>9

\* Where a writer is, in a source: the chunks it has sealed, what it holds back, and what
\* it has not been given yet. It holds something back from the first cell on.
WrittenSoFar(body, key, source, left, buffer, n) ==
  /\ n \in Nat /\ IsSeq(source) /\ Chunks(body, key, source, n)
  /\ Len(buffer) \in 0..ChunkSize
  /\ Len(buffer) = 0 => n = 0
  /\ IsSeq(buffer) /\ \A i \in 1..Len(buffer) : buffer[i] = source[n * ChunkSize + i]
  /\ IsSeq(left) /\ Len(source) = n * ChunkSize + Len(buffer) + Len(left)
  /\ \A i \in 1..Len(left) : left[i] = source[n * ChunkSize + Len(buffer) + i]

LEMMA NothingWritten ==
  ASSUME NEW source, IsSeq(source), NEW key
  PROVE  WrittenSoFar(<<>>, key, source, source, <<>>, 0)
<1>1. ChunkSize \in Nat /\ Width \in Nat /\ Len(source) \in Nat
  BY SealedFileAssumption, SeqIsFunction DEF Width
<1>2. 0 * Width = 0 /\ 0 * ChunkSize = 0
  BY <1>1
<1>3. IsSeq(<<>>) /\ Len(<<>>) = 0
  BY EmptySeq DEF IsSeq
<1>4. Chunks(<<>>, key, source, 0)
  BY <1>2, <1>3 DEF Chunks
<1>5. /\ Len(source) = 0 + 0 + Len(source) /\ 0 \in 0..ChunkSize /\ 0 \in Nat
      /\ \A i \in 1..Len(source) : source[i] = source[0 + 0 + i]
  BY <1>1
<1>6. \A i \in 1..0 : <<>>[i] = source[0 + i]
  OBVIOUS
<1> QED
  BY <1>2, <1>3, <1>4, <1>5, <1>6 DEF WrittenSoFar

\* write_plain of the next cell.
LEMMA WritesOne ==
  ASSUME NEW body, NEW key, NEW source, NEW left, NEW w, NEW buffer, NEW n,
         w = [buffer |-> buffer, next |-> n],
         WrittenSoFar(body, key, source, left, buffer, n), left # <<>>
  PROVE  LET v == WritePlain(w, Head(left)) IN
         /\ v = [buffer |-> v.buffer, next |-> v.next]
         /\ WrittenSoFar(body \o WrittenBy(w, key), key, source, Tail(left), v.buffer, v.next)
<1>1. /\ ChunkSize \in Nat \ {0} /\ TagLen \in Nat \ {0} /\ Width = ChunkSize + TagLen
      /\ Width \in Nat /\ n \in Nat /\ n + 1 \in Nat
  BY SealedFileAssumption DEF Width, WrittenSoFar
<1>2. w.buffer = buffer /\ w.next = n
  OBVIOUS
<1>3. PICK x : x = Head(left)
  OBVIOUS
<1>4. PICK rest : rest = Tail(left)
  OBVIOUS
<1>5. /\ IsSeq(source) /\ IsSeq(buffer) /\ IsSeq(left) /\ Chunks(body, key, source, n)
      /\ Len(buffer) \in 0..ChunkSize
  BY DEF WrittenSoFar
<1>6. PICK base \in Nat : base = n * ChunkSize /\ (n + 1) * ChunkSize = base + ChunkSize
  BY <1>1, TimesStep
<1>7. PICK done \in Nat : done = base + Len(buffer)
  BY <1>5, SeqIsFunction
<1>8. /\ Len(left) \in Nat \ {0} /\ x = source[done + 1]
      /\ IsSeq(rest) /\ Len(rest) = Len(left) - 1 /\ Len(source) = (done + 1) + Len(rest)
      /\ \A i \in 1..Len(rest) : rest[i] = source[(done + 1) + i]
  <2>1. /\ Len(left) \in Nat \ {0} /\ x = left[1]
        /\ IsSeq(rest) /\ Len(rest) = Len(left) - 1
        /\ \A i \in 1..(Len(left) - 1) : rest[i] = left[i + 1]
    BY <1>3, <1>4, <1>5, TailFacts
  <2>2. /\ Len(source) = done + Len(left)
        /\ \A i \in 1..Len(left) : left[i] = source[done + i]
    BY <1>6, <1>7 DEF WrittenSoFar
  <2>3. 1 \in 1..Len(left) /\ Len(source) = (done + 1) + Len(rest)
    BY <2>1, <2>2
  <2>4. \A i \in 1..Len(rest) : i \in 1..(Len(left) - 1) /\ i + 1 \in 1..Len(left)
                               /\ done + (i + 1) = (done + 1) + i
    BY <2>1
  <2> QED
    BY <2>1, <2>2, <2>3, <2>4
<1>9. CASE Len(buffer) = ChunkSize
  <2>1. buffer = Full(source, n)
    <3>1. \A i \in 1..ChunkSize : buffer[i] = source[n * ChunkSize + i]
      BY <1>9 DEF WrittenSoFar
    <3>2. /\ IsSeq(Full(source, n)) /\ Len(Full(source, n)) = ChunkSize
          /\ \A i \in 1..ChunkSize : Full(source, n)[i] = source[n * ChunkSize + i]
      <4>1. PICK to \in Nat : to = (n + 1) * ChunkSize /\ to = base + ChunkSize
        BY <1>1, <1>6
      <4>2. base <= to /\ to - base = ChunkSize
        BY <1>1, <4>1
      <4>3. base <= to
        BY <4>2
      <4>4. /\ IsSeq(SubSeq(source, base + 1, to)) /\ Len(SubSeq(source, base + 1, to)) = to - base
            /\ \A i \in 1..(to - base) : SubSeq(source, base + 1, to)[i] = source[base + i]
        BY ONLY <4>3, PartFacts
      <4> QED
        BY <1>6, <4>1, <4>2, <4>4 DEF Full
    <3> QED
      BY <1>5, <1>9, <3>1, <3>2, SameSeq
  <2>2. PICK more : more = body \o SealedChunk(key, n, FALSE, buffer)
    OBVIOUS
  <2>3. /\ IsSeq(more) /\ Len(more) = n * Width + Len(buffer) + TagLen
        /\ \A j \in 0..(n - 1) : Holds(more, key, j, FALSE, Full(source, j))
        /\ Holds(more, key, n, FALSE, buffer)
    <3>1. Chunks(body, key, source, n)
      BY <1>5
    <3>2. n \in Nat
      BY <1>1
    <3>3. IsSeq(buffer)
      BY <1>5
    <3>4. LET chunks == body \o SealedChunk(key, n, FALSE, buffer) IN
          /\ IsSeq(chunks) /\ Len(chunks) = n * Width + Len(buffer) + TagLen
          /\ \A j \in 0..(n - 1) : Holds(chunks, key, j, FALSE, Full(source, j))
          /\ Holds(chunks, key, n, FALSE, buffer)
      BY ONLY <3>1, <3>2, <3>3, OneMoreChunk
    <3> QED
      BY <3>4, <2>2
  <2>4. Chunks(more, key, source, n + 1)
    <3>1. (n + 1) * Width = n * Width + Width /\ n * Width \in Nat
      BY <1>1, TimesStep
    <3>2. Len(more) = (n + 1) * Width
      BY <1>1, <1>9, <2>3, <3>1
    <3>3. \A j \in 0..((n + 1) - 1) : j \in 0..(n - 1) \/ j = n
      BY <1>1
    <3> QED
      BY <2>1, <2>3, <3>2, <3>3 DEF Chunks
  <2>5. WrittenBy(w, key) = SealedChunk(key, n, FALSE, buffer)
    BY <1>2, <1>9 DEF WrittenBy
  <2>6. WritePlain(w, x) = [buffer |-> <<x>>, next |-> n + 1]
    BY <1>2, <1>9 DEF WritePlain
  <2>7. IsSeq(<<x>>) /\ Len(<<x>>) = 1 /\ <<x>>[1] = x
    <3>1. <<x>> \in Seq({x}) /\ Len(<<x>>) = 1 /\ <<x>>[1] = x
      OBVIOUS
    <3> QED
      BY <3>1 DEF IsSeq
  <2>8. (n + 1) * ChunkSize = done
    BY <1>6, <1>7, <1>9
  <2>9. WrittenSoFar(more, key, source, rest, <<x>>, n + 1)
    <3>1. 1 \in 0..ChunkSize
      BY <1>1
    <3>2. \A i \in 1..1 : <<x>>[i] = source[done + i]
      BY <1>8, <2>7
    <3> QED
      <4>1. /\ n + 1 \in Nat /\ IsSeq(source) /\ IsSeq(rest) /\ Len(<<x>>) \in 0..ChunkSize
            /\ (Len(<<x>>) = 0 => n + 1 = 0)
        BY <1>1, <1>5, <1>8, <2>7, <3>1
      <4>2. /\ Len(source) = (n + 1) * ChunkSize + Len(<<x>>) + Len(rest)
            /\ \A i \in 1..Len(rest) : rest[i] = source[(n + 1) * ChunkSize + Len(<<x>>) + i]
        BY <1>8, <2>7, <2>8
      <4>3. \A i \in 1..Len(<<x>>) : <<x>>[i] = source[(n + 1) * ChunkSize + i]
        BY <2>7, <2>8, <3>2
      <4> QED
        BY <2>4, <2>7, <4>1, <4>2, <4>3, Zenon DEF WrittenSoFar
  <2>10. PICK v : v = WritePlain(w, x)
    OBVIOUS
  <2>11. v.buffer = <<x>> /\ v.next = n + 1 /\ v = [buffer |-> v.buffer, next |-> v.next]
    BY <2>6, <2>10
  <2> QED
    BY <1>3, <1>4, <2>2, <2>5, <2>9, <2>10, <2>11, Zenon
<1>10. CASE Len(buffer) # ChunkSize
  <2>1. WrittenBy(w, key) = <<>>
    BY <1>2, <1>10 DEF WrittenBy
  <2>2. body \o <<>> = body
    BY <1>5, ConcatEmptySeq DEF Chunks, IsSeq
  <2>3. PICK longer : longer = Append(buffer, x)
    OBVIOUS
  <2>4. WritePlain(w, x) = [buffer |-> longer, next |-> n]
    BY <1>2, <1>10, <2>3 DEF WritePlain
  <2>5. /\ IsSeq(longer) /\ Len(longer) = Len(buffer) + 1
        /\ \A i \in 1..Len(buffer) : longer[i] = buffer[i]
        /\ longer[Len(buffer) + 1] = x
    BY <1>5, <2>3, AppendFacts
  <2>6. Len(longer) \in 1..ChunkSize /\ base + Len(longer) = done + 1
    BY <1>1, <1>5, <1>7, <1>10, <2>5
  <2>7. \A i \in 1..Len(longer) : longer[i] = source[n * ChunkSize + i]
    <3>1. \A i \in 1..Len(buffer) : buffer[i] = source[n * ChunkSize + i]
      BY DEF WrittenSoFar
    <3>2. \A i \in 1..Len(longer) : i \in 1..Len(buffer) \/ i = Len(buffer) + 1
      BY <1>5, <2>5
    <3>3. n * ChunkSize + (Len(buffer) + 1) = done + 1
      BY <1>6, <2>5, <2>6
    <3> QED
      BY <1>8, <2>5, <3>1, <3>2, <3>3
  <2>8. WrittenSoFar(body, key, source, rest, longer, n)
    <3>1. n * ChunkSize + Len(longer) = done + 1 /\ Len(longer) \in 0..ChunkSize /\ Len(longer) # 0
      BY <1>6, <2>6
    <3> QED
      BY <1>1, <1>5, <1>8, <2>5, <2>7, <3>1 DEF WrittenSoFar
  <2>9. PICK v : v = WritePlain(w, x)
    OBVIOUS
  <2>10. v.buffer = longer /\ v.next = n /\ v = [buffer |-> v.buffer, next |-> v.next]
    BY <2>4, <2>9
  <2> QED
    BY <1>3, <1>4, <2>1, <2>2, <2>8, <2>9, <2>10, Zenon
<1> QED
  BY <1>9, <1>10

\* finish leaves the source sealed.
LEMMA FinishesAll ==
  ASSUME NEW body, NEW key, NEW source, NEW w, NEW buffer, NEW n,
         w = [buffer |-> buffer, next |-> n],
         WrittenSoFar(body, key, source, <<>>, buffer, n)
  PROVE  Encodes(body \o LastChunk(w, key), key, source)
<1>1. ChunkSize \in Nat \ {0} /\ TagLen \in Nat \ {0} /\ n \in Nat /\ Len(<<>>) = 0
  BY SealedFileAssumption DEF WrittenSoFar
<1>2. PICK base \in Nat : base = n * ChunkSize
  BY <1>1, TimesStep
<1>3. /\ IsSeq(source) /\ IsSeq(buffer) /\ Chunks(body, key, source, n)
      /\ Len(buffer) \in 0..ChunkSize /\ (Len(buffer) = 0 => n = 0)
      /\ Len(source) = base + Len(buffer)
      /\ \A i \in 1..Len(buffer) : buffer[i] = source[base + i]
  BY <1>1, <1>2 DEF WrittenSoFar
<1>4. Len(source) - base = Len(buffer) /\ base <= Len(source) /\ Len(source) \in Nat
  BY <1>3
<1>5. buffer = Piece(source, n, n)
  <2>1. base <= Len(source)
    BY <1>4
  <2>2. Len(source) \in Nat
    BY <1>4
  <2>3. /\ IsSeq(SubSeq(source, base + 1, Len(source)))
        /\ Len(SubSeq(source, base + 1, Len(source))) = Len(source) - base
        /\ \A i \in 1..(Len(source) - base) : SubSeq(source, base + 1, Len(source))[i] = source[base + i]
    BY ONLY <2>1, <2>2, PartFacts
  <2>4. buffer = SubSeq(source, base + 1, Len(source))
    BY <1>3, <1>4, <2>3, SameSeq
  <2> QED
    BY <1>1, <1>2, <2>4 DEF Piece
<1>6. PICK more : more = body \o LastChunk(w, key)
  OBVIOUS
<1>7. more = body \o SealedChunk(key, n, TRUE, buffer)
  BY <1>6 DEF LastChunk
<1>8. /\ IsSeq(more) /\ Len(more) = n * Width + Len(buffer) + TagLen
      /\ \A j \in 0..(n - 1) : Holds(more, key, j, FALSE, Full(source, j))
      /\ Holds(more, key, n, TRUE, buffer)
  <2>1. Chunks(body, key, source, n)
    BY <1>3
  <2>2. n \in Nat
    BY <1>1
  <2>3. IsSeq(buffer)
    BY <1>3
  <2>4. LET chunks == body \o SealedChunk(key, n, TRUE, buffer) IN
        /\ IsSeq(chunks) /\ Len(chunks) = n * Width + Len(buffer) + TagLen
        /\ \A j \in 0..(n - 1) : Holds(chunks, key, j, FALSE, Full(source, j))
        /\ Holds(chunks, key, n, TRUE, buffer)
    BY ONLY <2>1, <2>2, <2>3, OneMoreChunk
  <2> QED
    BY <2>4, <1>7
<1>9. \A j \in 0..n : Holds(more, key, j, j = n, Piece(source, j, n))
  <2>1. ASSUME NEW j \in 0..(n - 1) PROVE Holds(more, key, j, j = n, Piece(source, j, n))
    <3>1. j < n /\ (j = n) = FALSE
      BY <1>1
    <3>2. Piece(source, j, n) = Full(source, j)
      BY <3>1 DEF Piece, Full
    <3> QED
      BY <1>8, <3>1, <3>2, Zenon
  <2>2. Holds(more, key, n, n = n, Piece(source, n, n))
    BY <1>5, <1>8
  <2>3. \A j \in 0..n : j \in 0..(n - 1) \/ j = n
    BY <1>1
  <2> QED
    BY <2>1, <2>2, <2>3
<1>10. EncodedAs(more, key, source, n)
  <2>1. Len(source) = n * ChunkSize => n = 0
    BY <1>2, <1>3, <1>4
  <2>2. /\ Len(source) - n * ChunkSize \in 0..ChunkSize
        /\ Len(more) = n * Width + (Len(source) - n * ChunkSize) + TagLen
    BY <1>2, <1>3, <1>4, <1>8
  <2> QED
    BY <1>3, <1>8, <1>9, <2>1, <2>2 DEF EncodedAs
<1> QED
  BY <1>1, <1>6, <1>10 DEF Encodes

-----------------------------------------------------------------------------
(* The jobs *)

\* A compaction of any log: its records are some sequence.
CompactsAny ==
  /\ job.pc = "idle"
  /\ \E source : IsSeq(source) /\ JobStarts("compact", source)
  /\ UNCHANGED <<cipher, name, former>>

FileSpec == FileInit /\ [][JobNext \/ KeysRotated \/ CompactsAny]_fileVars

\* What may stand under the name, for a program with these keys.
Good(file, keys) ==
  /\ file = [kind |-> file.kind, body |-> file.body, content |-> file.content]
  /\ file.kind \in {"plain", "sealed", "absent"}
  /\ file.kind = "plain" => file.body = file.content /\ IsSeq(file.content)
  /\ file.kind = "sealed" => \E key \in keys : Encodes(file.body, key, file.content)
  /\ file.kind = "absent" => file = Absent

\* The job and the .sealing file are records.
Shapes ==
  /\ job = [kind |-> job.kind, pc |-> job.pc, source |-> job.source, left |-> job.left,
            writer |-> [buffer |-> job.writer.buffer, next |-> job.writer.next]]
  /\ temp = [cells |-> temp.cells, synced |-> temp.synced]
  /\ job.kind \in {"none", "inPlace", "compact"}
  /\ job.pc \in {"idle", "writing", "verifying", "renaming", "published"}

\* The sizes that hold at every step.
Sizes ==
  /\ IsSeq(temp.cells) /\ temp.synced \in 0..Len(temp.cells)
  /\ Len(job.writer.buffer) \in 0..ChunkSize

\* While it is written, the .sealing file is what has been sealed of the source so far.
WritesSource ==
  job.pc = "writing" =>
    /\ temp.synced = 0
    /\ WrittenSoFar(temp.cells, cipher.current, job.source, job.left, job.writer.buffer, job.writer.next)

\* Then it is the source sealed, all of it on disk.
SealsSource ==
  job.pc \in {"verifying", "renaming", "published"} =>
    Encodes(temp.cells, cipher.current, job.source) /\ temp.synced = Len(temp.cells)

\* A name that is published and not yet synced is the .sealing file.
NamesSealed ==
  job.pc = "published" =>
    name = [kind |-> "sealed", body |-> temp.cells, content |-> job.source]

FileInv ==
  /\ Good(name, CandidateKeys) /\ Good(former, CandidateKeys)
  /\ Shapes /\ Sizes /\ WritesSource /\ SealsSource /\ NamesSealed

LEMMA GoodUnderMoreKeys ==
  ASSUME NEW file, NEW keys, NEW more, Good(file, keys), keys \subseteq more
  PROVE  Good(file, more)
BY Zenon DEF Good

LEMMA PlainIsGood ==
  ASSUME NEW content, IsSeq(content), NEW keys PROVE Good(Plain(content), keys)
BY DEF Good, Plain

LEMMA AbsentIsGood == ASSUME NEW keys PROVE Good(Absent, keys)
BY DEF Good, Absent

LEMMA EncodedIsSeq ==
  ASSUME NEW body, NEW key, NEW source, Encodes(body, key, source)
  PROVE  IsSeq(body) /\ IsSeq(source)
BY Zenon DEF Encodes, EncodedAs

LEMMA NoJobFacts ==
  /\ Len(<<>>) = 0 /\ IsSeq(<<>>)
  /\ NoJob.kind = "none" /\ NoJob.pc = "idle" /\ NoJob.writer.buffer = <<>>
  /\ NoJob = [kind |-> NoJob.kind, pc |-> NoJob.pc, source |-> NoJob.source, left |-> NoJob.left,
              writer |-> [buffer |-> NoJob.writer.buffer, next |-> NoJob.writer.next]]
  /\ NoTemp.cells = <<>> /\ NoTemp.synced = 0
  /\ NoTemp = [cells |-> NoTemp.cells, synced |-> NoTemp.synced]
<1>1. Len(<<>>) = 0 /\ IsSeq(<<>>)
  BY EmptySeq DEF IsSeq
<1> QED
  BY <1>1 DEF NoJob, NoTemp, NewWriter

\* Without a job, only the name has to be good.
Idle == job = NoJob /\ temp = NoTemp /\ Good(name, CandidateKeys) /\ Good(former, CandidateKeys)

LEMMA IdleInv == Idle => FileInv
<1> SUFFICES ASSUME Idle PROVE FileInv
  OBVIOUS
<1>1. Shapes
  BY NoJobFacts DEF Idle, Shapes
<1>2. Sizes
  BY NoJobFacts, SealedFileAssumption DEF Idle, Sizes
<1>3. WritesSource /\ SealsSource /\ NamesSealed
  BY NoJobFacts DEF Idle, WritesSource, SealsSource, NamesSealed
<1> QED
  BY <1>1, <1>2, <1>3 DEF Idle, FileInv

LEMMA FileInitially == FileInit => FileInv
<1> SUFFICES ASSUME FileInit PROVE FileInv
  OBVIOUS
<1>1. Good(name, CandidateKeys)
  <2>1. CASE name = Absent
    BY <2>1, AbsentIsGood
  <2>2. CASE \E content \in Contents : name = Plain(content)
    <3>1. PICK content \in Contents : name = Plain(content)
      BY <2>2
    <3>2. IsSeq(content)
      BY SealedFileAssumption DEF IsSeq
    <3> QED
      BY <3>1, <3>2, PlainIsGood
  <2> QED
    BY <2>1, <2>2 DEF FileInit
<1> QED
  BY <1>1, IdleInv DEF FileInit, Idle

\* A job starts on a sequence.
LEMMA StartsKeepInv ==
  ASSUME FileInv, NEW kind \in {"inPlace", "compact"}, NEW source, IsSeq(source),
         JobStarts(kind, source), UNCHANGED <<cipher, name, former>>
  PROVE  FileInv'
<1>1. /\ job' = [kind |-> kind, pc |-> "writing", source |-> source, left |-> source, writer |-> NewWriter]
      /\ temp' = NoTemp
  BY DEF JobStarts
<1>2. Good(name, CandidateKeys)' /\ Good(former, CandidateKeys)'
  <2>1. Good(name, CandidateKeys) /\ Good(former, CandidateKeys)
    BY DEF FileInv
  <2>2. CandidateKeys' = CandidateKeys /\ name' = name /\ former' = former
    BY DEF CandidateKeys
  <2> QED
    BY <2>1, <2>2
<1>3. Shapes' /\ Sizes'
  BY <1>1, NoJobFacts, SealedFileAssumption DEF Shapes, Sizes, NewWriter
<1>4. WritesSource'
  <2>1. job'.left = source /\ job'.source = source /\ temp'.cells = <<>>
        /\ job'.writer.buffer = <<>> /\ job'.writer.next = 0
    BY <1>1, NoJobFacts DEF NewWriter
  <2>2. temp'.synced = 0
    BY <1>1, NoJobFacts
  <2> QED
    BY <2>1, <2>2, NothingWritten, Zenon DEF WritesSource
<1>5. SealsSource' /\ NamesSealed'
  BY <1>1 DEF SealsSource, NamesSealed
<1> QED
  BY <1>2, <1>3, <1>4, <1>5 DEF FileInv

\* A step that leaves the name and the keys alone leaves the name good.
LEMMA NameStaysGood ==
  ASSUME FileInv, UNCHANGED <<cipher, name, former>>
  PROVE  Good(name, CandidateKeys)' /\ Good(former, CandidateKeys)'
<1>1. Good(name, CandidateKeys) /\ Good(former, CandidateKeys)
  BY DEF FileInv
<1>2. CandidateKeys' = CandidateKeys /\ name' = name /\ former' = former
  BY DEF CandidateKeys
<1> QED
  BY <1>1, <1>2

\* A step of the job's pc alone.
LEMMA OnwardShape ==
  ASSUME Shapes, NEW pc \in {"verifying", "renaming", "published"},
         job' = [job EXCEPT !.pc = pc]
  PROVE  /\ job'.kind = job.kind /\ job'.pc = pc /\ job'.source = job.source
         /\ job'.left = job.left /\ job'.writer = job.writer
         /\ job' = [kind |-> job'.kind, pc |-> job'.pc, source |-> job'.source, left |-> job'.left,
                    writer |-> [buffer |-> job'.writer.buffer, next |-> job'.writer.next]]
BY DEF Shapes

LEMMA WritesKeepsInv == FileInv /\ JobWrites => FileInv'
<1> SUFFICES ASSUME FileInv, JobWrites PROVE FileInv'
  OBVIOUS
<1>1. PICK w, v, more : /\ w = job.writer /\ v = WritePlain(w, Head(job.left))
                        /\ more = temp.cells \o WrittenBy(w, cipher.current)
  OBVIOUS
<1>2. /\ job.pc = "writing" /\ job.left # <<>> /\ UNCHANGED <<cipher, name, former>>
      /\ job' = [job EXCEPT !.left = Tail(@), !.writer = v]
      /\ temp' = [temp EXCEPT !.cells = more]
  BY <1>1 DEF JobWrites
<1>3. /\ job'.kind = job.kind /\ job'.pc = "writing" /\ job'.source = job.source
      /\ job'.left = Tail(job.left) /\ job'.writer = v
      /\ temp'.cells = more /\ temp'.synced = temp.synced
      /\ temp' = [cells |-> temp'.cells, synced |-> temp'.synced]
      /\ job' = [kind |-> job'.kind, pc |-> job'.pc, source |-> job'.source, left |-> job'.left,
                 writer |-> v]
      /\ w = [buffer |-> w.buffer, next |-> w.next]
      /\ job.kind \in {"none", "inPlace", "compact"}
  <2>1. /\ temp = [cells |-> temp.cells, synced |-> temp.synced]
        /\ job.kind \in {"none", "inPlace", "compact"}
    BY DEF FileInv, Shapes
  <2>2. /\ temp'.cells = more /\ temp'.synced = temp.synced
        /\ temp' = [cells |-> temp'.cells, synced |-> temp'.synced]
    BY <1>2, <2>1
  <2>3. PICK kind, pc, source, left, b, m :
          job = [kind |-> kind, pc |-> pc, source |-> source, left |-> left,
                 writer |-> [buffer |-> b, next |-> m]]
    BY DEF FileInv, Shapes
  <2>4. w = [buffer |-> w.buffer, next |-> w.next]
    BY <1>1, <2>3
  <2>5. job' = [kind |-> job.kind, pc |-> "writing", source |-> job.source, left |-> Tail(job.left),
                writer |-> v]
    BY <1>2, <2>3
  <2> QED
    BY <2>1, <2>2, <2>4, <2>5
<1>4. /\ temp.synced = 0
      /\ WrittenSoFar(temp.cells, cipher.current, job.source, job.left, w.buffer, w.next)
  BY <1>1, <1>2 DEF FileInv, WritesSource
<1>5. /\ v = [buffer |-> v.buffer, next |-> v.next]
      /\ WrittenSoFar(more, cipher.current, job.source, Tail(job.left), v.buffer, v.next)
  <2>1. w = [buffer |-> w.buffer, next |-> w.next]
    BY <1>3
  <2>2. WrittenSoFar(temp.cells, cipher.current, job.source, job.left, w.buffer, w.next)
    BY <1>4
  <2>3. job.left # <<>>
    BY <1>2
  <2>4. LET u == WritePlain(w, Head(job.left)) IN
        /\ u = [buffer |-> u.buffer, next |-> u.next]
        /\ WrittenSoFar(temp.cells \o WrittenBy(w, cipher.current), cipher.current, job.source,
                        Tail(job.left), u.buffer, u.next)
    BY ONLY <2>1, <2>2, <2>3, WritesOne
  <2> QED
    BY <1>1, <2>4, Zenon
<1>6. Shapes'
  <2>1. job' = [kind |-> job'.kind, pc |-> job'.pc, source |-> job'.source, left |-> job'.left,
                writer |-> [buffer |-> job'.writer.buffer, next |-> job'.writer.next]]
    BY <1>3, <1>5, Zenon
  <2> QED
    BY <1>3, <2>1 DEF Shapes
<1>7. WritesSource'
  BY <1>2, <1>3, <1>4, <1>5, Zenon DEF WritesSource
<1>8. Sizes'
  <2>1. IsSeq(more) /\ Len(v.buffer) \in 0..ChunkSize
    BY <1>5, Zenon DEF WrittenSoFar, Chunks
  <2>2. Len(more) \in Nat
    BY <2>1, SeqIsFunction
  <2>3. 0 \in 0..Len(more)
    BY <2>2
  <2> QED
    BY <1>3, <1>4, <2>1, <2>3, Zenon DEF Sizes
<1>9. SealsSource' /\ NamesSealed'
  BY <1>3 DEF SealsSource, NamesSealed
<1>10. Good(name, CandidateKeys)' /\ Good(former, CandidateKeys)'
  BY <1>2, NameStaysGood
<1> QED
  BY <1>6, <1>7, <1>8, <1>9, <1>10 DEF FileInv

LEMMA FinishesKeepsInv == FileInv /\ JobFinishes => FileInv'
<1> SUFFICES ASSUME FileInv, JobFinishes PROVE FileInv'
  OBVIOUS
<1>1. PICK w, more, pc : /\ w = job.writer /\ more = temp.cells \o LastChunk(w, cipher.current)
                         /\ pc = IF job.kind = "inPlace" THEN "verifying" ELSE "renaming"
  OBVIOUS
<1>2. /\ job.pc = "writing" /\ job.left = <<>> /\ UNCHANGED <<cipher, name, former>>
      /\ job' = [job EXCEPT !.pc = pc] /\ pc \in {"verifying", "renaming"}
      /\ temp' = [temp EXCEPT !.cells = more, !.synced = Len(more)]
  BY <1>1 DEF JobFinishes, Synced
<1>3. /\ job'.kind = job.kind /\ job'.pc = pc /\ job'.source = job.source
      /\ job'.writer = job.writer
      /\ job' = [kind |-> job'.kind, pc |-> job'.pc, source |-> job'.source, left |-> job'.left,
                 writer |-> [buffer |-> job'.writer.buffer, next |-> job'.writer.next]]
  BY <1>2, OnwardShape DEF FileInv
<1>4. /\ temp'.cells = more /\ temp'.synced = Len(more)
      /\ temp' = [cells |-> temp'.cells, synced |-> temp'.synced]
      /\ w = [buffer |-> w.buffer, next |-> w.next] /\ job.kind \in {"none", "inPlace", "compact"}
  <2>1. /\ temp = [cells |-> temp.cells, synced |-> temp.synced]
        /\ job.kind \in {"none", "inPlace", "compact"}
    BY DEF FileInv, Shapes
  <2>2. /\ temp'.cells = more /\ temp'.synced = Len(more)
        /\ temp' = [cells |-> temp'.cells, synced |-> temp'.synced]
    BY <1>2, <2>1
  <2>3. PICK kind, at, source, left, b, m :
          job = [kind |-> kind, pc |-> at, source |-> source, left |-> left,
                 writer |-> [buffer |-> b, next |-> m]]
    BY DEF FileInv, Shapes
  <2>4. w = [buffer |-> w.buffer, next |-> w.next]
    BY <1>1, <2>3
  <2> QED
    BY <2>1, <2>2, <2>4
<1>5. Encodes(more, cipher.current, job.source)
  <2>1. w = [buffer |-> w.buffer, next |-> w.next]
    BY <1>4
  <2>2. WrittenSoFar(temp.cells, cipher.current, job.source, <<>>, w.buffer, w.next)
    BY <1>1, <1>2 DEF FileInv, WritesSource
  <2>3. Encodes(temp.cells \o LastChunk(w, cipher.current), cipher.current, job.source)
    BY ONLY <2>1, <2>2, FinishesAll
  <2> QED
    BY <1>1, <2>3
<1>6. Shapes'
  BY <1>2, <1>3, <1>4 DEF Shapes
<1>7. Sizes'
  <2>1. IsSeq(more)
    BY <1>5, EncodedIsSeq
  <2>2. Len(more) \in 0..Len(more)
    BY <2>1, SeqIsFunction
  <2>3. Len(job.writer.buffer) \in 0..ChunkSize
    BY DEF FileInv, Sizes
  <2> QED
    BY <1>3, <1>4, <2>1, <2>2, <2>3, Zenon DEF Sizes
<1>8. WritesSource' /\ NamesSealed'
  BY <1>2, <1>3 DEF WritesSource, NamesSealed
<1>9. SealsSource'
  BY <1>2, <1>3, <1>4, <1>5, Zenon DEF SealsSource
<1>10. Good(name, CandidateKeys)' /\ Good(former, CandidateKeys)'
  BY <1>2, NameStaysGood
<1> QED
  BY <1>6, <1>7, <1>8, <1>9, <1>10 DEF FileInv

\* The read-back changes nothing but the step the job is at.
LEMMA VerifiesKeepsInv == FileInv /\ JobVerifies => FileInv'
<1> SUFFICES ASSUME FileInv, JobVerifies PROVE FileInv'
  OBVIOUS
<1>1. job.pc = "verifying" /\ job' = [job EXCEPT !.pc = "renaming"]
      /\ UNCHANGED <<cipher, name, former, temp>>
  BY DEF JobVerifies
<1>2. /\ job'.kind = job.kind /\ job'.pc = "renaming" /\ job'.source = job.source
      /\ job'.writer = job.writer
      /\ job' = [kind |-> job'.kind, pc |-> job'.pc, source |-> job'.source, left |-> job'.left,
                 writer |-> [buffer |-> job'.writer.buffer, next |-> job'.writer.next]]
  BY <1>1, OnwardShape DEF FileInv
<1>3. Shapes'
  BY <1>1, <1>2 DEF FileInv, Shapes
<1>4. Sizes'
  BY <1>1, <1>2 DEF FileInv, Sizes
<1>5. WritesSource' /\ NamesSealed'
  BY <1>2 DEF WritesSource, NamesSealed
<1>6. SealsSource'
  BY <1>1, <1>2 DEF FileInv, SealsSource
<1>7. Good(name, CandidateKeys)' /\ Good(former, CandidateKeys)'
  BY <1>1, NameStaysGood
<1> QED
  BY <1>3, <1>4, <1>5, <1>6, <1>7 DEF FileInv

\* A rename puts the sealed file in the place of a name that was good.
LEMMA RenamesKeepsInv == FileInv /\ JobRenames => FileInv'
<1> SUFFICES ASSUME FileInv, JobRenames PROVE FileInv'
  OBVIOUS
<1>1. /\ job.pc = "renaming" /\ job' = [job EXCEPT !.pc = "published"]
      /\ name' = [kind |-> "sealed", body |-> temp.cells, content |-> job.source]
      /\ former' = name /\ UNCHANGED <<cipher, temp>>
  BY DEF JobRenames
<1>2. /\ job'.kind = job.kind /\ job'.pc = "published" /\ job'.source = job.source
      /\ job'.writer = job.writer
      /\ job' = [kind |-> job'.kind, pc |-> job'.pc, source |-> job'.source, left |-> job'.left,
                 writer |-> [buffer |-> job'.writer.buffer, next |-> job'.writer.next]]
  BY <1>1, OnwardShape DEF FileInv
<1>3. Encodes(temp.cells, cipher.current, job.source) /\ temp.synced = Len(temp.cells)
  BY <1>1 DEF FileInv, SealsSource
<1>4. Shapes'
  BY <1>1, <1>2 DEF FileInv, Shapes
<1>5. Sizes'
  BY <1>1, <1>2 DEF FileInv, Sizes
<1>6. WritesSource'
  BY <1>2 DEF WritesSource
<1>7. SealsSource'
  BY <1>1, <1>2, <1>3 DEF SealsSource
<1>8. NamesSealed'
  BY <1>1, <1>2 DEF NamesSealed
<1>9. CandidateKeys' = CandidateKeys /\ cipher.current \in CandidateKeys
  BY <1>1 DEF CandidateKeys
<1>10. Good(name, CandidateKeys)'
  <2>1. /\ name'.kind = "sealed" /\ name'.body = temp.cells /\ name'.content = job.source
        /\ name' = [kind |-> name'.kind, body |-> name'.body, content |-> name'.content]
    BY <1>1
  <2>2. \E key \in CandidateKeys' : Encodes(name'.body, key, name'.content)
    BY <1>3, <1>9, <2>1, Zenon
  <2> QED
    BY <2>1, <2>2 DEF Good
<1>11. Good(former, CandidateKeys)'
  BY <1>1, <1>9 DEF FileInv
<1> QED
  BY <1>4, <1>5, <1>6, <1>7, <1>8, <1>10, <1>11 DEF FileInv

\* The directory is synced: what was under the name before is gone.
LEMMA EndKeepsInv == FileInv /\ (JobEnds \/ JobFails) => FileInv'
<1> SUFFICES ASSUME FileInv, JobEnds \/ JobFails PROVE FileInv'
  OBVIOUS
<1>1. /\ job' = NoJob /\ temp' = NoTemp /\ UNCHANGED <<cipher, name>>
      /\ former' \in {name, former}
  BY DEF JobEnds, JobFails
<1>2. Good(name, CandidateKeys)' /\ Good(former, CandidateKeys)'
  <2>1. Good(name, CandidateKeys) /\ Good(former, CandidateKeys)
    BY DEF FileInv
  <2>2. CandidateKeys' = CandidateKeys /\ name' = name
    BY <1>1 DEF CandidateKeys
  <2> QED
    BY <1>1, <2>1, <2>2
<1> QED
  <2>1. Idle'
    BY <1>1, <1>2 DEF Idle
  <2> QED
    BY <2>1, IdleInv, PTL

LEMMA CrashKeepsInv == FileInv /\ JobCrashes => FileInv'
<1> SUFFICES ASSUME FileInv, JobCrashes PROVE FileInv'
  OBVIOUS
<1>1. job' = NoJob /\ temp' = NoTemp /\ cipher' = cipher
  BY DEF JobCrashes
<1>2. name' \in {name, former} /\ former' \in {name, former}
  <2>1. CASE job.pc # "published" /\ UNCHANGED <<name, former>>
    BY <2>1
  <2>2. CASE job.pc = "published" /\ name' = former /\ UNCHANGED former
    BY <2>2
  <2>3. CASE /\ job.pc = "published"
             /\ \E n \in temp.synced..Len(temp.cells) :
                  name' = [name EXCEPT !.body = SubSeq(temp.cells, 1, n)]
             /\ former' = name'
    <3>1. PICK n \in temp.synced..Len(temp.cells) :
            name' = [name EXCEPT !.body = SubSeq(temp.cells, 1, n)]
      BY <2>3
    <3>2. IsSeq(temp.cells) /\ temp.synced = Len(temp.cells)
      BY <2>3 DEF FileInv, Sizes, SealsSource
    <3>3. Len(temp.cells) \in Nat
      BY <3>2, SeqIsFunction
    <3>4. n = Len(temp.cells)
      BY <3>2, <3>3
    <3>5. SubSeq(temp.cells, 1, Len(temp.cells)) = temp.cells
      BY <3>2, SubSeqFull DEF IsSeq
    <3>6. name = [kind |-> "sealed", body |-> temp.cells, content |-> job.source]
      BY <2>3 DEF FileInv, NamesSealed
    <3>7. name' = name
      BY <3>1, <3>4, <3>5, <3>6
    <3> QED
      BY <2>3, <3>7
  <2> QED
    BY <2>1, <2>2, <2>3 DEF JobCrashes
<1>3. Good(name, CandidateKeys)' /\ Good(former, CandidateKeys)'
  <2>1. Good(name, CandidateKeys) /\ Good(former, CandidateKeys)
    BY DEF FileInv
  <2>2. CandidateKeys' = CandidateKeys
    BY <1>1 DEF CandidateKeys
  <2> QED
    BY <1>2, <2>1, <2>2
<1> QED
  <2>1. Idle'
    BY <1>1, <1>3 DEF Idle
  <2> QED
    BY <2>1, IdleInv, PTL

\* The key a file is sealed under is one of the retired ones after a rotation.
LEMMA RotationKeepsInv == FileInv /\ KeysRotated => FileInv'
<1> SUFFICES ASSUME FileInv, KeysRotated PROVE FileInv'
  OBVIOUS
<1>1. /\ job.pc = "idle" /\ cipher.retired = {} /\ UNCHANGED <<job, name, former, temp>>
      /\ cipher' = [current |-> "k2", retired |-> {cipher.current}]
  BY DEF KeysRotated
<1>2. CandidateKeys \subseteq CandidateKeys'
  BY <1>1 DEF CandidateKeys
<1>3. Good(name, CandidateKeys)' /\ Good(former, CandidateKeys)'
  <2>1. Good(name, CandidateKeys) /\ Good(former, CandidateKeys)
    BY DEF FileInv
  <2>2. Good(name, CandidateKeys') /\ Good(former, CandidateKeys')
    BY <1>2, <2>1, GoodUnderMoreKeys
  <2>3. name' = name /\ former' = former
    BY <1>1
  <2> QED
    BY <2>2, <2>3
<1>4. Shapes' /\ Sizes'
  BY <1>1 DEF FileInv, Shapes, Sizes
<1>5. WritesSource' /\ SealsSource' /\ NamesSealed'
  BY <1>1 DEF WritesSource, SealsSource, NamesSealed
<1> QED
  BY <1>3, <1>4, <1>5 DEF FileInv

LEMMA InPlaceKeepsInv == FileInv /\ InPlaceStarts => FileInv'
<1> SUFFICES ASSUME FileInv, InPlaceStarts PROVE FileInv'
  OBVIOUS
<1>1. /\ name # Absent /\ name.kind # "sealed" /\ JobStarts("inPlace", name.body)
      /\ UNCHANGED <<cipher, name, former>>
  BY DEF InPlaceStarts, IsSealedFile
<1>2. IsSeq(name.body)
  BY <1>1 DEF FileInv, Good
<1> QED
  BY <1>1, <1>2, StartsKeepInv

LEMMA FileInvIsInductive ==
  FileInv /\ [JobNext \/ KeysRotated \/ CompactsAny]_fileVars => FileInv'
<1> SUFFICES ASSUME FileInv, [JobNext \/ KeysRotated \/ CompactsAny]_fileVars PROVE FileInv'
  OBVIOUS
<1>1. CASE InPlaceStarts
  BY <1>1, InPlaceKeepsInv
<1>2. CASE JobWrites
  BY <1>2, WritesKeepsInv
<1>3. CASE JobFinishes
  BY <1>3, FinishesKeepsInv
<1>4. CASE JobVerifies
  BY <1>4, VerifiesKeepsInv
<1>5. CASE JobFails
  BY <1>5, EndKeepsInv
<1>6. CASE JobRenames
  BY <1>6, RenamesKeepsInv
<1>7. CASE JobEnds
  BY <1>7, EndKeepsInv
<1>8. CASE JobCrashes
  BY <1>8, CrashKeepsInv
<1>9. CASE KeysRotated
  BY <1>9, RotationKeepsInv
<1>10. CASE CompactsAny
  <2>1. PICK source : IsSeq(source) /\ JobStarts("compact", source)
    BY <1>10 DEF CompactsAny
  <2> QED
    BY <1>10, <2>1, StartsKeepInv DEF CompactsAny
<1>11. CASE UNCHANGED fileVars
  <2>1. UNCHANGED <<cipher, job, name, former, temp>>
    BY <1>11 DEF fileVars
  <2>2. Good(name, CandidateKeys)' /\ Good(former, CandidateKeys)'
    BY <2>1, NameStaysGood
  <2> QED
    BY <2>1, <2>2 DEF FileInv, Shapes, Sizes, WritesSource, SealsSource, NamesSealed
<1> QED
  BY <1>1, <1>2, <1>3, <1>4, <1>5, <1>6, <1>7, <1>8, <1>9, <1>10, <1>11 DEF JobNext

\* The job and its files have their types, at every step of any job.
THEOREM FileTypeInvariant == FileSpec => []FileTypeOK
<1>1. FileInv => FileTypeOK
  <2> SUFFICES ASSUME FileInv PROVE FileTypeOK
    OBVIOUS
  <2>1. IsSeq(temp.cells)
    BY DEF FileInv, Sizes
  <2>2. Len(temp.cells) \in Nat /\ ChunkSize \in Nat
    BY <2>1, SeqIsFunction, SealedFileAssumption
  <2> QED
    BY <2>2 DEF FileInv, FileTypeOK, Shapes, Sizes, Good
<1> QED
  BY <1>1, FileInitially, FileInvIsInductive, PTL DEF FileSpec

\* The name of a sealed file always stands for its content. A job that seals a file in
\* place, or compacts a log, may fail or crash at any step of its own: what is under the
\* name is the plaintext as it was, or a sealed file that reads back as that content in
\* every range and does not open when it is cut short.
THEOREM NameKeepsContentInvariant == FileSpec => []NameKeepsContent
<1>1. FileInv => NameKeepsContent
  <2> SUFFICES ASSUME FileInv PROVE NameKeepsContent
    OBVIOUS
  <2>1. Good(name, CandidateKeys)
    BY DEF FileInv
  <2>2. name.kind = "plain" => name.body = name.content
    BY <2>1 DEF Good
  <2>3. ASSUME name.kind = "sealed"
        PROVE  \E key \in CandidateKeys : Encodes(name.body, key, name.content)
    BY <2>1, <2>3, Zenon DEF Good
  <2>4. ASSUME name.kind = "sealed"
        PROVE  \E key \in CandidateKeys :
                 /\ OpensUnder(name.body, key)
                 /\ PlaintextLen(name.body) = Len(name.content)
                 /\ \A start \in 0..Len(name.content) : \A len \in 0..(Len(name.content) + 1) :
                      ReadRange(name.body, key, start, len) =
                        <<SubSeq(name.content, start + 1,
                                 IF start + len < Len(name.content) THEN start + len
                                 ELSE Len(name.content))>>
    <3>1. PICK key \in CandidateKeys : Encodes(name.body, key, name.content)
      BY <2>3, <2>4
    <3>2. OpensUnder(name.body, key) /\ PlaintextLen(name.body) = Len(name.content)
      BY <3>1, EncodedOpens
    <3>3. ASSUME NEW start \in 0..Len(name.content), NEW len \in 0..(Len(name.content) + 1)
          PROVE  ReadRange(name.body, key, start, len) =
                   <<SubSeq(name.content, start + 1,
                            IF start + len < Len(name.content) THEN start + len
                            ELSE Len(name.content))>>
      <4>1. len \in Nat
        OBVIOUS
      <4> QED
        BY <3>1, <4>1, ReadsRange
    <3> QED
      BY <3>2, <3>3, Zenon
  <2>5. ASSUME name.kind = "sealed", NEW key \in CandidateKeys, NEW n \in 0..(Len(name.body) - 1)
        PROVE  ~OpensUnder(SubSeq(name.body, 1, n), key)
    <3>1. PICK own : Encodes(name.body, own, name.content)
      BY <2>3, <2>5
    <3>2. PICK m \in Nat : EncodedAs(name.body, own, name.content, m)
      BY <3>1 DEF Encodes
    <3> QED
      BY <3>2, CutDoesNotOpen
  <2> QED
    BY <2>2, <2>4, <2>5, Zenon DEF NameKeepsContent
<1> QED
  BY <1>1, FileInitially, FileInvIsInductive, PTL DEF FileSpec
================================================================================
